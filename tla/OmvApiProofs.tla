---------------------------- MODULE OmvApiProofs ----------------------------
(***************************************************************************)
(* Theorems about OmvApi, for every set of callers, number of retries and  *)
(* skew of the clocks.                                                     *)
(***************************************************************************)
EXTENDS OmvApi, SequenceFacts, SequenceTheorems, TLAPS

-----------------------------------------------------------------------------
(* The inductive invariant.                                                *)

FirstLogin == {"connect", "submit"}
Holding == {"backoff", "recover", "relogin"} \cup AtRequest

\* What a call has behind it where it waits: executions, lost answers, logins.
Counted(r) ==
  /\ r.attempt <= r.retries
  /\ r.pc # "idle" => r.result = "new" /\ r.executed = r.lost
  /\ r.pc \in FirstLogin \cup {"waiting"} => r.attempt = 0 /\ r.lost = 0
  /\ r.pc = "waiting" => r.logins = 0
  /\ r.pc \in {"asking", "backoff"} => r.logins <= r.attempt
  /\ r.pc \in AtLogin \cup {"again"} => r.logins <= r.attempt + 1
  /\ r.pc \in {"asking", "relogin", "again"} => r.lost <= r.attempt
  /\ r.pc \in {"backoff", "recover"} => r.lost <= r.attempt + 1 /\ r.attempt < r.retries
  /\ r.logins <= r.retries + 1

\* Whatever may become an authentication failure has its reason.
Excused(r) ==
  /\ r.result = "auth" => r.excuse
  /\ r.pc = "again" /\ r.header # "live" => r.excuse
  /\ r.code > 0 => r.pc \in AtLogin
  /\ \A k \in 1 .. 3 : k < r.code /\ Windows[k] = Skew => r.excuse

CallInv == \A c \in Callers : Counted(call[c]) /\ Excused(call[c])

\* The first of those in the lock holds it, the others wait.
LockInv ==
  /\ \A i, j \in 1 .. Len(lock) : lock[i] = lock[j] => i = j
  /\ \A i \in 1 .. Len(lock) :
       call[lock[i]].pc \in (IF i = 1 THEN Holding \cup {"waiting"} ELSE {"waiting"})
  /\ \A c \in Callers :
       call[c].pc \in Holding \cup {"waiting"} => \E i \in 1 .. Len(lock) : lock[i] = c

\* A first login is alone with a client that nobody may close.
StageInv ==
  /\ \A c, d \in Callers : call[c].pc \in FirstLogin /\ d # c => call[d].pc = "idle"
  /\ stage = "connecting" <=> \E c \in Callers : call[c].pc \in FirstLogin
  /\ stage \in {"new", "challenged"} => \A c \in Callers : call[c].pc = "idle"
  /\ stage \in {"connecting", "challenged"} => session = "open"

\* No other login has replaced the session that a login has begun.
SidInv == \A c \in Callers : call[c].pc \in AtLogin => sid = "none"

ApiInv == TypeOK /\ CallInv /\ LockInv /\ StageInv /\ SidInv

-----------------------------------------------------------------------------
(* What the steps of a call make of its record.                            *)

Others(c) == \A d \in Callers \ {c} : call'[d] = call[d]

Same(s, r) ==
  /\ s.attempt = r.attempt /\ s.retries = r.retries /\ s.excuse = r.excuse
  /\ s.executed = r.executed /\ s.lost = r.lost

\* Where a step leaves the task, and the lock with it.
Stays(c) == call'[c].pc \in Holding \cup FirstLogin /\ UNCHANGED lock
Queues(c) == call'[c].pc = "waiting" /\ lock' = Append(lock, c)
Leaves(c) == call'[c].pc = "idle" /\ Release(c)

Typed(c) == call' \in [Callers -> Calls] /\ Others(c)
Good(c) == Typed(c) /\ Counted(call'[c]) /\ Excused(call'[c])

\* The history of the executions is that of r.
Tally(c, r) == call'[c].executed = r.executed /\ call'[c].lost = r.lost

LEMMA Constants ==
  /\ Len(Windows) = 3 /\ Windows[1] = 0 /\ Windows[2] = -1 /\ Windows[3] = 1
  /\ {0, 1} \subseteq 0 .. Len(Windows)
  /\ Places = {"idle", "waiting", "backoff", "connect", "submit", "recover", "relogin",
               "asking", "again"}
  /\ "none" \in Tokens /\ "live" \in Tokens
  BY DEF Windows, Places, AtLogin, AtRequest, Tokens

LEMMA Update ==
  ASSUME TypeOK, NEW c \in Callers, NEW s \in Calls, call' = [call EXCEPT ![c] = s]
  PROVE  Typed(c) /\ call'[c] = s
  BY DEF TypeOK, Typed, Others

LEMMA Awaits ==
  ASSUME TypeOK, NEW c \in Callers, NEW r \in Calls, NEW place \in Places,
         sid' \in Tokens, Await(c, r, place)
  PROVE  /\ Typed(c) /\ UNCHANGED lock /\ Same(call'[c], r)
         /\ call'[c].pc = place /\ call'[c].header = sid' /\ call'[c].code = r.code
         /\ call'[c].result = r.result /\ call'[c].logins = r.logins
<1> DEFINE s == [r EXCEPT !.pc = place, !.header = sid']
<1>1. s \in Calls
  BY DEF Calls
<1>2. call' = [call EXCEPT ![c] = s]
  BY DEF Await
<1>3. Typed(c) /\ call'[c] = s
  BY <1>1, <1>2, Update
<1>4. /\ Same(s, r) /\ s.pc = place /\ s.header = sid' /\ s.code = r.code
      /\ s.result = r.result /\ s.logins = r.logins
  BY DEF Same, Calls
<1>5. UNCHANGED lock
  BY DEF Await
<1> HIDE DEF s
<1>6. QED
  BY <1>3, <1>4, <1>5

LEMMA QueuesUp ==
  ASSUME TypeOK, NEW c \in Callers, NEW r \in Calls, Queue(c, r)
  PROVE  /\ Typed(c) /\ Queues(c) /\ Same(call'[c], r)
         /\ call'[c].header = r.header /\ call'[c].code = 0
         /\ call'[c].result = r.result /\ call'[c].logins = 0
<1> DEFINE s == [r EXCEPT !.pc = "waiting", !.code = 0, !.logins = 0]
<1>1. s \in Calls
  <2>1. "waiting" \in Places /\ 0 \in 0 .. Len(Windows) /\ 0 \in 0 .. MaxRetries + 1
    BY Constants, MaxRetriesAssumption
  <2>2. QED
    BY <2>1 DEF Calls
<1>2. call' = [call EXCEPT ![c] = s] /\ lock' = Append(lock, c)
  BY DEF Queue
<1>3. Typed(c) /\ call'[c] = s
  BY <1>1, <1>2, Update
<1>4. /\ Same(s, r) /\ s.pc = "waiting" /\ s.header = r.header /\ s.code = 0
      /\ s.result = r.result /\ s.logins = 0
  BY DEF Same, Calls
<1> HIDE DEF s
<1>5. QED
  BY <1>2, <1>3, <1>4 DEF Queues

LEMMA Returns ==
  ASSUME TypeOK, NEW c \in Callers, NEW r \in Calls, NEW outcome \in Results,
         Return(c, r, outcome)
  PROVE  /\ Typed(c) /\ Leaves(c) /\ Same(call'[c], r)
         /\ call'[c].header = "none" /\ call'[c].code = 0
         /\ call'[c].result = outcome /\ call'[c].logins = r.logins
<1> DEFINE s == [r EXCEPT !.pc = "idle", !.code = 0, !.header = "none", !.result = outcome]
<1>1. s \in Calls
  <2>1. "idle" \in Places /\ 0 \in 0 .. Len(Windows) /\ "none" \in Tokens
    BY Constants
  <2>2. QED
    BY <2>1 DEF Calls
<1>2. call' = [call EXCEPT ![c] = s] /\ Release(c)
  BY DEF Return
<1>3. Typed(c) /\ call'[c] = s
  BY <1>1, <1>2, Update
<1>4. /\ Same(s, r) /\ s.pc = "idle" /\ s.header = "none" /\ s.code = 0
      /\ s.result = outcome /\ s.logins = r.logins
  BY DEF Same, Calls
<1> HIDE DEF s
<1>5. QED
  BY <1>2, <1>3, <1>4 DEF Leaves

LEMMA ReturnKeeps ==
  ASSUME TypeOK, NEW c \in Callers, NEW r \in Calls, NEW outcome \in Results,
         Return(c, r, outcome), outcome = "auth" => r.excuse,
         r.attempt <= r.retries, r.logins <= r.retries + 1
  PROVE  Good(c) /\ Leaves(c) /\ Tally(c, r) /\ call'[c].result = outcome
<1>1. /\ Typed(c) /\ Leaves(c) /\ Same(call'[c], r)
      /\ call'[c].header = "none" /\ call'[c].code = 0
      /\ call'[c].result = outcome /\ call'[c].logins = r.logins
  BY Returns
<1>2. call'[c].pc = "idle"
  BY <1>1 DEF Leaves
<1>3. Counted(call'[c])
  BY <1>1, <1>2 DEF Counted, Same, FirstLogin, AtLogin
<1>4. Excused(call'[c])
  BY <1>1, <1>2 DEF Excused, Same
<1>5. QED
  BY <1>1, <1>3, <1>4 DEF Good, Tally, Same

\* The loop of async_call.
Ready(r) ==
  /\ r.result = "new" /\ r.code = 0 /\ r.executed = r.lost
  /\ r.attempt <= r.retries /\ r.logins <= r.attempt

LEMMA ConnectionErrorKeeps ==
  ASSUME TypeOK, NEW c \in Callers, NEW r \in Calls, sid' \in Tokens,
         Ready(r), r.lost <= r.attempt + 1, ConnectionError(c, r)
  PROVE  /\ Good(c) /\ Tally(c, r)
         /\ \/ Stays(c) /\ call'[c].pc = "backoff"
            \/ Leaves(c) /\ call'[c].result = "connection"
<1> r.attempt \in Nat /\ r.retries \in Nat /\ r.logins \in Nat
  BY MaxRetriesAssumption DEF Calls
<1>1. CASE r.attempt >= r.retries
  BY <1>1, ReturnKeeps DEF ConnectionError, Ready, Results
<1>2. CASE ~(r.attempt >= r.retries)
  <2>1. Await(c, r, "backoff") /\ "backoff" \in Places
    BY <1>2 DEF ConnectionError, Places
  <2>2. /\ Typed(c) /\ UNCHANGED lock /\ Same(call'[c], r)
        /\ call'[c].pc = "backoff" /\ call'[c].header = sid' /\ call'[c].code = r.code
        /\ call'[c].result = r.result /\ call'[c].logins = r.logins
    BY <2>1, Awaits
  <2>3. Counted(call'[c])
    BY <1>2, <2>2 DEF Counted, Ready, Same, FirstLogin, AtLogin
  <2>4. Excused(call'[c])
    BY <2>2 DEF Excused, Ready
  <2>5. QED
    BY <2>2, <2>3, <2>4 DEF Good, Tally, Same, Stays, Holding
<1>3. QED
  BY <1>1, <1>2

LEMMA AskKeeps ==
  ASSUME TypeOK, NEW c \in Callers, NEW r \in Calls, sid' \in Tokens,
         Ready(r), r.lost <= r.attempt, Ask(c, r)
  PROVE  /\ Good(c) /\ Tally(c, r)
         /\ \/ Stays(c) /\ call'[c].pc \in {"asking", "backoff"}
            \/ Leaves(c) /\ call'[c].result = "connection"
<1> r.attempt \in Nat /\ r.retries \in Nat /\ r.logins \in Nat /\ r.lost \in Nat
  BY MaxRetriesAssumption DEF Calls
<1>1. CASE session' = "open"
  <2>1. Await(c, r, "asking") /\ "asking" \in Places
    BY <1>1 DEF Ask, Places, AtRequest
  <2>2. /\ Typed(c) /\ UNCHANGED lock /\ Same(call'[c], r)
        /\ call'[c].pc = "asking" /\ call'[c].header = sid' /\ call'[c].code = r.code
        /\ call'[c].result = r.result /\ call'[c].logins = r.logins
    BY <2>1, Awaits
  <2>3. Counted(call'[c])
    BY <2>2 DEF Counted, Ready, Same, FirstLogin, AtLogin
  <2>4. Excused(call'[c])
    BY <2>2 DEF Excused, Ready
  <2>5. QED
    BY <2>2, <2>3, <2>4 DEF Good, Tally, Same, Stays, Holding, AtRequest
<1>2. CASE session' # "open"
  <2>1. ConnectionError(c, r) /\ r.lost <= r.attempt + 1
    BY <1>2 DEF Ask
  <2>2. QED
    BY <2>1, ConnectionErrorKeeps
<1>3. QED
  BY <1>1, <1>2

LEMMA CallTypes ==
  ASSUME NEW r \in Calls
  PROVE  /\ r.attempt \in Nat /\ r.retries \in Nat /\ r.retries <= MaxRetries
         /\ r.logins \in Nat /\ r.executed \in Nat /\ r.lost \in Nat
         /\ r.code \in 0 .. 3 /\ r.pc \in Places
  BY MaxRetriesAssumption, Constants DEF Calls

\* An exception of _async_login.
LEMMA LoginFailedKeeps ==
  ASSUME TypeOK, NEW c \in Callers, NEW r \in Calls, sid' \in Tokens, NEW outcome \in Results,
         Counted(r), r.pc \in AtLogin, outcome = "auth" => r.excuse,
         LoginFailed(c, r, outcome)
  PROVE  /\ Good(c) /\ Tally(c, r)
         /\ \/ Stays(c) /\ r.pc = "recover" /\ call'[c].pc \in {"asking", "backoff"}
            \/ Leaves(c) /\ call'[c].result \in {"connection", outcome}
<1> /\ r.attempt \in Nat /\ r.retries \in Nat /\ r.retries <= MaxRetries
    /\ r.logins \in Nat /\ r.lost \in Nat
  BY CallTypes
<1>1. r.attempt <= r.retries /\ r.logins <= r.retries + 1 /\ r.result = "new" /\ r.executed = r.lost
  BY DEF Counted, AtLogin
<1>2. CASE r.pc = "recover"
  <2> DEFINE q == [r EXCEPT !.attempt = r.attempt + 1, !.code = 0]
  <2>1. r.attempt + 1 \in 0 .. MaxRetries /\ 0 \in 0 .. Len(Windows)
    <3>1. r.attempt < r.retries
      BY <1>2 DEF Counted
    <3>2. QED
      BY <3>1, Constants, MaxRetriesAssumption
  <2>2. q \in Calls
    BY <2>1 DEF Calls
  <2>3. /\ q.attempt = r.attempt + 1 /\ q.retries = r.retries /\ q.code = 0
        /\ q.result = r.result /\ q.logins = r.logins /\ q.executed = r.executed
        /\ q.lost = r.lost
    BY DEF Calls
  <2>4. Ask(c, q)
    BY <1>2 DEF LoginFailed
  <2> HIDE DEF q
  <2>5. Ready(q) /\ q.lost <= q.attempt
    BY <1>1, <1>2, <2>3 DEF Counted, Ready, AtLogin
  <2>6. /\ Good(c) /\ Tally(c, q)
        /\ \/ Stays(c) /\ call'[c].pc \in {"asking", "backoff"}
           \/ Leaves(c) /\ call'[c].result = "connection"
    BY <2>2, <2>4, <2>5, AskKeeps
  <2>7. QED
    BY <1>2, <2>3, <2>6 DEF Tally
<1>3. CASE r.pc # "recover"
  <2>1. Return(c, r, outcome)
    BY <1>3 DEF LoginFailed
  <2>2. QED
    BY <1>1, <2>1, ReturnKeeps
<1>4. QED
  BY <1>2, <1>3

\* The next request of _async_login.
Sends(r, place, code) ==
  [r EXCEPT !.pc = place, !.code = code, !.logins = IF code = 0 THEN @ + 1 ELSE @]

LEMMA SendFields ==
  ASSUME NEW r \in Calls, NEW place, NEW code
  PROVE  LET s == Sends(r, place, code) IN
         /\ s.pc = place /\ s.code = code /\ s.header = r.header /\ s.result = r.result
         /\ s.logins = (IF code = 0 THEN r.logins + 1 ELSE r.logins)
         /\ Same(s, r)
  BY DEF Sends, Calls, Same

LEMMA SendLoginKeeps ==
  ASSUME TypeOK, NEW c \in Callers, NEW r \in Calls, sid' \in Tokens,
         NEW place \in AtLogin, NEW code \in 0 .. 3,
         Counted(Sends(r, place, code)),
         \A k \in 1 .. 3 : k < code /\ Windows[k] = Skew => r.excuse,
         SendLogin(c, r, place, code)
  PROVE  /\ Good(c) /\ Tally(c, r)
         /\ \/ Stays(c) /\ call'[c].pc = place /\ session' = "open"
            \/ /\ session' # "open"
               /\ \/ Stays(c) /\ place = "recover" /\ call'[c].pc \in {"asking", "backoff"}
                  \/ Leaves(c) /\ call'[c].result = "connection"
<1> /\ r.attempt \in Nat /\ r.retries \in Nat /\ r.retries <= MaxRetries
    /\ r.logins \in Nat /\ r.lost \in Nat
  BY CallTypes
<1> place \in Places
  BY DEF Places
<1> DEFINE s == Sends(r, place, code)
<1>1. /\ s.pc = place /\ s.code = code /\ s.header = r.header /\ s.result = r.result
      /\ s.logins = (IF code = 0 THEN r.logins + 1 ELSE r.logins)
      /\ Same(s, r)
  BY SendFields
<1>2. s.result = "new" /\ s.executed = s.lost
  BY <1>1 DEF Counted, AtLogin
<1>3. CASE session' = "open"
  <2> DEFINE q == [r EXCEPT !.code = code, !.logins = IF code = 0 THEN @ + 1 ELSE @]
  <2>1. Await(c, q, place)
    BY <1>3 DEF SendLogin
  <2>2. (IF code = 0 THEN r.logins + 1 ELSE r.logins) \in 0 .. MaxRetries + 1
    <3>1. s.logins <= s.retries + 1
      BY DEF Counted
    <3>2. s.logins <= r.retries + 1
      BY <1>1, <3>1 DEF Same
    <3>3. QED
      BY <1>1, <3>2, MaxRetriesAssumption
  <2>3. code \in 0 .. Len(Windows)
    BY Constants
  <2>4. q \in Calls
    BY <2>2, <2>3 DEF Calls
  <2>5. /\ Same(q, r) /\ q.code = code /\ q.result = r.result
        /\ q.logins = (IF code = 0 THEN r.logins + 1 ELSE r.logins)
    BY DEF Calls, Same
  <2> HIDE DEF q
  <2>6. /\ Typed(c) /\ UNCHANGED lock /\ Same(call'[c], q)
        /\ call'[c].pc = place /\ call'[c].header = sid' /\ call'[c].code = q.code
        /\ call'[c].result = q.result /\ call'[c].logins = q.logins
    BY <2>1, <2>4, Awaits
  <2>7. /\ Same(call'[c], s) /\ call'[c].pc = s.pc /\ call'[c].code = s.code
        /\ call'[c].result = s.result /\ call'[c].logins = s.logins
    BY <1>1, <2>5, <2>6 DEF Same
  <2>8. Counted(call'[c])
    BY <2>7 DEF Counted, Same
  <2>9. Excused(call'[c])
    <3>1. /\ call'[c].result = "new" /\ call'[c].pc = place /\ call'[c].code = code
          /\ call'[c].excuse = r.excuse
      BY <1>1, <1>2, <2>7 DEF Same
    <3>2. QED
      BY <3>1 DEF Excused, AtLogin
  <2>10. Stays(c) /\ Tally(c, r)
    BY <2>5, <2>6 DEF Stays, Tally, Same, Holding, FirstLogin, AtLogin
  <2>11. QED
    BY <1>3, <2>6, <2>8, <2>9, <2>10 DEF Good
<1>4. CASE session' # "open"
  <2> DEFINE q == [r EXCEPT !.pc = place]
  <2>1. LoginFailed(c, q, "connection")
    BY <1>4 DEF SendLogin
  <2>2. q \in Calls
    BY DEF Calls
  <2>3. /\ Same(q, r) /\ q.pc = place /\ q.code = r.code /\ q.result = r.result
        /\ q.logins = r.logins
    BY DEF Calls, Same
  <2> HIDE DEF q
  <2>4. /\ Same(q, s) /\ q.pc = s.pc /\ q.result = s.result /\ q.logins <= s.logins
        /\ q.logins \in Nat /\ s.logins \in Nat
    BY <1>1, <2>3 DEF Same
  <2>5. s.attempt \in Nat /\ s.retries \in Nat
    BY <1>1 DEF Same
  <2>6. Counted(q)
    <3>1. q.pc \in AtLogin /\ q.pc # "waiting" /\ q.pc # "idle"
      BY <2>3 DEF AtLogin
    <3>2. s.logins <= s.attempt + 1 /\ s.logins <= s.retries + 1
      BY <2>4, <3>1 DEF Counted
    <3>3. q.logins <= q.attempt + 1 /\ q.logins <= q.retries + 1
      BY <2>4, <2>5, <3>2 DEF Same
    <3>4. q.pc \notin {"asking", "backoff"}
      BY <3>1 DEF AtLogin
    <3>5. QED
      BY <2>4, <3>1, <3>3, <3>4 DEF Counted, Same
  <2>7. "connection" \in Results /\ q.pc \in AtLogin
    BY <2>3 DEF Results
  <2>8. /\ Good(c) /\ Tally(c, q)
        /\ \/ Stays(c) /\ q.pc = "recover" /\ call'[c].pc \in {"asking", "backoff"}
           \/ Leaves(c) /\ call'[c].result = "connection"
    BY <2>1, <2>2, <2>6, <2>7, LoginFailedKeeps
  <2>9. QED
    BY <1>4, <2>3, <2>8 DEF Tally, Same
<1>5. QED
  BY <1>3, <1>4

LEMMA LoggedInKeeps ==
  ASSUME TypeOK, NEW c \in Callers, call[c].pc \in AtLogin, Counted(call[c]),
         LoggedIn(c, call[c])
  PROVE  /\ Good(c) /\ Tally(c, call[c]) /\ sid' = "live" /\ UNCHANGED <<session, secret>>
         /\ \/ call[c].pc \in FirstLogin /\ Queues(c) /\ stage' = "ready"
            \/ /\ call[c].pc \notin FirstLogin /\ stage' = stage
               /\ \/ Stays(c) /\ call'[c].pc \in {"asking", "again", "backoff"}
                  \/ Leaves(c) /\ call'[c].result = "connection"
<1> DEFINE r == call[c]
<1> r \in Calls
  BY DEF TypeOK
<1> /\ r.attempt \in Nat /\ r.retries \in Nat /\ r.retries <= MaxRetries
    /\ r.logins \in Nat /\ r.lost \in Nat
  BY CallTypes
<1>1. /\ r.attempt <= r.retries /\ r.logins <= r.retries + 1 /\ r.logins <= r.attempt + 1
      /\ r.result = "new" /\ r.executed = r.lost
  BY DEF Counted, AtLogin
<1>2. sid' = "live" /\ sid' \in Tokens /\ UNCHANGED <<session, secret>>
  BY Constants DEF LoggedIn
<1>3. CASE r.pc = "recover"
  <2>0. r.attempt < r.retries
    BY <1>3 DEF Counted
  <2> DEFINE q == [r EXCEPT !.attempt = r.attempt + 1, !.code = 0]
  <2>1. r.attempt + 1 \in 0 .. MaxRetries /\ 0 \in 0 .. Len(Windows)
    BY <2>0, Constants, MaxRetriesAssumption
  <2>2. q \in Calls
    BY <2>1 DEF Calls
  <2>3. /\ q.attempt = r.attempt + 1 /\ q.retries = r.retries /\ q.code = 0
        /\ q.result = r.result /\ q.logins = r.logins /\ q.executed = r.executed
        /\ q.lost = r.lost
    BY DEF Calls
  <2>4. Ask(c, q) /\ stage' = stage
    BY <1>3 DEF LoggedIn
  <2>5. r.lost <= r.attempt + 1
    BY <1>3 DEF Counted
  <2> HIDE DEF q
  <2>6. Ready(q) /\ q.lost <= q.attempt
    BY <1>1, <2>0, <2>3, <2>5 DEF Ready
  <2>7. /\ Good(c) /\ Tally(c, q)
        /\ \/ Stays(c) /\ call'[c].pc \in {"asking", "backoff"}
           \/ Leaves(c) /\ call'[c].result = "connection"
    BY <1>2, <2>2, <2>4, <2>6, AskKeeps
  <2>8. QED
    BY <1>2, <1>3, <2>3, <2>4, <2>7 DEF Tally, FirstLogin
<1>4. CASE r.pc = "relogin"
  <2>1. stage' = stage
    BY <1>4 DEF LoggedIn
  <2>2. CASE session = "open"
    <3> DEFINE q == [r EXCEPT !.code = 0]
    <3>1. q \in Calls
      BY Constants DEF Calls
    <3>2. Same(q, r) /\ q.code = 0 /\ q.result = r.result /\ q.logins = r.logins
      BY DEF Calls, Same
    <3>3. Await(c, q, "again") /\ "again" \in Places
      BY <1>4, <2>2, Constants DEF LoggedIn
    <3> HIDE DEF q
    <3>4. /\ Typed(c) /\ UNCHANGED lock /\ Same(call'[c], q)
          /\ call'[c].pc = "again" /\ call'[c].header = "live" /\ call'[c].code = 0
          /\ call'[c].result = "new" /\ call'[c].logins = r.logins
      BY <1>1, <1>2, <3>1, <3>2, <3>3, Awaits
    <3>5. Same(call'[c], r)
      BY <3>2, <3>4 DEF Same
    <3>6. r.lost <= r.attempt
      BY <1>4 DEF Counted
    <3>7. Counted(call'[c])
      BY <1>1, <3>4, <3>5, <3>6 DEF Counted, Same, FirstLogin, AtLogin
    <3>8. Excused(call'[c])
      BY <3>4 DEF Excused
    <3>9. QED
      BY <1>2, <1>4, <2>1, <3>4, <3>5, <3>7, <3>8
         DEF Good, Tally, Same, Stays, Holding, AtRequest, FirstLogin
  <2>3. CASE session # "open"
    <3>1. Return(c, r, "connection") /\ "connection" \in Results
      BY <1>4, <2>3 DEF LoggedIn, Results
    <3>2. Good(c) /\ Leaves(c) /\ Tally(c, r) /\ call'[c].result = "connection"
      BY <1>1, <3>1, ReturnKeeps
    <3>3. QED
      BY <1>2, <1>4, <2>1, <3>2 DEF FirstLogin
  <2>4. QED
    BY <2>2, <2>3
<1>5. CASE r.pc \in FirstLogin
  <2>1. Queue(c, r) /\ stage' = "ready"
    BY <1>5 DEF LoggedIn, FirstLogin
  <2>2. /\ Typed(c) /\ Queues(c) /\ Same(call'[c], r)
        /\ call'[c].header = r.header /\ call'[c].code = 0
        /\ call'[c].result = r.result /\ call'[c].logins = 0
    BY <2>1, QueuesUp
  <2>3. call'[c].pc = "waiting" /\ r.attempt = 0 /\ r.lost = 0
    BY <1>5, <2>2 DEF Queues, Counted
  <2>4. Counted(call'[c])
    BY <1>1, <2>2, <2>3 DEF Counted, Same, AtLogin
  <2>5. Excused(call'[c])
    BY <1>1, <2>2, <2>3 DEF Excused
  <2>6. QED
    BY <1>2, <1>5, <2>1, <2>2, <2>4, <2>5 DEF Good, Tally, Same
<1>6. QED
  BY <1>3, <1>4, <1>5 DEF AtLogin, FirstLogin

-----------------------------------------------------------------------------
(* The actions of one caller.                                              *)

\* A login that has begun is alone, and its session has not been replaced.
LEMMA AloneAtLogin ==
  ASSUME TypeOK, LockInv, StageInv, SidInv, NEW c \in Callers, call[c].pc \in AtLogin
  PROVE  PendingLogin(c) /\ \A d \in Callers \ {c} : call[d].pc \notin AtLogin
<1>1. SUFFICES ASSUME NEW d \in Callers \ {c}, call[d].pc \in AtLogin PROVE FALSE
  BY DEF SidInv, PendingLogin
<1>2. call[c].pc \notin FirstLogin /\ call[d].pc \notin FirstLogin
  BY <1>1 DEF StageInv, AtLogin
<1>3. call[c].pc \in Holding /\ call[d].pc \in Holding
  BY <1>1, <1>2 DEF AtLogin, FirstLogin, Holding
<1>4. PICK i \in 1 .. Len(lock), j \in 1 .. Len(lock) : lock[i] = c /\ lock[j] = d
  BY <1>3 DEF LockInv
<1>5. i = 1 /\ j = 1
  BY <1>3, <1>4 DEF LockInv, Holding, AtRequest
<1>6. QED
  BY <1>1, <1>4, <1>5

\* The record of a new call.
LEMMA NewCall ==
  ASSUME NEW n \in {0, MaxRetries}
  PROVE  LET r == [Idle EXCEPT !.retries = n] IN
         /\ r \in Calls
         /\ r.attempt = 0 /\ r.retries = n /\ r.code = 0 /\ r.result = "new" /\ r.logins = 0
         /\ r.executed = 0 /\ r.lost = 0 /\ r.excuse = FALSE /\ r.header = "none" /\ r.pc = "idle"
<1>1. /\ n \in 0 .. MaxRetries /\ 0 \in 0 .. MaxRetries /\ 0 \in 0 .. MaxRetries + 1
      /\ 0 \in 0 .. MaxRetries + 2
  BY MaxRetriesAssumption
<1>2. "idle" \in Places /\ "new" \in Results /\ "none" \in Tokens /\ 0 \in 0 .. Len(Windows)
  BY Constants DEF Results
<1>3. QED
  BY <1>1, <1>2 DEF Idle, Calls

\* Where a step of c leads, and the lock with it.
StepOf(c) ==
  /\ Good(c)
  /\ \/ Stays(c) /\ call'[c].pc \in FirstLogin /\ call[c].pc \in FirstLogin \cup {"idle"}
     \/ /\ Stays(c) /\ call'[c].pc \in Holding
        /\ call[c].pc \in Holding \/ (call[c].pc = "waiting" /\ Head(lock) = c)
     \/ Leaves(c)
     \/ Queues(c) /\ call[c].pc \in FirstLogin \cup {"idle"}

\* The session id changes for one's own login only.
SidOf(c) ==
  /\ sid' \in Tokens
  /\ sid' \in {sid, "none"} \/ call[c].pc \in AtLogin
  /\ call'[c].pc \in AtLogin => sid' = "none"

\* The client's stage follows the first login.
StageOf(c) ==
  \/ /\ call[c].pc \in FirstLogin /\ UNCHANGED session
     /\ \/ call'[c].pc \in FirstLogin /\ stage' = stage
        \/ call'[c].pc = "idle" /\ stage' \in {"new", "challenged"}
        \/ call'[c].pc = "waiting" /\ stage' = "ready"
  \/ /\ stage \in {"new", "challenged"} /\ call[c].pc = "idle" /\ call'[c].pc \in FirstLogin
     /\ stage' = "connecting" /\ session' = "open"
  \/ /\ call[c].pc \notin FirstLogin /\ call'[c].pc \notin FirstLogin
     /\ call[c].pc # "idle" \/ stage = "ready"
     /\ stage' = stage /\ session' \in {session, "open"}

\* What the appliance executes for the call, and which answers are lost.
TallyOf(c) ==
  \/ call[c].pc = "idle" /\ call'[c].pc # "idle" /\ call'[c].executed = 0 /\ call'[c].lost = 0
  \/ /\ call[c].pc # "idle" /\ Tally(c, call[c])
     /\ call'[c].pc = "idle" => call'[c].result \in {"api", "auth", "connection", "cancelled"}
  \/ /\ call[c].pc # "idle" /\ call'[c].pc = "idle" /\ call'[c].result \in {"ok", "api"}
     /\ call'[c].executed = call[c].executed + 1 /\ call'[c].lost = call[c].lost
     /\ call[c].executed = call[c].lost
  \/ /\ call[c].pc # "idle" /\ call[c].lost <= MaxRetries /\ call[c].executed = call[c].lost
     /\ call'[c].executed = call[c].executed + 1 /\ call'[c].lost = call[c].lost + 1
     /\ call'[c].pc = "idle" => call'[c].result = "connection"

Sound(c) == StepOf(c) /\ SidOf(c) /\ StageOf(c) /\ TallyOf(c)

\* What the facts about a call say of it where it is.
LEMMA Unfold ==
  ASSUME ApiInv, NEW c \in Callers
  PROVE  /\ TypeOK /\ Counted(call[c]) /\ Excused(call[c]) /\ call[c] \in Calls
         /\ call[c].pc \in AtLogin => sid = "none" /\ PendingLogin(c)
         /\ sid \in Tokens
  BY AloneAtLogin DEF ApiInv, CallInv, TypeOK, SidInv

\* A first login is sent.
LEMMA FirstSend ==
  ASSUME ApiInv, NEW c \in Callers, call[c].pc = "idle", NEW place \in FirstLogin,
         stage \in {"new", "challenged"}, stage' = "connecting",
         session' = "open", sid' = "none",
         SendLogin(c, [Idle EXCEPT !.retries = MaxRetries], place, 0)
  PROVE  Sound(c)
<1> DEFINE r == [Idle EXCEPT !.retries = MaxRetries]
<1>1. /\ r \in Calls
      /\ r.attempt = 0 /\ r.retries = MaxRetries /\ r.code = 0 /\ r.result = "new"
      /\ r.logins = 0 /\ r.executed = 0 /\ r.lost = 0 /\ r.excuse = FALSE
  BY NewCall
<1>2. TypeOK /\ sid' \in Tokens /\ place \in AtLogin
  BY Unfold, Constants DEF FirstLogin, AtLogin
<1> HIDE DEF r
<1>3. Counted(Sends(r, place, 0))
  <2> DEFINE s == Sends(r, place, 0)
  <2>1. s.pc = place /\ s.logins = 1 /\ s.result = "new" /\ Same(s, r)
    BY <1>1, SendFields
  <2> HIDE DEF s
  <2>2. /\ s.attempt = 0 /\ s.retries = MaxRetries /\ s.executed = 0 /\ s.lost = 0
    BY <1>1, <2>1 DEF Same
  <2>3. Counted(s)
    BY <2>1, <2>2, MaxRetriesAssumption DEF Counted, FirstLogin
  <2>4. QED
    BY <2>3 DEF s
<1>4. /\ Good(c) /\ Tally(c, r) /\ Stays(c) /\ call'[c].pc = place
  <2>1. 0 \in 0 .. 3 /\ \A k \in 1 .. 3 : ~(k < 0)
    OBVIOUS
  <2>2. SendLogin(c, r, place, 0)
    BY DEF r
  <2>3. QED
    BY <1>1, <1>2, <1>3, <2>1, <2>2, SendLoginKeeps
<1>5. StepOf(c)
  BY <1>4 DEF StepOf
<1>6. SidOf(c) /\ StageOf(c)
  BY <1>2, <1>4 DEF SidOf, StageOf
<1>7. TallyOf(c)
  BY <1>1, <1>4 DEF TallyOf, Tally, FirstLogin
<1>8. QED
  BY <1>5, <1>6, <1>7 DEF Sound

LEMMA ConnectSound ==
  ASSUME ApiInv, NEW c \in Callers, Connect(c) PROVE Sound(c)
  BY FirstSend DEF Connect, FirstLogin

LEMMA SubmitSound ==
  ASSUME ApiInv, NEW c \in Callers, SubmitCode(c) PROVE Sound(c)
<1>1. session' = "open"
  BY DEF SubmitCode, ApiInv, StageInv
<1>2. QED
  BY <1>1, FirstSend DEF SubmitCode, FirstLogin

LEMMA CallSound ==
  ASSUME ApiInv, NEW c \in Callers, Call(c) PROVE Sound(c)
<1>1. PICK n \in {0, MaxRetries} : Queue(c, [Idle EXCEPT !.retries = n])
  BY DEF Call
<1> DEFINE r == [Idle EXCEPT !.retries = n]
<1>2. /\ r \in Calls
      /\ r.attempt = 0 /\ r.retries = n /\ r.code = 0 /\ r.result = "new"
      /\ r.logins = 0 /\ r.executed = 0 /\ r.lost = 0 /\ r.excuse = FALSE
  BY NewCall
<1>3. Queue(c, r) /\ TypeOK /\ UNCHANGED <<stage, session, sid, secret>>
  BY <1>1, Unfold DEF Call
<1> HIDE DEF r
<1>4. /\ Typed(c) /\ Queues(c) /\ Same(call'[c], r)
      /\ call'[c].code = 0 /\ call'[c].result = "new" /\ call'[c].logins = 0
  BY <1>2, <1>3, QueuesUp
<1>5. /\ call'[c].pc = "waiting" /\ call'[c].attempt = 0 /\ call'[c].retries = n
      /\ call'[c].executed = 0 /\ call'[c].lost = 0
  BY <1>2, <1>4 DEF Queues, Same
<1>6. Counted(call'[c]) /\ Excused(call'[c])
  BY <1>4, <1>5, MaxRetriesAssumption DEF Counted, Excused, FirstLogin, AtLogin
<1>7. StepOf(c) /\ SidOf(c)
  BY <1>3, <1>4, <1>5, <1>6, Unfold DEF StepOf, SidOf, Good, AtLogin, Call
<1>8. StageOf(c) /\ TallyOf(c)
  BY <1>3, <1>5 DEF StageOf, TallyOf, Call, FirstLogin
<1>9. QED
  BY <1>7, <1>8 DEF Sound

\* A step of the loop that asks or backs off, without a login.
LEMMA AcquireSound ==
  ASSUME ApiInv, NEW c \in Callers, Acquire(c) PROVE Sound(c)
<1> DEFINE r == call[c]
<1>1. /\ TypeOK /\ Counted(r) /\ Excused(r) /\ r \in Calls /\ sid \in Tokens
      /\ r.pc = "waiting" /\ Head(lock) = c /\ UNCHANGED <<stage, session, sid, secret>>
      /\ Ask(c, r)
  BY Unfold DEF Acquire
<1>2. r.code = 0 /\ Ready(r) /\ r.lost <= r.attempt
  <2>1. r.code = 0
    BY <1>1, CallTypes DEF Excused, AtLogin
  <2>2. QED
    BY <1>1, <2>1, CallTypes DEF Ready, Counted
<1>3. /\ Good(c) /\ Tally(c, r)
      /\ \/ Stays(c) /\ call'[c].pc \in {"asking", "backoff"}
         \/ Leaves(c) /\ call'[c].result = "connection"
  BY <1>1, <1>2, AskKeeps
<1>4. StepOf(c) /\ SidOf(c)
  BY <1>1, <1>3 DEF StepOf, SidOf, Holding, AtRequest, AtLogin, Leaves
<1>5. StageOf(c) /\ TallyOf(c)
  BY <1>1, <1>3 DEF StageOf, TallyOf, FirstLogin, Leaves
<1>6. QED
  BY <1>4, <1>5 DEF Sound

\* The record with one more execution, and with its answer lost.
LEMMA ExecutedFields ==
  ASSUME NEW r \in Calls, Counted(r), r.pc \in AtRequest
  PROVE  /\ r.executed = r.lost /\ r.lost <= r.attempt /\ r.lost <= MaxRetries
         /\ Executed(r) \in Calls /\ Executed(r).executed = r.executed + 1
         /\ Executed(r).lost = r.lost /\ Executed(r).excuse = r.excuse
         /\ Executed(r).attempt = r.attempt /\ Executed(r).retries = r.retries
         /\ Executed(r).logins = r.logins
         /\ LET s == [Executed(r) EXCEPT !.lost = @ + 1] IN
              /\ s \in Calls /\ s.executed = r.executed + 1 /\ s.lost = r.lost + 1
              /\ s.attempt = r.attempt /\ s.retries = r.retries /\ s.logins = r.logins
              /\ s.excuse = r.excuse /\ s.pc = r.pc /\ s.code = r.code /\ s.result = r.result
<1>1. r.executed = r.lost /\ r.lost <= r.attempt /\ r.attempt <= r.retries
  BY DEF Counted, AtRequest
<1>2. r.lost <= MaxRetries /\ r.lost + 1 \in 0 .. MaxRetries + 2
      /\ r.executed + 1 \in 0 .. MaxRetries + 2
  BY <1>1, CallTypes, MaxRetriesAssumption
<1>3. QED
  BY <1>1, <1>2 DEF Executed, Calls

LEMMA AnsweredSound ==
  ASSUME ApiInv, NEW c \in Callers, Answered(c) PROVE Sound(c)
<1> DEFINE r == call[c]
<1>1. /\ TypeOK /\ Counted(r) /\ r \in Calls /\ sid \in Tokens
      /\ r.pc \in AtRequest /\ UNCHANGED <<stage, session, sid, secret>>
  BY Unfold DEF Answered
<1>2. PICK outcome \in {"ok", "api"} : Return(c, Executed(r), outcome)
  BY DEF Answered
<1>3. /\ Executed(r) \in Calls /\ Executed(r).executed = r.executed + 1
      /\ Executed(r).lost = r.lost /\ r.executed = r.lost
      /\ Executed(r).attempt = r.attempt /\ Executed(r).retries = r.retries
      /\ Executed(r).logins = r.logins
  BY <1>1, ExecutedFields
<1>4. r.attempt <= r.retries /\ r.logins <= r.retries + 1 /\ outcome \in Results
  BY <1>1 DEF Counted, Results
<1>5. Good(c) /\ Leaves(c) /\ Tally(c, Executed(r)) /\ call'[c].result = outcome
  BY <1>1, <1>2, <1>3, <1>4, ReturnKeeps
<1>6. StepOf(c) /\ SidOf(c)
  BY <1>1, <1>5 DEF StepOf, SidOf, AtLogin, Leaves
<1>7. StageOf(c) /\ TallyOf(c)
  BY <1>1, <1>3, <1>5 DEF StageOf, TallyOf, Tally, FirstLogin, AtRequest, Leaves
<1>8. QED
  BY <1>6, <1>7 DEF Sound

LEMMA MissedKeeps ==
  ASSUME TypeOK, NEW c \in Callers, NEW r \in Calls, sid' \in Tokens,
         r.pc \in AtRequest, r.result = "new", r.code = 0, r.executed = r.lost,
         r.attempt <= r.retries, r.lost <= r.attempt + 1, r.logins <= r.retries + 1,
         r.pc = "asking" => r.logins <= r.attempt,
         Missed(c, r)
  PROVE  /\ Good(c) /\ Tally(c, r)
         /\ \/ Stays(c) /\ call'[c].pc = "backoff"
            \/ Leaves(c) /\ call'[c].result = "connection"
<1>1. CASE r.pc = "again"
  BY <1>1, ReturnKeeps DEF Missed, Results
<1>2. CASE r.pc = "asking"
  BY <1>2, ConnectionErrorKeeps DEF Missed, Ready
<1>3. QED
  BY <1>1, <1>2 DEF AtRequest

LEMMA AnswerLostSound ==
  ASSUME ApiInv, NEW c \in Callers, AnswerLost(c) PROVE Sound(c)
<1> DEFINE r == call[c]
           s == [Executed(r) EXCEPT !.lost = @ + 1]
<1>1. /\ TypeOK /\ Counted(r) /\ Excused(r) /\ r \in Calls /\ sid \in Tokens
      /\ r.pc \in AtRequest /\ UNCHANGED <<stage, session, sid, secret>> /\ Missed(c, s)
  BY Unfold DEF AnswerLost
<1>2. /\ s \in Calls /\ s.executed = r.executed + 1 /\ s.lost = r.lost + 1
      /\ s.attempt = r.attempt /\ s.retries = r.retries /\ s.logins = r.logins
      /\ s.pc = r.pc /\ s.code = r.code /\ s.result = r.result
      /\ r.executed = r.lost /\ r.lost <= r.attempt /\ r.lost <= MaxRetries
  BY <1>1, ExecutedFields
<1> HIDE DEF s
<1>3. r.code = 0 /\ r.result = "new"
  BY <1>1, CallTypes DEF Excused, Counted, AtRequest, AtLogin
<1>4. s.lost <= s.attempt + 1 /\ s.executed = s.lost
  BY <1>1, <1>2, CallTypes
<1>5. /\ s.attempt <= s.retries /\ s.logins <= s.retries + 1
      /\ s.pc = "asking" => s.logins <= s.attempt
  BY <1>1, <1>2 DEF Counted
<1>6. /\ Good(c) /\ Tally(c, s)
      /\ \/ Stays(c) /\ call'[c].pc = "backoff"
         \/ Leaves(c) /\ call'[c].result = "connection"
  BY <1>1, <1>2, <1>3, <1>4, <1>5, MissedKeeps
<1>7. StepOf(c) /\ SidOf(c)
  BY <1>1, <1>6 DEF StepOf, SidOf, AtLogin, Holding, Leaves
<1>8. StageOf(c)
  BY <1>1, <1>6 DEF StageOf, FirstLogin, AtRequest, Leaves
<1>9. TallyOf(c)
  BY <1>1, <1>2, <1>6 DEF TallyOf, Tally, AtRequest
<1>10. QED
  BY <1>7, <1>8, <1>9 DEF Sound

LEMMA UnansweredSound ==
  ASSUME ApiInv, NEW c \in Callers, Unanswered(c) PROVE Sound(c)
<1> DEFINE r == call[c]
<1>1. /\ TypeOK /\ Counted(r) /\ Excused(r) /\ r \in Calls /\ sid \in Tokens
      /\ r.pc \in AtRequest /\ UNCHANGED <<stage, session, sid, secret>> /\ Missed(c, r)
  BY Unfold DEF Unanswered
<1>2. r.code = 0 /\ r.result = "new"
  BY <1>1, CallTypes DEF Excused, Counted, AtRequest, AtLogin
<1>3. r.executed = r.lost /\ r.lost <= r.attempt + 1
  <2>1. r.executed = r.lost /\ r.lost <= r.attempt
    BY <1>1, ExecutedFields
  <2>2. QED
    BY <1>1, <2>1, CallTypes
<1>4. /\ r.attempt <= r.retries /\ r.logins <= r.retries + 1
      /\ r.pc = "asking" => r.logins <= r.attempt
  BY <1>1 DEF Counted
<1>5. /\ Good(c) /\ Tally(c, r)
      /\ \/ Stays(c) /\ call'[c].pc = "backoff"
         \/ Leaves(c) /\ call'[c].result = "connection"
  BY <1>1, <1>2, <1>3, <1>4, MissedKeeps
<1>6. StepOf(c) /\ SidOf(c)
  BY <1>1, <1>5 DEF StepOf, SidOf, AtLogin, Holding, Leaves
<1>7. StageOf(c) /\ TallyOf(c)
  BY <1>1, <1>5 DEF StageOf, TallyOf, FirstLogin, AtRequest, Leaves
<1>8. QED
  BY <1>6, <1>7 DEF Sound

LEMMA UnauthorizedAgainSound ==
  ASSUME ApiInv, NEW c \in Callers, UnauthorizedAgain(c) PROVE Sound(c)
<1> DEFINE r == call[c]
<1>1. /\ TypeOK /\ Counted(r) /\ Excused(r) /\ r \in Calls /\ sid \in Tokens
      /\ r.pc = "again" /\ r.header # "live" /\ UNCHANGED <<stage, session, sid, secret>>
      /\ Return(c, r, "auth")
  BY Unfold DEF UnauthorizedAgain
<1>2. r.attempt <= r.retries /\ r.logins <= r.retries + 1 /\ r.excuse /\ "auth" \in Results
  BY <1>1 DEF Counted, Excused, Results
<1>3. Good(c) /\ Leaves(c) /\ Tally(c, r) /\ call'[c].result = "auth"
  BY <1>1, <1>2, ReturnKeeps
<1>4. StepOf(c) /\ SidOf(c)
  BY <1>1, <1>3 DEF StepOf, SidOf, AtLogin, Leaves
<1>5. StageOf(c) /\ TallyOf(c)
  BY <1>1, <1>3 DEF StageOf, TallyOf, FirstLogin, Leaves
<1>6. QED
  BY <1>4, <1>5 DEF Sound

LEMMA CancelSound ==
  ASSUME ApiInv, NEW c \in Callers, Cancel(c) PROVE Sound(c)
<1> DEFINE r == call[c]
<1>1. /\ TypeOK /\ Counted(r) /\ r \in Calls /\ sid \in Tokens
      /\ r.pc # "idle" /\ UNCHANGED <<session, sid, secret>>
      /\ stage' = FailedStage(c, "new") /\ Return(c, r, "cancelled")
  BY Unfold DEF Cancel
<1>2. r.attempt <= r.retries /\ r.logins <= r.retries + 1 /\ "cancelled" \in Results
  BY <1>1 DEF Counted, Results
<1>3. Good(c) /\ Leaves(c) /\ Tally(c, r) /\ call'[c].result = "cancelled"
  BY <1>1, <1>2, ReturnKeeps
<1>4. StepOf(c) /\ SidOf(c)
  BY <1>1, <1>3 DEF StepOf, SidOf, AtLogin, Leaves
<1>5. StageOf(c) /\ TallyOf(c)
  BY <1>1, <1>3 DEF StageOf, TallyOf, FirstLogin, FailedStage, Leaves
<1>6. QED
  BY <1>4, <1>5 DEF Sound

\* The password is sent again: for an expired session, or after a backoff.
LEMMA LoginAgain ==
  ASSUME ApiInv, NEW c \in Callers, NEW place \in {"recover", "relogin"},
         call[c].pc = (IF place = "recover" THEN "backoff" ELSE "asking"),
         sid' = "none", stage' = stage, session' \in {session, "open"},
         SendLogin(c, call[c], place, 0)
  PROVE  Sound(c)
<1> DEFINE r == call[c]
           s == Sends(r, place, 0)
<1>1. TypeOK /\ Counted(r) /\ Excused(r) /\ r \in Calls /\ sid' \in Tokens
  BY Unfold, Constants
<1>2. /\ s.pc = place /\ s.logins = r.logins + 1 /\ s.result = r.result /\ Same(s, r)
  BY <1>1, SendFields
<1> HIDE DEF s
<1>3. /\ s.attempt = r.attempt /\ s.retries = r.retries /\ s.executed = r.executed
      /\ s.lost = r.lost
  BY <1>2 DEF Same
<1>4. Counted(s)
  <2>1. /\ r.attempt <= r.retries /\ r.result = "new" /\ r.executed = r.lost
        /\ r.logins <= r.attempt
        /\ place = "recover" => r.lost <= r.attempt + 1 /\ r.attempt < r.retries
        /\ place = "relogin" => r.lost <= r.attempt
    BY <1>1 DEF Counted
  <2>2. s.logins <= s.attempt + 1 /\ s.logins <= s.retries + 1
    BY <1>1, <1>2, <1>3, <2>1, CallTypes
  <2>3. QED
    BY <1>2, <1>3, <2>1, <2>2 DEF Counted, FirstLogin
<1>5. place \in AtLogin /\ 0 \in 0 .. 3 /\ \A k \in 1 .. 3 : ~(k < 0)
  BY DEF AtLogin
<1>6. /\ Good(c) /\ Tally(c, r)
      /\ \/ Stays(c) /\ call'[c].pc \in {"recover", "relogin", "asking", "backoff"}
         \/ Leaves(c) /\ call'[c].result = "connection"
  BY <1>1, <1>4, <1>5, SendLoginKeeps DEF s
<1>7. r.pc \in Holding /\ r.pc \notin FirstLogin /\ r.pc # "idle"
  BY DEF Holding, AtRequest, FirstLogin
<1>8. StepOf(c) /\ SidOf(c)
  BY <1>1, <1>6, <1>7 DEF StepOf, SidOf, Holding, AtRequest, AtLogin, Leaves
<1>9. StageOf(c) /\ TallyOf(c)
  BY <1>6, <1>7 DEF StageOf, TallyOf, FirstLogin, Leaves
<1>10. QED
  BY <1>8, <1>9 DEF Sound

LEMMA UnauthorizedSound ==
  ASSUME ApiInv, NEW c \in Callers, Unauthorized(c) PROVE Sound(c)
  BY LoginAgain DEF Unauthorized

LEMMA WakeSound ==
  ASSUME ApiInv, NEW c \in Callers, Wake(c) PROVE Sound(c)
  BY LoginAgain DEF Wake

\* A login succeeds.
LEMMA LoggedInSound ==
  ASSUME ApiInv, NEW c \in Callers, call[c].pc \in AtLogin, LoggedIn(c, call[c])
  PROVE  Sound(c)
<1> DEFINE r == call[c]
<1>1. /\ TypeOK /\ Counted(r) /\ r \in Calls
  BY Unfold
<1>2. /\ Good(c) /\ Tally(c, r) /\ sid' = "live" /\ UNCHANGED <<session, secret>>
      /\ \/ r.pc \in FirstLogin /\ Queues(c) /\ stage' = "ready"
         \/ /\ r.pc \notin FirstLogin /\ stage' = stage
            /\ \/ Stays(c) /\ call'[c].pc \in {"asking", "again", "backoff"}
               \/ Leaves(c) /\ call'[c].result = "connection"
  BY <1>1, LoggedInKeeps
<1>3. r.pc # "idle" /\ (r.pc \in FirstLogin \/ r.pc \in Holding)
  BY DEF AtLogin, FirstLogin, Holding
<1>4. StepOf(c) /\ SidOf(c)
  BY <1>2, <1>3, Constants
     DEF StepOf, SidOf, Holding, AtRequest, AtLogin, FirstLogin, Leaves, Queues
<1>5. StageOf(c) /\ TallyOf(c)
  BY <1>2, <1>3 DEF StageOf, TallyOf, FirstLogin, Leaves, Queues
<1>6. QED
  BY <1>4, <1>5 DEF Sound

\* A login fails; r is the record with the reason that the appliance gave.
LEMMA FailureSound ==
  ASSUME ApiInv, NEW c \in Callers, call[c].pc \in AtLogin, NEW why \in BOOLEAN,
         UNCHANGED <<session, sid>>, NEW next \in {"new", "challenged"},
         stage' = FailedStage(c, next), NEW outcome \in {"api", "auth", "connection"},
         outcome = "auth" => call[c].excuse \/ why,
         LoginFailed(c, [call[c] EXCEPT !.excuse = call[c].excuse \/ why], outcome)
  PROVE  Sound(c)
<1> DEFINE r == call[c]
           q == [r EXCEPT !.excuse = r.excuse \/ why]
<1>1. /\ TypeOK /\ Counted(r) /\ r \in Calls /\ sid \in Tokens /\ outcome \in Results
  BY Unfold DEF Results
<1>2. (r.excuse \/ why) \in BOOLEAN
  BY <1>1 DEF Calls
<1>3. q \in Calls
  BY <1>1, <1>2 DEF Calls
<1>4. /\ q.pc = r.pc /\ q.attempt = r.attempt /\ q.retries = r.retries /\ q.header = r.header
      /\ q.result = r.result /\ q.executed = r.executed /\ q.lost = r.lost
      /\ q.logins = r.logins /\ (q.excuse <=> r.excuse \/ why)
  BY <1>1 DEF Calls
<1>5. LoginFailed(c, q, outcome)
  OBVIOUS
<1> HIDE DEF q
<1>6. Counted(q)
  BY <1>1, <1>4 DEF Counted
<1>7. /\ Good(c) /\ Tally(c, q)
      /\ \/ Stays(c) /\ q.pc = "recover" /\ call'[c].pc \in {"asking", "backoff"}
         \/ Leaves(c) /\ call'[c].result \in {"connection", outcome}
  <2>1. outcome = "auth" => q.excuse
    BY <1>4
  <2>2. sid' \in Tokens /\ q.pc \in AtLogin
    BY <1>1, <1>4
  <2>3. QED
    BY <1>1, <1>3, <1>5, <1>6, <2>1, <2>2, LoginFailedKeeps
<1>8. r.pc # "idle" /\ (r.pc \in FirstLogin \/ r.pc \in Holding)
  BY DEF AtLogin, FirstLogin, Holding
<1>9. StepOf(c) /\ SidOf(c)
  BY <1>1, <1>4, <1>7, <1>8 DEF StepOf, SidOf, Holding, AtRequest, AtLogin, FirstLogin, Leaves
<1>10. StageOf(c)
  BY <1>4, <1>7, <1>8 DEF StageOf, FirstLogin, FailedStage, Leaves
<1>11. TallyOf(c)
  BY <1>4, <1>7, <1>8 DEF TallyOf, Tally
<1>12. QED
  BY <1>9, <1>10, <1>11 DEF Sound

\* The next code is sent; r is the record with the reason so far.
LEMMA CodeSent ==
  ASSUME ApiInv, NEW c \in Callers, call[c].pc \in AtLogin, NEW why \in BOOLEAN,
         UNCHANGED <<session, sid, stage>>, NEW code \in 1 .. 3,
         \A k \in 1 .. 3 : k < code /\ Windows[k] = Skew => call[c].excuse \/ why,
         SendLogin(c, [call[c] EXCEPT !.excuse = call[c].excuse \/ why], call[c].pc, code)
  PROVE  Sound(c)
<1> DEFINE r == call[c]
           q == [r EXCEPT !.excuse = r.excuse \/ why]
           s == Sends(q, r.pc, code)
<1>1. /\ TypeOK /\ Counted(r) /\ r \in Calls /\ sid \in Tokens /\ sid = "none"
  BY Unfold
<1>2. (r.excuse \/ why) \in BOOLEAN
  BY <1>1 DEF Calls
<1>3. q \in Calls
  BY <1>1, <1>2 DEF Calls
<1>4. /\ q.pc = r.pc /\ q.attempt = r.attempt /\ q.retries = r.retries /\ q.header = r.header
      /\ q.result = r.result /\ q.executed = r.executed /\ q.lost = r.lost
      /\ q.logins = r.logins /\ (q.excuse <=> r.excuse \/ why)
  BY <1>1 DEF Calls
<1>5. SendLogin(c, q, r.pc, code)
  OBVIOUS
<1> HIDE DEF q
<1>6. Counted(s)
  <2>1. s.pc = r.pc /\ s.logins = q.logins /\ s.result = q.result /\ Same(s, q)
    <3>1. code # 0
      OBVIOUS
    <3>2. QED
      BY <1>3, <3>1, SendFields
  <2> HIDE DEF s
  <2>2. QED
    BY <1>1, <1>4, <2>1 DEF Counted, Same
<1>7. \A k \in 1 .. 3 : k < code /\ Windows[k] = Skew => q.excuse
  BY <1>4
<1>8. code \in 0 .. 3 /\ sid' \in Tokens
  BY <1>1
<1>9. /\ Good(c) /\ Tally(c, q)
      /\ \/ Stays(c) /\ call'[c].pc = r.pc /\ session' = "open"
         \/ /\ session' # "open"
            /\ \/ Stays(c) /\ r.pc = "recover" /\ call'[c].pc \in {"asking", "backoff"}
               \/ Leaves(c) /\ call'[c].result = "connection"
  BY <1>1, <1>3, <1>5, <1>6, <1>7, <1>8, SendLoginKeeps
<1>10. r.pc # "idle" /\ (r.pc \in FirstLogin \/ r.pc \in Holding)
  BY DEF AtLogin, FirstLogin, Holding
<1>11. r.pc \in FirstLogin => session' = "open"
  BY DEF ApiInv, StageInv
<1>12. StepOf(c) /\ SidOf(c)
  BY <1>1, <1>9, <1>10 DEF StepOf, SidOf, Holding, AtRequest, AtLogin, FirstLogin, Leaves
<1>13. StageOf(c)
  BY <1>9, <1>10, <1>11 DEF StageOf, FirstLogin, Leaves
<1>14. TallyOf(c)
  BY <1>4, <1>9, <1>10 DEF TallyOf, Tally
<1>15. QED
  BY <1>12, <1>13, <1>14 DEF Sound

\* Setting the reason is the same as adding it.
LEMMA WithReason ==
  ASSUME NEW r \in Calls
  PROVE  /\ [r EXCEPT !.excuse = TRUE] = [r EXCEPT !.excuse = r.excuse \/ TRUE]
         /\ r = [r EXCEPT !.excuse = r.excuse \/ FALSE]
<1>1. (r.excuse \/ TRUE) = TRUE
  OBVIOUS
<1>2. r.excuse \in BOOLEAN
  BY DEF Calls
<1>3. (r.excuse \/ FALSE) = r.excuse
  BY <1>2
<1>4. r = [r EXCEPT !.excuse = r.excuse]
  BY DEF Calls
<1>5. QED
  BY <1>1, <1>3, <1>4

LEMMA LoginRejectedSound ==
  ASSUME ApiInv, NEW c \in Callers, LoginRejected(c) PROVE Sound(c)
<1>1. /\ call[c] \in Calls /\ call[c].pc \in AtLogin /\ UNCHANGED <<session, sid>>
  BY Unfold DEF LoginRejected
<1>2. PICK next \in {"new", "challenged"} : stage' = FailedStage(c, next)
  BY DEF LoginRejected
<1>3. LoginFailed(c, [call[c] EXCEPT !.excuse = call[c].excuse \/ TRUE], "auth")
  BY <1>1, WithReason DEF LoginRejected
<1>4. QED
  BY <1>1, <1>2, <1>3, FailureSound

LEMMA LoginBreaksSound ==
  ASSUME ApiInv, NEW c \in Callers, LoginBreaks(c) PROVE Sound(c)
<1>1. /\ call[c] \in Calls /\ call[c].pc \in AtLogin /\ UNCHANGED <<session, sid>>
      /\ stage' = FailedStage(c, "new")
  BY Unfold DEF LoginBreaks
<1>2. PICK outcome \in {"connection", "api"} : LoginFailed(c, call[c], outcome)
  BY DEF LoginBreaks
<1>3. LoginFailed(c, [call[c] EXCEPT !.excuse = call[c].excuse \/ FALSE], outcome)
  BY <1>1, <1>2, WithReason
<1>4. QED
  BY <1>1, <1>3, FailureSound

LEMMA LoginChallengedSound ==
  ASSUME ApiInv, NEW c \in Callers, LoginChallenged(c) PROVE Sound(c)
<1>1. /\ call[c] \in Calls /\ call[c].pc \in AtLogin /\ UNCHANGED <<session, sid>>
  BY Unfold DEF LoginChallenged
<1>2. CASE stage' = stage /\ SendLogin(c, call[c], call[c].pc, 1)
  <2>1. SendLogin(c, [call[c] EXCEPT !.excuse = call[c].excuse \/ FALSE], call[c].pc, 1)
    BY <1>1, <1>2, WithReason
  <2>2. 1 \in 1 .. 3 /\ \A k \in 1 .. 3 : ~(k < 1)
    OBVIOUS
  <2>3. QED
    BY <1>1, <1>2, <2>1, <2>2, CodeSent
<1>3. CASE /\ stage' = FailedStage(c, "challenged")
           /\ LoginFailed(c, [call[c] EXCEPT !.excuse = TRUE], "auth")
  <2>1. LoginFailed(c, [call[c] EXCEPT !.excuse = call[c].excuse \/ TRUE], "auth")
    BY <1>1, <1>3, WithReason
  <2>2. QED
    BY <1>1, <1>3, <2>1, FailureSound
<1>4. QED
  BY <1>2, <1>3 DEF LoginChallenged

LEMMA CodeRejectedSound ==
  ASSUME ApiInv, NEW c \in Callers, CodeRejected(c) PROVE Sound(c)
<1> DEFINE r == call[c]
<1>1. /\ r \in Calls /\ r.code \in 1 .. 3 /\ Excused(r) /\ UNCHANGED <<session, sid>>
  BY Unfold, CallTypes DEF CodeRejected
<1>2. r.pc \in AtLogin /\ PendingLogin(c)
  <2>1. r.pc \in AtLogin
    BY <1>1 DEF Excused
  <2>2. QED
    BY <2>1, Unfold
<1>3. \A k \in 1 .. 3 : k <= r.code /\ Windows[k] = Skew => r.excuse \/ RightCode(c)
  <2> SUFFICES ASSUME NEW k \in 1 .. 3, k <= r.code, Windows[k] = Skew
               PROVE  r.excuse \/ RightCode(c)
    OBVIOUS
  <2>1. CASE k < r.code
    BY <1>1, <2>1 DEF Excused
  <2>2. CASE k = r.code
    BY <1>1, <1>2, <2>2 DEF RightCode
  <2>3. QED
    BY <1>1, <2>1, <2>2
<1>4. CASE /\ r.code < 3 /\ stage' = stage
           /\ SendLogin(c, [r EXCEPT !.excuse = @ \/ RightCode(c)], r.pc, r.code + 1)
  <2>1. RightCode(c) \in BOOLEAN
    BY DEF RightCode, PendingLogin
  <2>2. /\ r.code + 1 \in 1 .. 3
        /\ \A k \in 1 .. 3 : k < r.code + 1 /\ Windows[k] = Skew => r.excuse \/ RightCode(c)
    BY <1>1, <1>3, <1>4
  <2>3. QED
    BY <1>1, <1>2, <1>4, <2>1, <2>2, CodeSent
<1>5. CASE /\ r.code = 3 /\ stage' = FailedStage(c, "new")
           /\ LoginFailed(c, [r EXCEPT !.excuse = @ \/ RightCode(c) \/ ~InTolerance], "auth")
  <2> DEFINE why == RightCode(c) \/ ~InTolerance
  <2>1. why \in BOOLEAN
    BY DEF RightCode, PendingLogin, InTolerance
  <2>2. r.excuse \/ why
    <3>1. InTolerance => Skew = 0 \/ Skew = -1 \/ Skew = 1
      BY SkewAssumption DEF InTolerance
    <3>2. InTolerance => \E k \in 1 .. 3 : Windows[k] = Skew
      BY <3>1, Constants
    <3>3. QED
      BY <1>3, <1>5, <3>2
  <2>3. (r.excuse \/ RightCode(c) \/ ~InTolerance) = (r.excuse \/ why)
    OBVIOUS
  <2>4. LoginFailed(c, [r EXCEPT !.excuse = r.excuse \/ why], "auth")
    BY <1>5, <2>3
  <2> HIDE DEF why
  <2>5. QED
    BY <1>1, <1>2, <1>5, <2>1, <2>2, <2>4, FailureSound
<1>6. QED
  BY <1>1, <1>4, <1>5, Constants DEF CodeRejected

-----------------------------------------------------------------------------
(* The lock.                                                               *)

LEMMA LockMembers ==
  ASSUME TypeOK, LockInv
  PROVE  /\ Len(lock) \in Nat /\ DOMAIN lock = 1 .. Len(lock)
         /\ \A i \in 1 .. Len(lock) :
              lock[i] \in Callers /\ call[lock[i]].pc \in Holding \cup {"waiting"}
  BY LenProperties, ElementOfSeq DEF TypeOK, LockInv

\* The holder goes on, with or without its caller having waited.
LEMMA LockStays ==
  ASSUME TypeOK, LockInv, NEW c \in Callers, Others(c), UNCHANGED lock,
         \/ /\ call'[c].pc \in FirstLogin
            /\ call[c].pc \in FirstLogin \cup {"idle"}
         \/ /\ call'[c].pc \in Holding
            /\ call[c].pc \in Holding \/ (call[c].pc = "waiting" /\ Head(lock) = c)
  PROVE  LockInv'
<1>1. /\ \A i \in 1 .. Len(lock) : lock[i] \in Callers
      /\ Len(lock) \in Nat /\ lock \in Seq(Callers)
  BY LockMembers DEF TypeOK
<1>2. CASE /\ call'[c].pc \in FirstLogin
           /\ call[c].pc \in FirstLogin \cup {"idle"}
  <2>1. \A i \in 1 .. Len(lock) : lock[i] # c
    BY <1>2, LockMembers DEF FirstLogin, Holding, AtRequest
  <2>2. call'[c].pc \notin Holding \cup {"waiting"}
    BY <1>2 DEF FirstLogin, Holding, AtRequest
  <2>3. QED
    BY <1>1, <2>1, <2>2 DEF LockInv, Others
<1>3. CASE /\ call'[c].pc \in Holding
           /\ call[c].pc \in Holding \/ (call[c].pc = "waiting" /\ Head(lock) = c)
  <2>1. PICK i \in 1 .. Len(lock) : lock[i] = c
    BY <1>3 DEF LockInv
  <2>2. lock # <<>> /\ Head(lock) = lock[1] /\ 1 \in 1 .. Len(lock)
    BY <1>1, <2>1
  <2>3. lock[1] = c
    <3>1. CASE call[c].pc = "waiting" /\ Head(lock) = c
      BY <2>2, <3>1
    <3>2. CASE call[c].pc \in Holding
      <4>1. call[lock[i]].pc # "waiting"
        BY <2>1, <3>2 DEF Holding, AtRequest
      <4>2. i = 1
        BY <4>1 DEF LockInv
      <4>3. QED
        BY <2>1, <4>2
    <3>3. QED
      BY <1>3, <3>1, <3>2
  <2>4. \A j \in 1 .. Len(lock) : j # 1 => lock[j] # c
    BY <2>2, <2>3 DEF LockInv
  <2>5. QED
    BY <1>1, <1>3, <2>1, <2>3, <2>4 DEF LockInv, Others
<1>4. QED
  BY <1>2, <1>3

LEMMA LockQueues ==
  ASSUME TypeOK, LockInv, NEW c \in Callers, Others(c), Queues(c),
         call[c].pc \in FirstLogin \cup {"idle"}
  PROVE  LockInv' /\ lock' \in Seq(Callers)
<1>1. /\ \A i \in 1 .. Len(lock) : lock[i] \in Callers
      /\ Len(lock) \in Nat /\ lock \in Seq(Callers)
  BY LockMembers DEF TypeOK
<1>2. \A i \in 1 .. Len(lock) : lock[i] # c
  BY LockMembers DEF FirstLogin, Holding, AtRequest
<1>3. /\ lock' \in Seq(Callers) /\ Len(lock') = Len(lock) + 1
      /\ \A i \in 1 .. Len(lock) : lock'[i] = lock[i]
      /\ lock'[Len(lock) + 1] = c
  BY <1>1, AppendProperties DEF Queues
<1>4. call'[c].pc = "waiting"
  BY DEF Queues
<1>5. \A i, j \in 1 .. Len(lock') : lock'[i] = lock'[j] => i = j
  <2> SUFFICES ASSUME NEW i \in 1 .. Len(lock'), NEW j \in 1 .. Len(lock'), lock'[i] = lock'[j]
               PROVE  i = j
    OBVIOUS
  <2>1. CASE i \in 1 .. Len(lock) /\ j \in 1 .. Len(lock)
    BY <1>3, <2>1 DEF LockInv
  <2>2. CASE i = Len(lock) + 1 \/ j = Len(lock) + 1
    BY <1>1, <1>2, <1>3, <2>2
  <2>3. QED
    BY <1>1, <1>3, <2>1, <2>2
<1>6. ASSUME NEW i \in 1 .. Len(lock')
      PROVE  call'[lock'[i]].pc \in (IF i = 1 THEN Holding \cup {"waiting"} ELSE {"waiting"})
  <2>1. CASE i \in 1 .. Len(lock)
    BY <1>1, <1>2, <1>3, <2>1 DEF LockInv, Others
  <2>2. CASE i = Len(lock) + 1
    BY <1>3, <1>4, <2>2
  <2>3. QED
    BY <1>1, <1>3, <2>1, <2>2
<1>7. ASSUME NEW d \in Callers, call'[d].pc \in Holding \cup {"waiting"}
      PROVE  \E i \in 1 .. Len(lock') : lock'[i] = d
  <2>1. CASE d = c
    BY <1>1, <1>3, <2>1
  <2>2. CASE d # c
    <3>1. PICK i \in 1 .. Len(lock) : lock[i] = d
      BY <1>7, <2>2 DEF LockInv, Others
    <3>2. i \in 1 .. Len(lock') /\ lock'[i] = d
      BY <1>1, <1>3, <3>1
    <3>3. QED
      BY <3>2
  <2>3. QED
    BY <2>1, <2>2
<1>8. QED
  BY <1>3, <1>5, <1>6, <1>7 DEF LockInv

LEMMA LockLeft ==
  ASSUME TypeOK, LockInv, NEW c \in Callers, Others(c), Leaves(c)
  PROVE  LockInv' /\ lock' \in Seq(Callers)
<1>1. /\ \A i \in 1 .. Len(lock) : lock[i] \in Callers
      /\ Len(lock) \in Nat /\ lock \in Seq(Callers) /\ DOMAIN lock = 1 .. Len(lock)
  BY LockMembers DEF TypeOK
<1>2. call'[c].pc \notin Holding \cup {"waiting"}
  BY DEF Leaves, Holding, AtRequest
<1>3. CASE (\A k \in DOMAIN lock : lock[k] # c) /\ UNCHANGED lock
  BY <1>1, <1>2, <1>3 DEF LockInv, Others
<1>4. CASE \E k \in DOMAIN lock : lock[k] = c /\ lock' = RemoveAt(lock, k)
  <2>1. PICK k \in 1 .. Len(lock) : lock[k] = c /\ lock' = RemoveAt(lock, k)
    BY <1>1, <1>4
  <2> DEFINE old(i) == IF i < k THEN i ELSE i + 1
  <2>2. /\ lock' \in Seq(Callers) /\ Len(lock') = Len(lock) - 1
        /\ \A i \in 1 .. Len(lock) - 1 : lock'[i] = IF i < k THEN lock[i] ELSE lock[i + 1]
    BY <1>1, <2>1, RemoveAtProperties
  <2>3. \A i \in 1 .. Len(lock') :
          /\ old(i) \in 1 .. Len(lock) /\ old(i) # k
          /\ lock'[i] = lock[old(i)]
          /\ i # 1 => old(i) # 1
    BY <1>1, <2>2
  <2>4. \A i, j \in 1 .. Len(lock') : old(i) = old(j) => i = j
    BY <1>1, <2>2
  <2>5. \A m \in 1 .. Len(lock) : m # k => \E i \in 1 .. Len(lock') : old(i) = m
    <3> SUFFICES ASSUME NEW m \in 1 .. Len(lock), m # k
                 PROVE  \E i \in 1 .. Len(lock') : old(i) = m
      OBVIOUS
    <3>1. CASE m < k
      BY <1>1, <2>2, <3>1
    <3>2. CASE m > k
      <4>1. m - 1 \in 1 .. Len(lock') /\ old(m - 1) = m
        BY <1>1, <2>2, <3>2
      <4>2. QED
        BY <4>1
    <3>3. QED
      BY <1>1, <3>1, <3>2
  <2> HIDE DEF old
  <2>6. \A i \in 1 .. Len(lock') : lock'[i] # c /\ lock'[i] \in Callers
    BY <1>1, <2>1, <2>3 DEF LockInv
  <2>7. \A i, j \in 1 .. Len(lock') : lock'[i] = lock'[j] => i = j
    BY <2>3, <2>4 DEF LockInv
  <2>8. ASSUME NEW i \in 1 .. Len(lock')
        PROVE  call'[lock'[i]].pc \in (IF i = 1 THEN Holding \cup {"waiting"} ELSE {"waiting"})
    <3>1. call'[lock'[i]] = call[lock[old(i)]]
      BY <2>3, <2>6 DEF Others
    <3>2. QED
      BY <2>3, <3>1 DEF LockInv
  <2>9. ASSUME NEW d \in Callers, call'[d].pc \in Holding \cup {"waiting"}
        PROVE  \E i \in 1 .. Len(lock') : lock'[i] = d
    <3>1. d # c /\ call'[d] = call[d]
      BY <1>2, <2>9 DEF Others
    <3>2. PICK m \in 1 .. Len(lock) : lock[m] = d
      BY <2>9, <3>1 DEF LockInv
    <3>3. QED
      BY <2>1, <2>3, <2>5, <3>1, <3>2
  <2>10. QED
    BY <2>2, <2>7, <2>8, <2>9 DEF LockInv
<1>5. QED
  BY <1>1, <1>3, <1>4 DEF Leaves, Release

-----------------------------------------------------------------------------
(* A step of a caller preserves the invariant.                             *)

ByCaller(c) ==
  Connect(c) \/ SubmitCode(c) \/ Call(c) \/ Acquire(c) \/ Wake(c) \/ Reply(c) \/ Cancel(c)

LEMMA CallerSound ==
  ASSUME ApiInv, NEW c \in Callers, ByCaller(c) PROVE Sound(c) /\ UNCHANGED secret
<1>1. CASE Connect(c)
  BY <1>1, ConnectSound DEF Connect
<1>2. CASE SubmitCode(c)
  BY <1>2, SubmitSound DEF SubmitCode
<1>3. CASE Call(c)
  BY <1>3, CallSound DEF Call
<1>4. CASE Acquire(c)
  BY <1>4, AcquireSound DEF Acquire
<1>5. CASE Wake(c)
  BY <1>5, WakeSound DEF Wake
<1>6. CASE Cancel(c)
  BY <1>6, CancelSound DEF Cancel
<1>7. CASE Answered(c)
  BY <1>7, AnsweredSound DEF Answered
<1>8. CASE AnswerLost(c)
  BY <1>8, AnswerLostSound DEF AnswerLost
<1>9. CASE Unanswered(c)
  BY <1>9, UnansweredSound DEF Unanswered
<1>10. CASE Unauthorized(c)
  BY <1>10, UnauthorizedSound DEF Unauthorized
<1>11. CASE UnauthorizedAgain(c)
  BY <1>11, UnauthorizedAgainSound DEF UnauthorizedAgain
<1>12. CASE LoginAccepted(c)
  BY <1>12, LoggedInSound DEF LoginAccepted, LoggedIn
<1>13. CASE LoginRejected(c)
  BY <1>13, LoginRejectedSound DEF LoginRejected
<1>14. CASE LoginChallenged(c)
  BY <1>14, LoginChallengedSound DEF LoginChallenged
<1>15. CASE CodeAccepted(c)
  <2>1. call[c].pc \in AtLogin /\ LoggedIn(c, call[c])
    BY <1>15, Unfold DEF CodeAccepted, RightCode, Excused
  <2>2. QED
    BY <2>1, LoggedInSound DEF LoggedIn
<1>16. CASE CodeRejected(c)
  BY <1>16, CodeRejectedSound DEF CodeRejected
<1>17. CASE LoginBreaks(c)
  BY <1>17, LoginBreaksSound DEF LoginBreaks
<1>18. QED
  BY <1>1, <1>2, <1>3, <1>4, <1>5, <1>6, <1>7, <1>8, <1>9, <1>10, <1>11, <1>12, <1>13,
     <1>14, <1>15, <1>16, <1>17 DEF ByCaller, Reply

LEMMA SoundStage ==
  ASSUME ApiInv, NEW c \in Callers, Others(c), StageOf(c)
  PROVE  /\ StageInv'
         /\ stage' \in {"new", "connecting", "challenged", "ready", "closed"}
         /\ session' \in {"none", "open", "detached"}
<1>1. /\ StageInv /\ session \in {"none", "open", "detached"}
      /\ stage \in {"new", "connecting", "challenged", "ready", "closed"}
  BY DEF ApiInv, TypeOK
<1>2. "idle" \notin FirstLogin /\ "waiting" \notin FirstLogin
  BY DEF FirstLogin
<1>3. CASE /\ call[c].pc \in FirstLogin /\ UNCHANGED session
           /\ \/ call'[c].pc \in FirstLogin /\ stage' = stage
              \/ call'[c].pc = "idle" /\ stage' \in {"new", "challenged"}
              \/ call'[c].pc = "waiting" /\ stage' = "ready"
  <2>1. \A d \in Callers \ {c} : call[d].pc = "idle" /\ call'[d].pc = "idle"
    BY <1>1, <1>3 DEF StageInv, Others
  <2>2. stage = "connecting" /\ session' = "open"
    BY <1>1, <1>3 DEF StageInv
  <2>3. QED
    BY <1>1, <1>2, <1>3, <2>1, <2>2 DEF StageInv
<1>4. CASE /\ stage \in {"new", "challenged"} /\ call[c].pc = "idle"
           /\ call'[c].pc \in FirstLogin /\ stage' = "connecting" /\ session' = "open"
  <2>1. \A d \in Callers \ {c} : call'[d].pc = "idle"
    BY <1>1, <1>4 DEF StageInv, Others
  <2>2. QED
    BY <1>1, <1>2, <1>4, <2>1 DEF StageInv
<1>5. CASE /\ call[c].pc \notin FirstLogin /\ call'[c].pc \notin FirstLogin
           /\ call[c].pc # "idle" \/ stage = "ready"
           /\ stage' = stage /\ session' \in {session, "open"}
  <2>1. stage \notin {"new", "connecting", "challenged"}
    BY <1>1, <1>2, <1>5 DEF StageInv
  <2>2. \A d \in Callers : call'[d].pc \notin FirstLogin
    BY <1>1, <1>5, <2>1 DEF StageInv, Others
  <2>3. QED
    BY <1>1, <1>5, <2>1, <2>2 DEF StageInv
<1>6. QED
  BY <1>3, <1>4, <1>5 DEF StageOf

LEMMA SoundLock ==
  ASSUME ApiInv, NEW c \in Callers, StepOf(c)
  PROVE  LockInv' /\ lock' \in Seq(Callers)
<1>1. TypeOK /\ LockInv /\ Others(c) /\ lock \in Seq(Callers)
  BY DEF ApiInv, StepOf, Good, Typed, TypeOK
<1>2. CASE Stays(c) /\ call'[c].pc \in FirstLogin /\ call[c].pc \in FirstLogin \cup {"idle"}
  BY <1>1, <1>2, LockStays DEF Stays
<1>3. CASE /\ Stays(c) /\ call'[c].pc \in Holding
           /\ call[c].pc \in Holding \/ (call[c].pc = "waiting" /\ Head(lock) = c)
  BY <1>1, <1>3, LockStays DEF Stays
<1>4. CASE Leaves(c)
  BY <1>1, <1>4, LockLeft
<1>5. CASE Queues(c) /\ call[c].pc \in FirstLogin \cup {"idle"}
  BY <1>1, <1>5, LockQueues
<1>6. QED
  BY <1>2, <1>3, <1>4, <1>5 DEF StepOf

LEMMA SoundKeeps ==
  ASSUME ApiInv, NEW c \in Callers, Sound(c), UNCHANGED secret
  PROVE  ApiInv'
<1>1. Good(c) /\ Typed(c) /\ Others(c) /\ StepOf(c) /\ SidOf(c) /\ StageOf(c)
  BY DEF Sound, StepOf, Good, Typed
<1>2. CallInv'
  BY <1>1 DEF CallInv, ApiInv, Good, Others
<1>3. LockInv' /\ lock' \in Seq(Callers)
  BY <1>1, SoundLock
<1>4. /\ StageInv'
      /\ stage' \in {"new", "connecting", "challenged", "ready", "closed"}
      /\ session' \in {"none", "open", "detached"}
  BY <1>1, SoundStage
<1>5. SidInv'
  <2> SUFFICES ASSUME NEW d \in Callers, call'[d].pc \in AtLogin PROVE sid' = "none"
    BY DEF SidInv
  <2>1. CASE d = c
    BY <1>1, <2>1 DEF SidOf
  <2>2. CASE d # c
    <3>1. call[d].pc \in AtLogin
      BY <1>1, <2>2 DEF Others
    <3>2. sid = "none" /\ call[c].pc \notin AtLogin
      BY <2>2, <3>1, AloneAtLogin DEF ApiInv, SidInv
    <3>3. QED
      BY <1>1, <3>2 DEF SidOf
  <2>3. QED
    BY <2>1, <2>2
<1>6. TypeOK'
  <2>1. call' \in [Callers -> Calls] /\ sid' \in Tokens
    BY <1>1 DEF Typed, SidOf
  <2>2. secret' \in BOOLEAN
    BY DEF ApiInv, TypeOK
  <2>3. QED
    BY <1>3, <1>4, <2>1, <2>2 DEF TypeOK
<1>7. QED
  BY <1>2, <1>3, <1>4, <1>5, <1>6 DEF ApiInv

-----------------------------------------------------------------------------
(* The steps that are no caller's.                                         *)

LEMMA CloseKeeps == ASSUME ApiInv, Close PROVE ApiInv'
<1>1. /\ stage \in {"new", "challenged", "ready"} /\ stage' = "closed"
      /\ session' = "none" /\ sid' = "none" /\ UNCHANGED <<secret, lock, call>>
  BY DEF Close
<1>2. TypeOK'
  BY <1>1, Constants DEF ApiInv, TypeOK
<1>3. CallInv' /\ LockInv' /\ SidInv'
  BY <1>1 DEF ApiInv, CallInv, LockInv, SidInv
<1>4. StageInv'
  <2>1. \A c \in Callers : call[c].pc \notin FirstLogin
    BY <1>1 DEF ApiInv, StageInv
  <2>2. QED
    BY <1>1, <2>1 DEF StageInv
<1>5. QED
  BY <1>2, <1>3, <1>4 DEF ApiInv

LEMMA DetachKeeps == ASSUME ApiInv, AutoDetach PROVE ApiInv'
<1>1. /\ stage \in {"ready", "closed"} /\ session' = "detached"
      /\ UNCHANGED <<stage, sid, secret, lock, call>>
  BY DEF AutoDetach
<1>2. TypeOK'
  BY <1>1 DEF ApiInv, TypeOK
<1>3. CallInv' /\ LockInv' /\ SidInv'
  BY <1>1 DEF ApiInv, CallInv, LockInv, SidInv
<1>4. StageInv'
  BY <1>1 DEF ApiInv, StageInv
<1>5. QED
  BY <1>2, <1>3, <1>4 DEF ApiInv

Stale(t) == IF t = "live" THEN "stale" ELSE t

\* What the expiry of the sessions makes of a call's record.
Expired(r) == [r EXCEPT !.header = Stale(r.header), !.excuse = r.excuse \/ r.pc = "again"]

LEMMA ExpiredFields ==
  ASSUME NEW r \in Calls
  PROVE  /\ Expired(r) \in Calls
         /\ Expired(r).pc = r.pc /\ Expired(r).attempt = r.attempt
         /\ Expired(r).retries = r.retries /\ Expired(r).code = r.code
         /\ Expired(r).result = r.result /\ Expired(r).executed = r.executed
         /\ Expired(r).lost = r.lost /\ Expired(r).logins = r.logins
         /\ Expired(r).excuse <=> (r.excuse \/ r.pc = "again")
<1>1. Stale(r.header) \in Tokens
  BY DEF Stale, Calls, Tokens
<1>2. (r.excuse \/ r.pc = "again") \in BOOLEAN
  OBVIOUS
<1>3. QED
  BY <1>1, <1>2 DEF Expired, Calls

LEMMA Expiry ==
  ASSUME ApiInv, SessionsExpire
  PROVE  /\ call' \in [Callers -> Calls] /\ UNCHANGED <<stage, session, secret, lock>>
         /\ sid' = Stale(sid)
         /\ \A c \in Callers : call'[c] = Expired(call[c]) /\ call[c] \in Calls
<1>1. /\ call' = [c \in Callers |-> Expired(call[c])]
      /\ sid' = Stale(sid) /\ UNCHANGED <<stage, session, secret, lock>>
  BY DEF SessionsExpire, Stale, Expired
<1>2. \A c \in Callers : call[c] \in Calls /\ Expired(call[c]) \in Calls
  BY ExpiredFields DEF ApiInv, TypeOK
<1>3. QED
  BY <1>1, <1>2

LEMMA ExpiryKeeps == ASSUME ApiInv, SessionsExpire PROVE ApiInv'
<1>1. /\ call' \in [Callers -> Calls] /\ UNCHANGED <<stage, session, secret, lock>>
      /\ sid' = Stale(sid)
      /\ \A c \in Callers : call'[c] = Expired(call[c]) /\ call[c] \in Calls
  BY Expiry
<1>2. \A c \in Callers : call'[c].pc = call[c].pc
  BY <1>1, ExpiredFields
<1>3. TypeOK'
  <2>1. sid' \in Tokens
    BY <1>1 DEF ApiInv, TypeOK, Tokens, Stale
  <2>2. QED
    BY <1>1, <2>1 DEF ApiInv, TypeOK
<1>4. ASSUME NEW c \in Callers PROVE Counted(call'[c]) /\ Excused(call'[c])
  <2>1. call'[c] = Expired(call[c]) /\ Counted(call[c]) /\ Excused(call[c]) /\ call[c] \in Calls
    BY <1>1 DEF ApiInv, CallInv
  <2> DEFINE s == Expired(call[c])
  <2>2. /\ s.pc = call[c].pc /\ s.attempt = call[c].attempt
        /\ s.retries = call[c].retries /\ s.code = call[c].code
        /\ s.result = call[c].result /\ s.executed = call[c].executed
        /\ s.lost = call[c].lost /\ s.logins = call[c].logins
        /\ s.excuse <=> (call[c].excuse \/ call[c].pc = "again")
    BY <2>1, ExpiredFields
  <2> HIDE DEF s
  <2>3. Counted(s)
    BY <2>1, <2>2 DEF Counted
  <2>4. Excused(s)
    BY <2>1, <2>2 DEF Excused
  <2>5. QED
    BY <2>1, <2>3, <2>4 DEF s
<1>5. CallInv'
  BY <1>4 DEF CallInv
<1>6. LockInv'
  <2>1. LockInv /\ \A i \in 1 .. Len(lock) : call'[lock[i]].pc = call[lock[i]].pc
    BY <1>2, LockMembers DEF ApiInv
  <2>2. QED
    BY <1>1, <1>2, <2>1 DEF LockInv
<1>7. StageInv'
  BY <1>1, <1>2 DEF ApiInv, StageInv
<1>8. SidInv'
  BY <1>1, <1>2 DEF ApiInv, SidInv, Stale
<1>9. QED
  BY <1>3, <1>5, <1>6, <1>7, <1>8 DEF ApiInv

LEMMA InitApiInv == Init => ApiInv
<1> SUFFICES ASSUME Init PROVE ApiInv
  OBVIOUS
<1>1. /\ Idle \in Calls
      /\ Idle.attempt = 0 /\ Idle.retries = 0 /\ Idle.code = 0 /\ Idle.result = "new"
      /\ Idle.logins = 0 /\ Idle.executed = 0 /\ Idle.lost = 0 /\ Idle.excuse = FALSE
      /\ Idle.header = "none" /\ Idle.pc = "idle"
  <2>1. /\ 0 \in 0 .. MaxRetries /\ 0 \in 0 .. MaxRetries + 1 /\ 0 \in 0 .. MaxRetries + 2
    BY MaxRetriesAssumption
  <2>2. "idle" \in Places /\ "new" \in Results /\ "none" \in Tokens /\ 0 \in 0 .. Len(Windows)
    BY Constants DEF Results
  <2>3. QED
    BY <2>1, <2>2 DEF Idle, Calls
<1> HIDE DEF Idle
<1>2. \A c \in Callers : call[c] = Idle
  BY DEF Init
<1>3. Counted(Idle) /\ Excused(Idle)
  BY <1>1 DEF Counted, Excused, FirstLogin, AtLogin
<1>4. CallInv
  BY <1>2, <1>3 DEF CallInv
<1>5. lock = <<>> /\ Len(lock) = 0 /\ lock \in Seq(Callers)
  BY DEF Init
<1>6. TypeOK
  BY <1>1, <1>5, Constants DEF Init, TypeOK
<1>7. LockInv
  BY <1>1, <1>2, <1>5 DEF LockInv, Holding, AtRequest
<1>8. StageInv /\ SidInv
  BY <1>1, <1>2 DEF Init, StageInv, SidInv, FirstLogin, AtLogin
<1>9. QED
  BY <1>4, <1>6, <1>7, <1>8 DEF ApiInv

LEMMA NextKeeps == ApiInv /\ [Next]_vars => ApiInv'
<1> SUFFICES ASSUME ApiInv, [Next]_vars PROVE ApiInv'
  OBVIOUS
<1>1. CASE Close
  BY <1>1, CloseKeeps
<1>2. CASE AutoDetach
  BY <1>2, DetachKeeps
<1>3. CASE SessionsExpire
  BY <1>3, ExpiryKeeps
<1>4. ASSUME NEW c \in Callers, ByCaller(c) PROVE ApiInv'
  BY <1>4, CallerSound, SoundKeeps
<1>5. CASE UNCHANGED vars
  BY <1>5 DEF vars, ApiInv, TypeOK, CallInv, LockInv, StageInv, SidInv
<1>6. QED
  BY <1>1, <1>2, <1>3, <1>4, <1>5 DEF Next, ByCaller

LEMMA Invariance == Spec => []ApiInv
  BY InitApiInv, NextKeeps, PTL DEF Spec

-----------------------------------------------------------------------------
(* Theorems.                                                               *)

\* Every variable keeps its type: retries, executions and logins of a call are
\* bounded as the loop of async_call bounds them.
THEOREM TypeCorrect == Spec => []TypeOK
<1>1. ApiInv => TypeOK
  BY DEF ApiInv
<1>2. QED
  BY Invariance, <1>1, PTL

\* An authentication failure is reported only for credentials the appliance
\* refused, or a login of this call that it forgot: never for an expired session
\* alone, a skew of one window, or what another caller does meanwhile.
THEOREM AlarmsAreTrue == Spec => []NoFalseAlarm
<1>1. ApiInv => NoFalseAlarm
  BY DEF ApiInv, CallInv, Excused, NoFalseAlarm
<1>2. QED
  BY Invariance, <1>1, PTL

\* A call sends the password at most once per retry and once more.
THEOREM PasswordsAreBounded == Spec => []LoginsAreBounded
<1>1. ApiInv => LoginsAreBounded
  BY DEF ApiInv, CallInv, Counted, LoginsAreBounded
<1>2. QED
  BY Invariance, <1>1, PTL


-----------------------------------------------------------------------------
(* The client implements RpcPromise.                                       *)

Status(r) == IF r.pc = "idle" THEN r.result ELSE "pending"
status == [c \in Callers |-> IF call[c].pc = "idle" THEN call[c].result ELSE "pending"]
done == [c \in Callers |-> call[c].executed]
lost == [c \in Callers |-> call[c].lost]

Seen == <<status, done, lost>>

\* A step that changes one call changes what its caller sees.
LEMMA SeenByCaller ==
  ASSUME NEW c \in Callers, call' \in [Callers -> Calls], Others(c)
  PROVE  /\ status' = [status EXCEPT ![c] = Status(call'[c])]
         /\ done' = [done EXCEPT ![c] = call'[c].executed]
         /\ lost' = [lost EXCEPT ![c] = call'[c].lost]
  BY DEF status, done, lost, Status, Others

LEMMA SoundPromise ==
  ASSUME ApiInv, NEW c \in Callers, Sound(c)
  PROVE  Promise!Next \/ UNCHANGED Seen
<1>1. call' \in [Callers -> Calls] /\ Others(c) /\ TallyOf(c) /\ call[c] \in Calls /\ call'[c] \in Calls
  BY Unfold DEF Sound, StepOf, Good, Typed
<1>2. /\ status' = [status EXCEPT ![c] = Status(call'[c])]
      /\ done' = [done EXCEPT ![c] = call'[c].executed]
      /\ lost' = [lost EXCEPT ![c] = call'[c].lost]
  BY <1>1, SeenByCaller
<1>3. /\ status[c] = Status(call[c]) /\ done[c] = call[c].executed /\ lost[c] = call[c].lost
      /\ call[c].executed \in Nat /\ call[c].lost \in Nat
  BY <1>1, CallTypes DEF status, done, lost, Status
<1>4. call[c].pc = "idle" => call[c].result # "pending"
  BY <1>1 DEF Calls, Results
<1>5. CASE call[c].pc = "idle" /\ call'[c].pc # "idle" /\ call'[c].executed = 0 /\ call'[c].lost = 0
  BY <1>2, <1>3, <1>4, <1>5 DEF Promise!Next, Promise!Issue, Status, status, done, lost
<1>6. CASE /\ call[c].pc # "idle" /\ Tally(c, call[c])
           /\ call'[c].pc = "idle" => call'[c].result \in {"api", "auth", "connection", "cancelled"}
  <2>1. done' = done /\ lost' = lost
    BY <1>1, <1>2, <1>3, <1>6 DEF Tally, done, lost
  <2>2. CASE call'[c].pc = "idle"
    <3>1. status[c] = "pending" /\ Status(call'[c]) \in Promise!Failures
      BY <1>3, <1>6, <2>2 DEF Status, Promise!Failures
    <3>2. Promise!GiveUp(c)
      BY <1>2, <2>1, <3>1 DEF Promise!GiveUp, status, done, lost
    <3>3. QED
      BY <3>2 DEF Promise!Next
  <2>3. CASE call'[c].pc # "idle"
    <3>1. Status(call'[c]) = "pending" /\ status[c] = "pending"
      BY <1>3, <1>6, <2>3 DEF Status
    <3>2. status' = status
      BY <1>2, <3>1 DEF status
    <3>3. QED
      BY <2>1, <3>2 DEF Seen
  <2>4. QED
    BY <2>2, <2>3
<1>7. CASE /\ call[c].pc # "idle" /\ call'[c].pc = "idle" /\ call'[c].result \in {"ok", "api"}
           /\ call'[c].executed = call[c].executed + 1 /\ call'[c].lost = call[c].lost
           /\ call[c].executed = call[c].lost
  <2>1. /\ status[c] = "pending" /\ Status(call'[c]) \in {"ok", "api"} /\ done[c] = lost[c]
        /\ done' = [done EXCEPT ![c] = @ + 1] /\ lost' = lost
    BY <1>1, <1>2, <1>3, <1>7 DEF Status, done, lost
  <2>2. Promise!Answer(c)
    BY <1>2, <2>1 DEF Promise!Answer, Promise!Execute, status, done, lost
  <2>3. QED
    BY <2>2 DEF Promise!Next
<1>8. CASE /\ call[c].pc # "idle" /\ call[c].lost <= MaxRetries /\ call[c].executed = call[c].lost
           /\ call'[c].executed = call[c].executed + 1 /\ call'[c].lost = call[c].lost + 1
           /\ call'[c].pc = "idle" => call'[c].result = "connection"
  <2>1. /\ status[c] = "pending" /\ Status(call'[c]) \in {"pending", "connection"}
        /\ done[c] = lost[c] /\ lost[c] <= MaxRetries
        /\ done' = [done EXCEPT ![c] = @ + 1] /\ lost' = [lost EXCEPT ![c] = @ + 1]
    BY <1>2, <1>3, <1>8 DEF Status
  <2>2. Promise!LoseAnswer(c)
    BY <1>2, <2>1 DEF Promise!LoseAnswer, Promise!Execute, status, done, lost
  <2>3. QED
    BY <2>2 DEF Promise!Next
<1>9. QED
  BY <1>1, <1>5, <1>6, <1>7, <1>8 DEF TallyOf

\* The calls of all callers stay as their callers see them.
LEMMA Unseen ==
  ASSUME ApiInv, Close \/ AutoDetach \/ SessionsExpire \/ UNCHANGED vars
  PROVE  UNCHANGED Seen
<1>1. CASE SessionsExpire
  <2>1. \A c \in Callers : call'[c] = Expired(call[c]) /\ call[c] \in Calls
    BY <1>1, Expiry
  <2>2. \A c \in Callers :
          /\ call'[c].pc = call[c].pc /\ call'[c].result = call[c].result
          /\ call'[c].executed = call[c].executed /\ call'[c].lost = call[c].lost
    BY <2>1, ExpiredFields
  <2>3. QED
    BY <2>2 DEF Seen, status, done, lost
<1>2. CASE Close \/ AutoDetach \/ UNCHANGED vars
  BY <1>2 DEF Close, AutoDetach, vars, Seen, status, done, lost
<1>3. QED
  BY <1>1, <1>2

\* The client keeps what async_call promises to its callers: whatever is retried,
\* renewed, cancelled or done by others, a call is executed again only when the
\* answers to all its earlier executions were lost, and success is an answer.
THEOREM PromiseKept == Spec => KeepsRpcPromise
<1>1. Init => Promise!Init
  BY DEF Init, Idle, Promise!Init
<1>2. ApiInv /\ [Next]_vars => [Promise!Next]_Seen
  <2> SUFFICES ASSUME ApiInv, [Next]_vars PROVE Promise!Next \/ UNCHANGED Seen
    OBVIOUS
  <2>1. ASSUME NEW c \in Callers, ByCaller(c) PROVE Promise!Next \/ UNCHANGED Seen
    BY <2>1, CallerSound, SoundPromise
  <2>2. CASE Close \/ AutoDetach \/ SessionsExpire \/ UNCHANGED vars
    BY <2>2, Unseen
  <2>3. QED
    BY <2>1, <2>2 DEF Next, ByCaller
<1>3. QED
  BY <1>1, <1>2, Invariance, PTL DEF Spec, KeepsRpcPromise, Promise!Spec, Seen, status, done, lost
=============================================================================
