------------------------------- MODULE OmvApi -------------------------------
(***************************************************************************)
(* The JSON-RPC client (omv_api.py) and the tasks that share it.           *)
(*                                                                         *)
(* One lock serializes the calls; a call keeps it through its retries, its *)
(* backoff sleeps and its logins.  Logging in for the first time, closing, *)
(* and Home Assistant's detaching of the HTTP session do not take it.  An  *)
(* action is what a task does from one await to the next: it ends when the *)
(* task has sent a request or sleeps.  A request that gets no answer ends  *)
(* by the HTTP timeout.  The session id and the PHP cookie it belongs to   *)
(* are one token, live or stale on the appliance.                          *)
(***************************************************************************)
EXTENDS Integers, Sequences, SequencesExt, FiniteSets

CONSTANTS
  Callers,      \* the tasks: the poll, an entity's or a service's action
  MaxRetries,   \* async_call's default max_retries
  Skew          \* how many TOTP windows the appliance's clock is ahead

ASSUME MaxRetriesAssumption == MaxRetries \in Nat
ASSUME SkewAssumption == Skew \in Int

\* The windows whose codes are tried, in this order.
Windows == <<0, -1, 1>>

\* The skew that these windows are meant to tolerate.
InTolerance == Skew \in -1 .. 1

VARIABLES
  stage,      \* the client: new, connecting, challenged, ready, closed
  session,    \* _session: none, open, or detached behind the client's back
  sid,        \* _session_id: none, live, or stale (expired on the appliance)
  secret,     \* a TOTP secret is stored
  lock,       \* _lock: the holder, then the waiters in their order
  call        \* call[c]: the call of task c

vars == <<stage, session, sid, secret, lock, call>>

AtLogin == {"connect", "submit", "recover", "relogin"}
AtRequest == {"asking", "again"}
Places == {"idle", "waiting", "backoff"} \cup AtLogin \cup AtRequest
Tokens == {"none", "live", "stale"}

(* pc: where the task waits.  header: the token its request carries.       *)
(* code: 0, or which window's code it has submitted.  executed, lost,      *)
(* logins and excuse are history: executions of the call, answers to them  *)
(* that were lost, passwords sent, and whether the appliance gave a reason *)
(* for an authentication failure.                                          *)
Idle ==
  [pc |-> "idle", attempt |-> 0, retries |-> 0, header |-> "none", code |-> 0,
   result |-> "new", executed |-> 0, lost |-> 0, logins |-> 0, excuse |-> FALSE]

Results == {"new", "ok", "api", "auth", "connection", "cancelled"}

Calls ==
  [pc : Places, attempt : 0 .. MaxRetries, retries : 0 .. MaxRetries,
   header : Tokens, code : 0 .. Len(Windows), result : Results,
   executed : 0 .. MaxRetries + 2, lost : 0 .. MaxRetries + 2,
   logins : 0 .. MaxRetries + 1, excuse : BOOLEAN]

TypeOK ==
  /\ stage \in {"new", "connecting", "challenged", "ready", "closed"}
  /\ session \in {"none", "open", "detached"}
  /\ sid \in Tokens
  /\ secret \in BOOLEAN
  /\ lock \in Seq(Callers)
  /\ call \in [Callers -> Calls]

Init ==
  /\ stage = "new" /\ session = "none" /\ sid = "none"
  /\ secret \in BOOLEAN
  /\ lock = <<>>
  /\ call = [c \in Callers |-> Idle]

-----------------------------------------------------------------------------
(* How a task's step ends: it sleeps or sends a request, queues for the    *)
(* lock, or returns.  r is the record of its call so far.                  *)

Await(c, r, place) ==
  /\ call' = [call EXCEPT ![c] = [r EXCEPT !.pc = place, !.header = sid']]
  /\ UNCHANGED lock

Queue(c, r) ==
  /\ call' = [call EXCEPT ![c] = [r EXCEPT !.pc = "waiting", !.code = 0, !.logins = 0]]
  /\ lock' = Append(lock, c)

\* Whoever holds the lock or waits for it does so no more.
Release(c) ==
  \/ \E k \in DOMAIN lock : lock[k] = c /\ lock' = RemoveAt(lock, k)
  \/ (\A k \in DOMAIN lock : lock[k] # c) /\ UNCHANGED lock

\* Mutant: the lock is released only when the call ends by itself.
ReturnHoldsLock(c, r, outcome) ==
  /\ call' = [call EXCEPT ![c] = [r EXCEPT !.pc = "idle", !.code = 0,
                                           !.header = "none", !.result = outcome]]
  /\ IF outcome = "cancelled" THEN UNCHANGED lock ELSE Release(c)

Return(c, r, outcome) ==
  /\ call' = [call EXCEPT ![c] = [r EXCEPT !.pc = "idle", !.code = 0,
                                           !.header = "none", !.result = outcome]]
  /\ Release(c)

\* Mutant: one retry too many.
RetryOnceMore(c, r) ==
  IF r.attempt > r.retries
  THEN Return(c, r, "connection")
  ELSE Await(c, r, "backoff")

\* A connection error in the loop of async_call: back off while retries remain.
ConnectionError(c, r) ==
  IF r.attempt >= r.retries
  THEN Return(c, r, "connection")
  ELSE Await(c, r, "backoff")

\* The next raw call of the loop; _async_raw_call refuses a missing session.
Ask(c, r) ==
  IF session' = "open" THEN Await(c, r, "asking") ELSE ConnectionError(c, r)

\* An exception of _async_login: swallowed between retries, else propagated.
LoginFailed(c, r, outcome) ==
  IF r.pc = "recover"
  THEN Ask(c, [r EXCEPT !.attempt = @ + 1, !.code = 0])
  ELSE Return(c, r, outcome)

\* Send the password (code 0) or the code of a window.
SendLogin(c, r, place, code) ==
  IF session' = "open"
  THEN Await(c, [r EXCEPT !.code = code,
                          !.logins = IF code = 0 THEN @ + 1 ELSE @], place)
  ELSE LoginFailed(c, [r EXCEPT !.pc = place], "connection")

LoggedIn(c, r) ==
  /\ sid' = "live"
  /\ UNCHANGED <<session, secret>>
  /\ CASE r.pc = "recover" ->
            /\ Ask(c, [r EXCEPT !.attempt = @ + 1, !.code = 0])
            /\ UNCHANGED stage
       [] r.pc = "relogin" ->
            /\ IF session = "open"
               THEN Await(c, [r EXCEPT !.code = 0], "again")
               ELSE Return(c, r, "connection")
            /\ UNCHANGED stage
       [] OTHER ->
            /\ Queue(c, r)
            /\ stage' = "ready"

\* What is left of the client when a first login fails or is cancelled.
FailedStage(c, next) ==
  IF call[c].pc \in {"connect", "submit"} THEN next ELSE stage

-----------------------------------------------------------------------------
(* async_connect, async_submit_two_factor_code, async_close.               *)

Connect(c) ==
  /\ stage = "new" /\ call[c].pc = "idle"
  /\ stage' = "connecting"
  /\ session' = "open" /\ sid' = "none"
  /\ SendLogin(c, [Idle EXCEPT !.retries = MaxRetries], "connect", 0)
  /\ UNCHANGED secret

SubmitCode(c) ==
  /\ stage = "challenged" /\ call[c].pc = "idle"
  /\ stage' = "connecting" /\ sid' = "none"
  /\ UNCHANGED <<session, secret>>
  /\ SendLogin(c, [Idle EXCEPT !.retries = MaxRetries], "submit", 0)

\* Nobody waits for the calls that are in progress.
Close ==
  /\ stage \in {"new", "challenged", "ready"}
  /\ stage' = "closed" /\ session' = "none" /\ sid' = "none"
  /\ UNCHANGED <<secret, lock, call>>

\* Home Assistant detaches the HTTP session with the entry it belongs to, also
\* when the client is handed over to the entry's next setup.
AutoDetach ==
  /\ stage \in {"ready", "closed"} /\ session = "open"
  /\ session' = "detached"
  /\ UNCHANGED <<stage, sid, secret, lock, call>>

\* The appliance forgets its sessions: a timeout or a restart of OMV.
SessionsExpire ==
  LET stale(t) == IF t = "live" THEN "stale" ELSE t
  IN  /\ sid = "live" \/ \E c \in Callers : call[c].header = "live"
      /\ sid' = stale(sid)
      /\ call' = [c \in Callers |->
                    [call[c] EXCEPT !.header = stale(@),
                                    !.excuse = @ \/ call[c].pc = "again"]]
      /\ UNCHANGED <<stage, session, secret, lock>>

-----------------------------------------------------------------------------
(* async_call.                                                             *)

Call(c) ==
  /\ stage = "ready" /\ call[c].pc = "idle"
  /\ \E n \in {0, MaxRetries} : Queue(c, [Idle EXCEPT !.retries = n])
  /\ UNCHANGED <<stage, session, sid, secret>>

\* Mutant: the calls take no lock.
AcquireNothing(c) ==
  /\ call[c].pc = "waiting"
  /\ UNCHANGED <<stage, session, sid, secret>>
  /\ Ask(c, call[c])

Acquire(c) ==
  /\ call[c].pc = "waiting" /\ Head(lock) = c
  /\ UNCHANGED <<stage, session, sid, secret>>
  /\ Ask(c, call[c])

Executed(r) == [r EXCEPT !.executed = @ + 1]

\* Mutant: the answer to the second raw call is not returned, the loop goes on.
AnsweredForgetsReturn(c) ==
  /\ call[c].pc \in AtRequest /\ call[c].header = "live"
  /\ UNCHANGED <<stage, session, sid, secret>>
  /\ IF call[c].pc = "again" /\ call[c].attempt < call[c].retries
     THEN Ask(c, [Executed(call[c]) EXCEPT !.attempt = @ + 1])
     ELSE \E outcome \in {"ok", "api"} : Return(c, Executed(call[c]), outcome)

Answered(c) ==
  /\ call[c].pc \in AtRequest /\ call[c].header = "live"
  /\ \E outcome \in {"ok", "api"} : Return(c, Executed(call[c]), outcome)
  /\ UNCHANGED <<stage, session, sid, secret>>

\* No answer: the call propagates the error, or goes on with its loop.
Missed(c, r) ==
  IF r.pc = "again" THEN Return(c, r, "connection") ELSE ConnectionError(c, r)

AnswerLost(c) ==
  /\ call[c].pc \in AtRequest /\ call[c].header = "live"
  /\ UNCHANGED <<stage, session, sid, secret>>
  /\ Missed(c, [Executed(call[c]) EXCEPT !.lost = @ + 1])

Unanswered(c) ==
  /\ call[c].pc \in AtRequest
  /\ UNCHANGED <<stage, session, sid, secret>>
  /\ Missed(c, call[c])

\* An OMVAuthError: log in and ask once more.
Unauthorized(c) ==
  /\ call[c].pc = "asking" /\ call[c].header # "live"
  /\ sid' = "none"
  /\ UNCHANGED <<stage, session, secret>>
  /\ SendLogin(c, call[c], "relogin", 0)

\* Mutant: logs in as often as the session turns out to be expired.
UnauthorizedRepeats(c) ==
  /\ call[c].pc = "again" /\ call[c].header # "live"
  /\ sid' = "none"
  /\ UNCHANGED <<stage, session, secret>>
  /\ SendLogin(c, call[c], "relogin", 0)

UnauthorizedAgain(c) ==
  /\ call[c].pc = "again" /\ call[c].header # "live"
  /\ Return(c, call[c], "auth")
  /\ UNCHANGED <<stage, session, sid, secret>>

\* The end of a backoff sleep: _async_ensure_session, then _async_login.
Wake(c) ==
  /\ call[c].pc = "backoff"
  /\ session' = "open" /\ sid' = "none"
  /\ UNCHANGED <<stage, secret>>
  /\ SendLogin(c, call[c], "recover", 0)

\* The task is cancelled at its await; the lock's "async with" releases it.
Cancel(c) ==
  /\ call[c].pc # "idle"
  /\ Return(c, call[c], "cancelled")
  /\ stage' = FailedStage(c, "new")
  /\ UNCHANGED <<session, sid, secret>>

-----------------------------------------------------------------------------
(* _async_login and _async_answer_totp_challenge.                          *)

LoginAccepted(c) ==
  /\ call[c].pc \in AtLogin /\ call[c].code = 0
  /\ LoggedIn(c, call[c])

LoginRejected(c) ==
  /\ call[c].pc \in AtLogin /\ call[c].code = 0
  /\ stage' = FailedStage(c, IF call[c].pc = "submit" THEN "challenged" ELSE "new")
  /\ UNCHANGED <<session, sid, secret>>
  /\ LoginFailed(c, [call[c] EXCEPT !.excuse = TRUE], "auth")

\* A second factor is asked for; nobody is there to give it without a secret.
LoginChallenged(c) ==
  /\ call[c].pc \in AtLogin \ {"submit"} /\ call[c].code = 0
  /\ UNCHANGED <<session, sid, secret>>
  /\ \/ /\ secret
        /\ UNCHANGED stage
        /\ SendLogin(c, call[c], call[c].pc, 1)
     \/ /\ ~secret
        /\ stage' = FailedStage(c, "challenged")
        /\ LoginFailed(c, [call[c] EXCEPT !.excuse = TRUE], "auth")

\* The session cookie still stands for c's login: no other one has replaced it.
PendingLogin(c) ==
  sid = "none" /\ \A d \in Callers \ {c} : call[d].pc \notin AtLogin

RightCode(c) ==
  call[c].code > 0 /\ Windows[call[c].code] = Skew /\ PendingLogin(c)

CodeAccepted(c) ==
  /\ RightCode(c)
  /\ LoggedIn(c, call[c])

\* A wrong code; or a right one, for a pending login the appliance has forgotten.
CodeRejected(c) ==
  /\ call[c].code > 0
  /\ UNCHANGED <<session, sid, secret>>
  /\ \/ /\ call[c].code < Len(Windows)
        /\ UNCHANGED stage
        /\ SendLogin(c, [call[c] EXCEPT !.excuse = @ \/ RightCode(c)],
                     call[c].pc, call[c].code + 1)
     \/ /\ call[c].code = Len(Windows)
        /\ stage' = FailedStage(c, "new")
        /\ LoginFailed(c, [call[c] EXCEPT !.excuse = @ \/ RightCode(c) \/ ~InTolerance], "auth")

\* No answer, or an RPC error that says nothing about the credentials.
LoginBreaks(c) ==
  /\ call[c].pc \in AtLogin
  /\ stage' = FailedStage(c, "new")
  /\ UNCHANGED <<session, sid, secret>>
  /\ \E outcome \in {"connection", "api"} : LoginFailed(c, call[c], outcome)

Reply(c) ==
  \/ Answered(c) \/ AnswerLost(c) \/ Unanswered(c)
  \/ Unauthorized(c) \/ UnauthorizedAgain(c)
  \/ LoginAccepted(c) \/ LoginRejected(c) \/ LoginChallenged(c)
  \/ CodeAccepted(c) \/ CodeRejected(c) \/ LoginBreaks(c)

Next ==
  \/ Close \/ AutoDetach \/ SessionsExpire
  \/ \E c \in Callers :
       \/ Connect(c) \/ SubmitCode(c) \/ Call(c)
       \/ Acquire(c) \/ Wake(c) \/ Reply(c) \/ Cancel(c)

Spec == Init /\ [][Next]_vars

(***************************************************************************)
(* The event loop runs the task that has the lock, sleeps end, and a       *)
(* request is answered or times out (_REQUEST_TIMEOUT).                    *)
(***************************************************************************)
FairSpec ==
  Spec /\ \A c \in Callers : WF_vars(Acquire(c) \/ Wake(c) \/ Reply(c))

-----------------------------------------------------------------------------
(***************************************************************************)
(* Properties.                                                             *)
(***************************************************************************)

\* The client seen by its callers: retries, relogins and the other callers
\* never make it repeat an execution whose answer has arrived.
Promise == INSTANCE RpcPromise WITH
  status <- [c \in Callers |-> IF call[c].pc = "idle" THEN call[c].result ELSE "pending"],
  done <- [c \in Callers |-> call[c].executed],
  lost <- [c \in Callers |-> call[c].lost]

KeepsRpcPromise == Promise!Spec

\* An authentication failure, which stops the polling and asks the user for
\* credentials, is reported only when the appliance refused the credentials or
\* forgot a login of this very call.  An expired session alone, a reconnection,
\* a cancelled login, a clock skew of one TOTP window, or another caller's login
\* between the password and its code never is.
\* (async_call's relogin and _async_answer_totp_challenge, under the lock.)
NoFalseAlarm ==
  \A c \in Callers : call[c].result = "auth" => call[c].excuse

\* One call sends the password at most once per retry and once for an expired
\* session, so that wrong credentials do not hammer the appliance.
LoginsAreBounded ==
  \A c \in Callers : call[c].logins <= call[c].retries + 1

\* Every call ends, whatever is lost and whoever holds the lock: a call never
\* waits for the lock that it holds itself, and a cancelled one gives it up.
EveryCallEnds ==
  \A c \in Callers : call[c].pc # "idle" ~> call[c].pc = "idle"

\* omv_api.py:158, the session "is auto-detached on HA shutdown / config entry
\* unload": once a closed client's calls are over, it has no open session.
ClosedStaysClosed ==
  stage = "closed" /\ (\A c \in Callers : call[c].pc = "idle") => session # "open"
=============================================================================
