--------------------------- MODULE EntryLifecycle ---------------------------
(***************************************************************************)
(* The life of one config entry: config flow (config_flow.py), hand-off    *)
(* (session_handoff.py), setup, unload and update listener (__init__.py).  *)
(*                                                                         *)
(* A client is an OMVAPI object; OmvApi models its inside.  Here a call is *)
(* answered, fails for good, or meets a login that nobody can complete.    *)
(* Home Assistant runs one setup, unload or reload of an entry at a time,  *)
(* in the order asked for; it starts the update listener of a loaded entry *)
(* whenever the entry's title, data or options change.  The retry of a     *)
(* form that ends in an error changes nothing and is left out.             *)
(***************************************************************************)
EXTENDS Integers, Sequences, SequencesExt, FiniteSets

CONSTANTS
  Ids,          \* the OMVAPI objects that exist at a time
  MaxSettings,  \* bound: versions of host settings and password
  MaxListeners, \* bound: running update listeners
  MaxReloads,   \* bound: waiting reloads
  TwoFactor,    \* the appliance challenges every login of the account
  UserActs      \* what the user does besides the first flow

ASSUME BoundsAssumption == {MaxSettings, MaxListeners, MaxReloads} \subseteq Nat \ {0}
ASSUME IdsAssumption ==
  /\ Ids \subseteq Nat \ {0} /\ IsFiniteSet(Ids)
  /\ Cardinality(Ids) > MaxListeners + 1
ASSUME FlagsAssumption ==
  /\ TwoFactor \in BOOLEAN
  /\ UserActs \subseteq {"reauth", "reconfigure", "options", "reload", "remove", "restart"}

NoClient == 0

VARIABLES
  entry,      \* absent, login, refresh (setup), loaded, unloading, retry, error
  data,       \* entry.data: version of the settings, and is there a TOTP secret
  client,     \* client[i]: the OMVAPI objects
  runtime,    \* the object of entry.runtime_data, or of the setup in progress
  pending,    \* session_handoff._pending of the entry's unique id
  flow,       \* the config flow that is open
  asking,     \* running _async_update_listener tasks: the objects they ask
  reloads,    \* reloads that wait for the entry's setup lock
  dirty,      \* updated since the last setup began, with a listener to notice
  alarm,      \* the user is asked to reauthenticate: no, due, or needless
  blame,      \* history: the appliance, the network or the user cost a session
  crossed,    \* history: a reload was asked for while another one was due
  stale       \* history: a listener handed over a client with older settings

vars == <<entry, data, client, runtime, pending, flow, asking, reloads,
          dirty, alarm, blame, crossed, stale>>

\* Version 0: those of another appliance.
Settings == 0 .. MaxSettings

(* version, secret: what it logs in with.  open: its HTTP session is usable. *)
(* owned: that session is detached with the entry.  live: it is logged in.   *)
(* lost is history: the appliance or the network cost it a session that it   *)
(* cannot renew.                                                             *)
Client ==
  [version : Settings, secret : BOOLEAN, open : BOOLEAN, owned : BOOLEAN,
   live : BOOLEAN, lost : BOOLEAN]

Unused ==
  [version |-> 0, secret |-> FALSE, open |-> FALSE, owned |-> FALSE,
   live |-> FALSE, lost |-> FALSE]

\* A flow is open from the submitted user form on; the form itself has no state.
\* updates: of an existing entry, by reauthentication or reconfiguration.
NoFlow == [updates |-> FALSE, client |-> NoClient]

TypeOK ==
  /\ entry \in {"absent", "login", "refresh", "loaded", "unloading", "retry", "error"}
  /\ data \in [version : Settings, secret : BOOLEAN]
  /\ client \in [Ids -> Client]
  /\ {runtime, pending} \subseteq Ids \cup {NoClient}
  /\ runtime = NoClient <=> entry \in {"absent", "retry", "error"}
  /\ flow \in [updates : BOOLEAN, client : Ids \cup {NoClient}]
  /\ asking \in Seq(Ids) /\ Len(asking) <= MaxListeners
  /\ reloads \in 0 .. MaxReloads
  /\ alarm \in {"no", "due", "needless"}
  /\ {dirty, blame, crossed, stale} \subseteq BOOLEAN

Init ==
  /\ entry = "absent" /\ data = [version |-> 0, secret |-> FALSE]
  /\ client = [i \in Ids |-> Unused]
  /\ runtime = NoClient /\ pending = NoClient
  /\ flow = NoFlow /\ asking = <<>> /\ reloads = 0
  /\ dirty = FALSE /\ alarm = "no" /\ blame = FALSE
  /\ crossed = FALSE /\ stale = FALSE

-----------------------------------------------------------------------------
(* The clients.                                                            *)

Closed(r) == [r EXCEPT !.open = FALSE, !.live = FALSE]

CanLogin(r) == ~TwoFactor \/ r.secret

Referenced == {runtime, pending, flow.client} \cup ToSet(asking)

FreeIds == Ids \ Referenced

\* The objects after a step; those that nobody refers to are gone.
Heap(cs) == [i \in Ids |-> IF i \in Referenced' THEN cs[i] ELSE Unused]

\* A new object: any that nobody refers to.
NewOf(S) == CHOOSE i \in S : TRUE

\* A call ends.  A session that had to be replaced belongs to the entry if the
\* task that replaced it runs in the entry's context (owner).
CallEnds(i, outcome, owner) ==
  LET r == client[i]
      kept == [r EXCEPT !.open = TRUE, !.owned = IF r.open THEN @ ELSE owner]
  IN  \/ /\ outcome = "ok" /\ (r.live \/ CanLogin(r))
         /\ client' = Heap([client EXCEPT ![i] = [kept EXCEPT !.live = TRUE, !.lost = FALSE]])
         /\ UNCHANGED blame
      \/ /\ outcome = "auth" /\ ~r.live
         /\ client' = Heap([client EXCEPT ![i] = kept])
         /\ UNCHANGED blame
      \/ /\ outcome = "connection"
         /\ client' = Heap([client EXCEPT ![i] =
              [r EXCEPT !.open = TRUE, !.owned = owner, !.live = FALSE, !.lost = ~CanLogin(r)]])
         /\ blame' = TRUE

\* The client's authentication failure reaches Home Assistant.  It is needless
\* if the login was challenged and nothing had cost the session.
Alarmed(r) ==
  IF alarm # "no" THEN alarm
  ELSE IF blame \/ r.lost \/ CanLogin(r) THEN "due" ELSE "needless"

\* OMV forgets a session, or the network breaks it.
SessionLost(i) ==
  /\ client[i].live
  /\ client' = [client EXCEPT ![i] = [@ EXCEPT !.live = FALSE, !.lost = ~CanLogin(client[i])]]
  /\ blame' = TRUE
  /\ UNCHANGED <<entry, data, runtime, pending, flow, asking, reloads, dirty, alarm,
                 crossed, stale>>

-----------------------------------------------------------------------------
(* Setup, unload, reload.                                                  *)

Busy == entry \in {"login", "refresh", "unloading"}

Outstanding == Busy \/ reloads > 0 \/ asking # <<>>

\* A new client made from entry.data, on objects cs; it may take the place of
\* the one it replaces.
SetupLogsIn(cs) ==
  LET i == NewOf(Ids \ ({pending', flow'.client} \cup ToSet(asking')))
  IN  /\ runtime' = i /\ entry' = "login"
      /\ client' = Heap([cs EXCEPT ![i] =
           [Unused EXCEPT !.version = data.version, !.secret = data.secret,
                          !.open = TRUE, !.owned = TRUE]])

\* async_setup_entry up to its first await, on the objects cs.
SetupStarts(cs) ==
  /\ pending' = NoClient
  /\ dirty' = FALSE
  /\ UNCHANGED <<flow, asking>>
  /\ \/ /\ pending # NoClient
        /\ runtime' = pending /\ entry' = "refresh"
        /\ client' = Heap(cs)
        /\ UNCHANGED stale
     \/ /\ pending = NoClient
        /\ SetupLogsIn(cs)
        /\ stale' = FALSE

Detached(cs) == [i \in Ids |-> IF cs[i].owned THEN Closed(cs[i]) ELSE cs[i]]

\* Mutant: the client of a failed setup stays.
SetupFailsKeepsClient(outcome, cs) ==
  /\ entry' = IF outcome = "connection" THEN "retry" ELSE "error"
  /\ alarm' = IF outcome = "auth" THEN Alarmed(client[runtime]) ELSE alarm
  /\ blame' = (blame \/ outcome = "connection")
  /\ UNCHANGED runtime
  /\ client' = Heap(Detached(cs))

\* A setup that raises; Home Assistant runs the entry's on_unload callbacks.
SetupFails(outcome, cs) ==
  /\ entry' = IF outcome = "connection" THEN "retry" ELSE "error"
  /\ alarm' = IF outcome = "auth" THEN Alarmed(client[runtime]) ELSE alarm
  /\ blame' = (blame \/ outcome = "connection")
  /\ runtime' = NoClient
  /\ client' = Heap(Detached(cs))

SetupConnects ==
  /\ entry = "login"
  /\ UNCHANGED <<data, pending, flow, asking, reloads, dirty, crossed, stale>>
  /\ \/ /\ CanLogin(client[runtime])
        /\ client' = [client EXCEPT ![runtime].live = TRUE]
        /\ entry' = "refresh"
        /\ UNCHANGED <<runtime, alarm, blame>>
     \/ \E outcome \in {"auth", "connection"} :
          SetupFails(outcome, [client EXCEPT ![runtime] = Closed(@)])

\* async_config_entry_first_refresh, and the rest, which cannot fail.
FirstRefresh ==
  /\ entry = "refresh"
  /\ UNCHANGED <<data, pending, flow, asking, reloads, dirty, crossed, stale>>
  /\ \/ /\ UNCHANGED <<runtime, alarm>>
        /\ entry' = "loaded"
        /\ CallEnds(runtime, "ok", TRUE)
     \/ ~client[runtime].live /\ SetupFails("auth", client)
     \/ SetupFails("connection", client)

RetrySetup ==
  /\ entry = "retry" /\ reloads = 0   \* a reload cancels the retry
  /\ SetupStarts(client)
  /\ UNCHANGED <<data, reloads, alarm, blame, crossed>>

StartReload ==
  /\ entry \in {"loaded", "retry", "error"} /\ reloads > 0
  /\ reloads' = reloads - 1
  /\ UNCHANGED <<data, alarm, blame, crossed>>
  /\ \/ /\ entry = "loaded" /\ entry' = "unloading"
        /\ UNCHANGED <<client, runtime, pending, flow, asking, dirty, stale>>
     \/ entry # "loaded" /\ SetupStarts(client)

\* Mutant: the client is closed whoever waits for it.
UnloadAlwaysCloses == [client EXCEPT ![runtime] = Closed(@)]

\* async_unload_entry closes the client unless it is handed over.
Unloaded ==
  IF pending = runtime THEN client ELSE [client EXCEPT ![runtime] = Closed(@)]

UnloadEnds ==
  /\ entry = "unloading"
  /\ SetupStarts(Detached(Unloaded))
  /\ UNCHANGED <<data, reloads, alarm, blame, crossed>>

Poll ==
  /\ entry = "loaded"
  /\ UNCHANGED <<entry, data, runtime, pending, flow, asking, reloads, dirty, crossed, stale>>
  /\ \E outcome \in {"ok", "auth", "connection"} :
       /\ alarm' = IF outcome = "auth" THEN Alarmed(client[runtime]) ELSE alarm
       /\ CallEnds(runtime, outcome, TRUE)

-----------------------------------------------------------------------------
(* Updates of the entry and the update listener.                           *)

\* The listener is registered until the unload has ended.
Notified(changed) ==
  LET told == changed /\ entry \in {"loaded", "unloading"}
  IN  /\ told => Len(asking) < MaxListeners
      /\ asking' = IF told THEN Append(asking, runtime) ELSE asking
      /\ dirty' = (dirty \/ told)

OptionsChange ==
  /\ "options" \in UserActs /\ entry # "absent"
  /\ Notified(TRUE)
  /\ UNCHANGED <<entry, data, client, runtime, pending, flow, reloads, alarm, blame,
                 crossed, stale>>

\* Another reload waits, runs, or has replaced the client that this listener asks.
Crosses(k) == reloads > 0 \/ Busy \/ asking[k] # runtime

\* Mutant: a failed request ends the listener.
ListenerEndsOnError(k) ==
  /\ reloads < MaxReloads
  /\ asking' = RemoveAt(asking, k)
  /\ crossed' = (crossed \/ Crosses(k))
  /\ UNCHANGED <<entry, data, runtime, flow, dirty, alarm>>
  /\ \/ /\ pending' = asking[k]
        /\ stale' = (client[asking[k]].version # data.version)
        /\ reloads' = IF entry = "absent" THEN reloads ELSE reloads + 1
        /\ CallEnds(asking[k], "ok", FALSE)
     \/ /\ UNCHANGED <<pending, reloads, stale>>
        /\ \E outcome \in {"auth", "connection"} : CallEnds(asking[k], outcome, FALSE)

\* _async_update_listener, from the answer on.
ListenerEnds(k) ==
  /\ reloads < MaxReloads
  /\ asking' = RemoveAt(asking, k)
  /\ reloads' = IF entry = "absent" THEN reloads ELSE reloads + 1
  /\ crossed' = (crossed \/ Crosses(k))
  /\ UNCHANGED <<entry, data, runtime, flow, dirty, alarm>>
  /\ \/ /\ pending' = asking[k]
        /\ stale' = (client[asking[k]].version # data.version)
        /\ CallEnds(asking[k], "ok", FALSE)
     \/ /\ UNCHANGED <<pending, stale>>
        /\ \E outcome \in {"auth", "connection"} : CallEnds(asking[k], outcome, FALSE)

-----------------------------------------------------------------------------
(* The config flow.                                                        *)

\* The user closes the dialog; or the appliance does not answer, and the form that
\* stays has lost its client and ignores every submission.
FlowAbandoned ==
  /\ flow # NoFlow
  /\ flow' = NoFlow
  /\ UNCHANGED <<entry, data, runtime, pending, asking, reloads, dirty, alarm, blame,
                 crossed, stale>>
  /\ client' = Heap(client)

\* _abort_if_unique_id_mismatch, _abort_if_unique_id_configured.
MayFinish(updates, r) ==
  r.version # 0 /\ (updates <=> entry # "absent")

\* Mutant: the hand-off is stored before the unique id is checked.
FlowAbortsLate(i, r) ==
  /\ pending' = i
  /\ UNCHANGED <<entry, data, runtime, asking, reloads, dirty, alarm, blame, crossed, stale>>
  /\ client' = Heap([client EXCEPT ![i] = Closed(r)])

\* The flow is aborted and its client closed.
FlowAborts(i, r) ==
  /\ UNCHANGED <<entry, data, runtime, pending, asking, reloads, dirty, alarm, blame,
                 crossed, stale>>
  /\ client' = Heap([client EXCEPT ![i] = Closed(r)])

\* Mutant: the entry is not updated.
DataKept(r) == data

NewData(r) == [version |-> r.version, secret |-> r.secret]

\* _finish_flow with the client i in the state r: hand over, then create the
\* entry, which sets it up, or update it and ask for a reload.
FinishFlow(updates, i, r) ==
  /\ flow' = NoFlow
  /\ \/ /\ MayFinish(updates, r)
        /\ data' = NewData(r)
        /\ alarm' = "no" /\ blame' = (entry = "login")
        /\ Notified(data' # data)
        /\ crossed' = (reloads > 0 \/ Busy) /\ stale' = FALSE
        /\ IF entry = "absent"
           THEN /\ pending' = NoClient /\ runtime' = i /\ entry' = "refresh"
                /\ UNCHANGED reloads
           ELSE /\ reloads < MaxReloads
                /\ pending' = i /\ reloads' = reloads + 1
                /\ UNCHANGED <<runtime, entry>>
        /\ client' = Heap([client EXCEPT ![i] = r])
     \/ ~MayFinish(updates, r) /\ FlowAborts(i, r)

\* Anybody may add an appliance, Home Assistant asks for a reauthentication, and
\* the user reconfigures an entry.
MayStart(updates) ==
  updates =>
    /\ entry # "absent"
    /\ "reconfigure" \in UserActs \/ ("reauth" \in UserActs /\ alarm # "no")

\* async_step_user: new or the same settings, of this appliance or another one.
SubmitForm(updates, version) ==
  LET r == [Unused EXCEPT !.version = version, !.open = TRUE, !.live = ~TwoFactor]
      i == NewOf(FreeIds)
  IN  /\ flow = NoFlow /\ MayStart(updates) /\ FreeIds # {}
      /\ version \in {0, data.version, data.version + 1}
      /\ \/ /\ TwoFactor
            /\ flow' = [updates |-> updates, client |-> i]
            /\ UNCHANGED <<entry, data, runtime, pending, asking, reloads,
                           dirty, alarm, blame, crossed, stale>>
            /\ client' = Heap([client EXCEPT ![i] = r])
         \/ ~TwoFactor /\ FinishFlow(updates, i, r)

\* Mutant: only a secret that was entered now is stored.
ForgetsSecret(entered) == entered

\* The secret entered now, or else _existing_totp_secret.
StoredSecret(entered) ==
  entered \/ (flow.updates /\ data.secret)

\* async_step_totp: a code or a secret that the appliance accepts.
SubmitTotp(entered) ==
  /\ flow # NoFlow
  /\ FinishFlow(flow.updates, flow.client,
                [client[flow.client] EXCEPT !.live = TRUE,
                                             !.secret = StoredSecret(entered)])

-----------------------------------------------------------------------------
(* The user and Home Assistant.                                            *)

AskForReload ==
  /\ "reload" \in UserActs /\ entry # "absent" /\ reloads < MaxReloads
  /\ reloads' = reloads + 1
  /\ blame' = TRUE
  /\ UNCHANGED <<entry, data, client, runtime, pending, flow, asking, dirty, alarm, crossed, stale>>

RemoveEntry ==
  /\ "remove" \in UserActs /\ entry \in {"loaded", "retry", "error"}
  /\ entry' = "absent" /\ data' = [data EXCEPT !.secret = FALSE]
  /\ runtime' = NoClient
  /\ flow' = IF flow.updates THEN NoFlow ELSE flow
  /\ reloads' = 0 /\ dirty' = FALSE /\ alarm' = "no"
  /\ UNCHANGED <<pending, asking, blame, crossed, stale>>
  /\ client' = Heap(Detached(IF entry = "loaded" THEN Unloaded ELSE client))

\* Only entry.data survives a restart of Home Assistant.
Restart ==
  /\ "restart" \in UserActs /\ entry # "absent"
  /\ pending' = NoClient /\ flow' = NoFlow
  /\ asking' = <<>> /\ reloads' = 0 /\ dirty' = FALSE
  /\ alarm' = "no" /\ blame' = TRUE /\ crossed' = FALSE /\ stale' = FALSE
  /\ UNCHANGED data
  /\ SetupLogsIn(client)

EntryTasks ==
  \/ SetupConnects \/ FirstRefresh \/ RetrySetup \/ StartReload \/ UnloadEnds
  \/ \E k \in DOMAIN asking : ListenerEnds(k)

Next ==
  \/ EntryTasks \/ Poll
  \/ \E i \in Ids : SessionLost(i)
  \/ OptionsChange \/ AskForReload \/ RemoveEntry \/ Restart
  \/ \E updates \in BOOLEAN, version \in Settings : SubmitForm(updates, version)
  \/ \E entered \in BOOLEAN : SubmitTotp(entered)
  \/ FlowAbandoned

Spec == Init /\ [][Next]_vars

(***************************************************************************)
(* Setups and unloads end, Home Assistant runs the reloads it was asked    *)
(* for, and the listener's request is answered or times out.               *)
(***************************************************************************)
FairSpec ==
  /\ Spec
  /\ WF_vars(SetupConnects \/ FirstRefresh \/ UnloadEnds)
  /\ WF_vars(StartReload)
  /\ WF_vars(\E k \in DOMAIN asking : ListenerEnds(k))

-----------------------------------------------------------------------------
(***************************************************************************)
(* Properties.                                                             *)
(***************************************************************************)

\* The hand-off never holds a client whose settings the entry did not accept: one
\* of a flow that was aborted, or one of another appliance.  (_finish_flow.)
HandoffIsAccepted ==
  entry # "absent" /\ pending # NoClient =>
    client[pending].version \in 1 .. data.version

\* A session that a human has verified is used up by a setup only if two reloads
\* share one hand-off; else the user is asked again only after the appliance, the
\* network, a restart or a manual reload has cost that session.
\* (async_setup_entry, async_unload_entry, _async_update_listener.)
SessionsAreReused == alarm = "needless" => crossed

\* A loaded entry that waits for no reload talks to the appliance with the settings
\* that were accepted last, unless a listener has handed over a client with older
\* ones, after the flow's own hand-off.
NewestSettingsRun ==
  entry = "loaded" /\ reloads = 0 => client[runtime].version = data.version \/ stale

\* What CHANGELOG:181 promises: reconfiguring or reauthenticating a 2FA-enabled
\* account no longer asks for the login and the 2FA code a second time.
CodeIsAskedOnce == alarm # "needless"

\* What __init__.py:446-451 says of the hand-off: the session that reauthentication
\* or reconfiguration has just authenticated is adopted, and the old one is
\* obsolete.  An entry with nothing left to do uses the accepted settings.
NewestSettingsWin ==
  entry = "loaded" /\ ~Outstanding => client[runtime].version = data.version

\* A stored TOTP secret survives every reauthentication and reconfiguration that
\* answers a challenge; without it, the next expired session needs a human.
SecretIsKept ==
  [][TwoFactor /\ data.secret /\ entry' # "absent" => data'.secret]_vars

\* What is changed while the entry is loaded is in use in the end, whether or not
\* the appliance answers the listener.
UpdatesTakeEffect == dirty ~> ~dirty
=============================================================================
