------------------------ MODULE EntryLifecycleProofs ------------------------
(***************************************************************************)
(* Theorems about EntryLifecycle, for every number of clients, settings,   *)
(* listeners and reloads, with and without a second factor.                *)
(***************************************************************************)
EXTENDS EntryLifecycle, SequenceFacts, FiniteSetTheorems, TLAPS

-----------------------------------------------------------------------------
(* The inductive invariant.                                                *)

\* The clients that a setup, a poll or a listener uses or will use.
Used == {runtime, pending} \cup ToSet(asking)

\* All of them log in with settings that the entry has accepted.
AcceptedInv == \A i \in Used \ {NoClient} : client[i].version \in 1 .. data.version

\* The client of an open flow is its own, and not newer than one submission.
FlowInv ==
  /\ flow.client # NoClient =>
       /\ flow.client \notin Used
       /\ client[flow.client].version \in {0, data.version, data.version + 1}
  /\ flow.updates => flow.client # NoClient

DataInv ==
  /\ entry = "absent" => ~data.secret
  /\ entry # "absent" => data.version # 0

EntryInv == TypeOK /\ AcceptedInv /\ FlowInv /\ DataInv

-----------------------------------------------------------------------------
(* The clients.                                                            *)

LEMMA Numbers ==
  /\ MaxSettings \in Nat \ {0} /\ MaxListeners \in Nat \ {0} /\ MaxReloads \in Nat \ {0}
  /\ NoClient = 0 /\ NoClient \notin Ids /\ Ids \subseteq Nat
  /\ 0 \in Settings /\ Settings \subseteq Nat
  BY BoundsAssumption, IdsAssumption DEF NoClient, Settings

LEMMA UnusedTyped == Unused \in Client /\ Unused.version = 0
  BY Numbers DEF Unused, Client

LEMMA HeapKeeps ==
  ASSUME NEW cs \in [Ids -> Client], client' = Heap(cs)
  PROVE  /\ client' \in [Ids -> Client]
         /\ \A i \in Ids : i \in Referenced' => client'[i] = cs[i]
<1>1. client' = [i \in Ids |-> IF i \in Referenced' THEN cs[i] ELSE Unused]
  BY DEF Heap
<1>2. QED
  BY <1>1, UnusedTyped

\* Objects with the versions they had.
Versions(cs) == cs \in [Ids -> Client] /\ \A i \in Ids : cs[i].version = client[i].version

LEMMA VersionsKept ==
  ASSUME NEW cs, Versions(cs), client' = Heap(cs)
  PROVE  /\ client' \in [Ids -> Client]
         /\ \A i \in Ids : i \in Referenced' => client'[i].version = client[i].version
  BY HeapKeeps DEF Versions

LEMMA ClosedTyped ==
  ASSUME NEW r \in Client
  PROVE  Closed(r) \in Client /\ Closed(r).version = r.version
  BY DEF Closed, Client

LEMMA SameVersions ==
  ASSUME TypeOK
  PROVE  /\ Versions(client)
         /\ runtime \in Ids => Versions(Unloaded)
         /\ \A cs : Versions(cs) => Versions(Detached(cs))
         /\ \A i \in Ids : Versions([client EXCEPT ![i] = Closed(@)])
<1>1. Versions(client)
  BY DEF TypeOK, Versions
<1>2. ASSUME NEW i \in Ids PROVE Versions([client EXCEPT ![i] = Closed(@)])
  BY ClosedTyped DEF TypeOK, Versions
<1>3. runtime \in Ids => Versions(Unloaded)
  BY <1>1, <1>2 DEF Unloaded
<1>4. ASSUME NEW cs, Versions(cs) PROVE Versions(Detached(cs))
  BY <1>4, ClosedTyped DEF Detached, Versions
<1>5. QED
  BY <1>1, <1>2, <1>3, <1>4

\* The objects suffice: somebody's place is free for the client of a setup.
LEMMA Room ==
  ASSUME NEW a \in Seq(Ids), Len(a) <= MaxListeners, NEW f
  PROVE  LET S == Ids \ ({NoClient, f} \cup ToSet(a)) IN NewOf(S) \in S
<1> DEFINE S == Ids \ ({NoClient, f} \cup ToSet(a))
<1>1. IsFiniteSet(ToSet(a)) /\ Cardinality(ToSet(a)) <= Len(a)
  BY MembersBounded
<1>2. /\ IsFiniteSet(ToSet(a) \cup {f})
      /\ Cardinality(ToSet(a) \cup {f}) <= MaxListeners + 1
  <2>1. Cardinality(ToSet(a)) \in Nat /\ Len(a) \in Nat
    BY <1>1, FS_CardinalityType, LenProperties
  <2>2. /\ IsFiniteSet(ToSet(a) \cup {f})
        /\ Cardinality(ToSet(a) \cup {f}) =
             IF f \in ToSet(a) THEN Cardinality(ToSet(a)) ELSE Cardinality(ToSet(a)) + 1
    BY <1>1, FS_AddElement
  <2>3. QED
    BY <1>1, <2>1, <2>2, Numbers
<1>3. S # {}
  <2>1. SUFFICES ASSUME S = {} PROVE FALSE
    OBVIOUS
  <2>2. Ids \subseteq ToSet(a) \cup {f}
    BY <2>1, Numbers
  <2>3. Cardinality(Ids) <= Cardinality(ToSet(a) \cup {f})
    BY <1>2, <2>2, FS_Subset
  <2>4. /\ Cardinality(Ids) \in Nat /\ Cardinality(ToSet(a) \cup {f}) \in Nat
        /\ Cardinality(Ids) > MaxListeners + 1
    BY <1>2, IdsAssumption, FS_CardinalityType
  <2>5. QED
    BY <1>2, <2>3, <2>4, Numbers
<1>4. QED
  BY <1>3 DEF NewOf

-----------------------------------------------------------------------------
(* What a step has to keep.                                                *)

\* A step that uses no other clients, and gives them no other settings.
LEMMA Keeps ==
  ASSUME EntryInv, UNCHANGED data, flow' \in {flow, NoFlow},
         Used' \subseteq Used \cup {NoClient},
         \A i \in Ids : i \in Referenced' => client'[i].version = client[i].version
  PROVE  AcceptedInv' /\ FlowInv'
<1>1. Used \subseteq Ids \cup {NoClient} /\ flow.client \in Ids \cup {NoClient}
  BY SeqMembers DEF EntryInv, TypeOK, Used
<1>2. NoFlow.client = NoClient /\ NoFlow.updates = FALSE
  BY DEF NoFlow
<1>3. AcceptedInv'
  <2>1. Used' \subseteq Referenced' /\ data' = data
    BY DEF Used, Referenced
  <2>2. QED
    BY <1>1, <2>1 DEF EntryInv, AcceptedInv
<1>4. FlowInv'
  <2>1. CASE flow' = NoFlow
    BY <1>2, <2>1 DEF FlowInv
  <2>2. CASE flow' = flow
    <3>1. flow.client \in Referenced'
      BY <2>2 DEF Referenced
    <3>2. QED
      BY <1>1, <2>2, <3>1 DEF EntryInv, FlowInv
  <2>3. QED
    BY <2>1, <2>2
<1>5. QED
  BY <1>3, <1>4

LEMMA EntryTypes ==
  ASSUME TypeOK
  PROVE  /\ \A i \in Ids : client[i] \in Client
         /\ runtime \in Ids \/ runtime = NoClient
         /\ pending \in Ids \/ pending = NoClient
         /\ entry \notin {"absent", "retry", "error"} => runtime \in Ids
         /\ asking \in Seq(Ids) /\ Len(asking) <= MaxListeners
         /\ ToSet(asking) \subseteq Ids /\ Len(asking) \in Nat
         /\ DOMAIN asking = 1 .. Len(asking) /\ \A k \in DOMAIN asking : asking[k] \in ToSet(asking)
         /\ data.version \in Settings /\ data.secret \in BOOLEAN
         /\ \A r : Alarmed(r) \in {"no", "due", "needless"}
<1>1. /\ ToSet(asking) \subseteq Ids /\ Len(asking) \in Nat /\ DOMAIN asking = 1 .. Len(asking)
  BY SeqMembers DEF TypeOK
<1>2. \A k \in DOMAIN asking : asking[k] \in ToSet(asking)
  BY DEF ToSet
<1>3. \A r : Alarmed(r) \in {"no", "due", "needless"}
  BY DEF TypeOK, Alarmed
<1>4. entry \notin {"absent", "retry", "error"} => runtime \in Ids
  BY DEF TypeOK
<1>5. QED
  BY <1>1, <1>2, <1>3, <1>4 DEF TypeOK

\* A call changes neither what anybody refers to nor any settings.
LEMMA CallKeeps ==
  ASSUME TypeOK, NEW i \in Ids, NEW outcome, NEW owner \in BOOLEAN,
         CallEnds(i, outcome, owner)
  PROVE  /\ blame' \in BOOLEAN /\ client' \in [Ids -> Client]
         /\ \A j \in Ids : j \in Referenced' => client'[j].version = client[j].version
<1> DEFINE r == client[i]
           kept == [r EXCEPT !.open = TRUE, !.owned = IF r.open THEN @ ELSE owner]
           served == [kept EXCEPT !.live = TRUE, !.lost = FALSE]
           broken == [r EXCEPT !.open = TRUE, !.owned = owner, !.live = FALSE, !.lost = ~CanLogin(r)]
<1>1. r \in Client
  BY EntryTypes
<1>2. kept \in Client /\ kept.version = r.version
  BY <1>1 DEF Client
<1>3. served \in Client /\ served.version = r.version
  BY <1>2 DEF Client
<1>4. broken \in Client /\ broken.version = r.version
  <2>1. (~CanLogin(r)) \in BOOLEAN
    OBVIOUS
  <2>2. QED
    BY <1>1, <2>1 DEF Client
<1>5. \/ client' = Heap([client EXCEPT ![i] = kept])
      \/ client' = Heap([client EXCEPT ![i] = served])
      \/ client' = Heap([client EXCEPT ![i] = broken])
  BY DEF CallEnds
<1>6. blame' \in BOOLEAN
  BY DEF CallEnds, TypeOK
<1> HIDE DEF kept, served, broken
<1>7. ASSUME NEW s \in Client, s.version = r.version PROVE Versions([client EXCEPT ![i] = s])
  BY <1>7 DEF Versions, TypeOK
<1>8. /\ Versions([client EXCEPT ![i] = kept]) /\ Versions([client EXCEPT ![i] = served])
      /\ Versions([client EXCEPT ![i] = broken])
  BY <1>2, <1>3, <1>4, <1>7
<1>9. QED
  BY <1>5, <1>6, <1>8, VersionsKept

LEMMA FailureKeeps ==
  ASSUME TypeOK, NEW outcome, NEW cs, Versions(cs), SetupFails(outcome, cs)
  PROVE  /\ entry' \in {"retry", "error"} /\ runtime' = NoClient
         /\ alarm' \in {"no", "due", "needless"} /\ blame' \in BOOLEAN
         /\ client' \in [Ids -> Client]
         /\ \A j \in Ids : j \in Referenced' => client'[j].version = client[j].version
<1>1. Versions(Detached(cs)) /\ client' = Heap(Detached(cs))
  BY SameVersions DEF SetupFails
<1>2. alarm' \in {"no", "due", "needless"}
  BY EntryTypes DEF SetupFails, TypeOK
<1>3. blame' \in BOOLEAN /\ entry' \in {"retry", "error"} /\ runtime' = NoClient
  BY DEF SetupFails
<1>4. QED
  BY <1>1, <1>2, <1>3, VersionsKept

\* A setup that makes a client of its own.
LEMMA LoginKeeps ==
  ASSUME EntryInv, NEW cs, Versions(cs), data.version # 0, UNCHANGED data,
         pending' = NoClient, flow' \in {flow, NoFlow},
         asking' \in Seq(Ids), Len(asking') <= MaxListeners,
         ToSet(asking') \subseteq ToSet(asking), SetupLogsIn(cs)
  PROVE  /\ runtime' \in Ids /\ entry' = "login" /\ client' \in [Ids -> Client]
         /\ AcceptedInv' /\ FlowInv'
<1>0. TypeOK
  BY DEF EntryInv
<1> DEFINE i == NewOf(Ids \ ({pending', flow'.client} \cup ToSet(asking')))
           new == [Unused EXCEPT !.version = data.version, !.secret = data.secret,
                                 !.open = TRUE, !.owned = TRUE]
<1>1. runtime' = i /\ entry' = "login" /\ client' = Heap([cs EXCEPT ![i] = new])
  BY DEF SetupLogsIn
<1>2. i \in Ids /\ i # flow'.client /\ i \notin ToSet(asking')
  BY Room
<1>3. new \in Client /\ new.version = data.version
  BY <1>0, EntryTypes, UnusedTyped DEF Client
<1> HIDE DEF i, new
<1>4. [cs EXCEPT ![i] = new] \in [Ids -> Client]
  BY <1>2, <1>3 DEF Versions
<1>5. /\ client' \in [Ids -> Client]
      /\ \A j \in Ids : j \in Referenced' => client'[j] = [cs EXCEPT ![i] = new][j]
  BY <1>1, <1>4, HeapKeeps
<1>6. /\ client'[i].version = data.version
      /\ \A j \in Ids \ {i} : j \in Referenced' => client'[j].version = client[j].version
  <2>1. i \in Referenced'
    BY <1>1 DEF Referenced
  <2>2. QED
    BY <1>2, <1>3, <1>5, <2>1 DEF Versions
<1>7. data.version \in 1 .. data.version
  <2>1. data.version \in Nat \ {0}
    BY <1>0, EntryTypes, Numbers
  <2>2. QED
    BY <2>1
<1>8. AcceptedInv'
  <2>1. \A j \in ToSet(asking') : client'[j].version \in 1 .. data.version
    BY <1>0, <1>2, <1>6, EntryTypes, Numbers DEF EntryInv, AcceptedInv, Used, Referenced
  <2>2. QED
    BY <1>1, <1>6, <1>7, <2>1 DEF AcceptedInv, Used
<1>9. FlowInv'
  <2>1. CASE flow' = NoFlow
    BY <2>1 DEF FlowInv, NoFlow
  <2>2. CASE flow' = flow
    <3>1. flow.client # NoClient => client'[flow.client].version = client[flow.client].version
      BY <1>0, <1>2, <1>6, <2>2 DEF TypeOK, Referenced
    <3>2. flow.client # NoClient => flow.client \notin Used'
      BY <1>1, <1>2, <2>2 DEF EntryInv, FlowInv, Used
    <3>3. QED
      BY <2>2, <3>1, <3>2 DEF EntryInv, FlowInv
  <2>3. QED
    BY <2>1, <2>2
<1>10. QED
  BY <1>1, <1>2, <1>5, <1>8, <1>9

\* async_setup_entry, with or without a hand-off.
LEMMA SetupKeeps ==
  ASSUME EntryInv, entry # "absent", NEW cs, Versions(cs), UNCHANGED data, SetupStarts(cs)
  PROVE  /\ runtime' \in Ids /\ pending' = NoClient /\ entry' \in {"login", "refresh"}
         /\ client' \in [Ids -> Client] /\ dirty' = FALSE /\ stale' \in BOOLEAN
         /\ UNCHANGED <<flow, asking>> /\ AcceptedInv' /\ FlowInv'
<1>1. TypeOK /\ data.version # 0
  BY DEF EntryInv, DataInv
<1>2. /\ pending' = NoClient /\ dirty' = FALSE /\ UNCHANGED <<flow, asking>>
      /\ stale' \in BOOLEAN
  BY <1>1 DEF SetupStarts, TypeOK
<1>3. CASE pending # NoClient /\ runtime' = pending /\ entry' = "refresh" /\ client' = Heap(cs)
  <2>1. /\ client' \in [Ids -> Client]
        /\ \A i \in Ids : i \in Referenced' => client'[i].version = client[i].version
    BY <1>3, VersionsKept
  <2>2. Used' \subseteq Used \cup {NoClient}
    BY <1>2, <1>3 DEF Used
  <2>3. AcceptedInv' /\ FlowInv'
    BY <1>2, <2>1, <2>2, Keeps
  <2>4. QED
    BY <1>1, <1>2, <1>3, <2>1, <2>3, EntryTypes
<1>4. CASE SetupLogsIn(cs)
  BY <1>1, <1>2, <1>4, LoginKeeps, EntryTypes
<1>5. QED
  BY <1>3, <1>4 DEF SetupStarts

-----------------------------------------------------------------------------
(* Setup, unload and reload.                                               *)

LEMMA LostKeeps ==
  ASSUME EntryInv, NEW i \in Ids, SessionLost(i) PROVE EntryInv'
<1> DEFINE s == [client[i] EXCEPT !.live = FALSE, !.lost = ~CanLogin(client[i])]
<1>1. /\ TypeOK /\ client' = [client EXCEPT ![i] = s] /\ blame' = TRUE
      /\ UNCHANGED <<entry, data, runtime, pending, flow, asking, reloads, dirty, alarm, crossed, stale>>
  BY DEF EntryInv, SessionLost
<1>2. s \in Client /\ s.version = client[i].version
  <2>1. client[i] \in Client /\ (~CanLogin(client[i])) \in BOOLEAN
    BY <1>1, EntryTypes
  <2>2. QED
    BY <2>1 DEF Client
<1> HIDE DEF s
<1>3. client' \in [Ids -> Client] /\ \A j \in Ids : client'[j].version = client[j].version
  BY <1>1, <1>2 DEF TypeOK
<1>4. AcceptedInv' /\ FlowInv'
  BY <1>1, <1>3, Keeps DEF Used
<1>5. TypeOK' /\ DataInv'
  BY <1>1, <1>3 DEF EntryInv, TypeOK, DataInv
<1>6. QED
  BY <1>4, <1>5 DEF EntryInv

\* A setup that fails leaves no client behind, and may be tried again.
LEMMA SetupEndsKeeps ==
  ASSUME EntryInv, entry # "absent", NEW outcome, NEW cs, Versions(cs), SetupFails(outcome, cs),
         UNCHANGED <<data, pending, flow, asking, reloads, dirty, crossed, stale>>
  PROVE  EntryInv'
<1>1. /\ TypeOK
      /\ entry' \in {"retry", "error"} /\ runtime' = NoClient
      /\ alarm' \in {"no", "due", "needless"} /\ blame' \in BOOLEAN
      /\ client' \in [Ids -> Client]
      /\ \A j \in Ids : j \in Referenced' => client'[j].version = client[j].version
  BY FailureKeeps DEF EntryInv
<1>2. Used' \subseteq Used \cup {NoClient}
  BY <1>1 DEF Used
<1>3. AcceptedInv' /\ FlowInv'
  BY <1>1, <1>2, Keeps
<1>4. TypeOK' /\ DataInv'
  BY <1>1 DEF EntryInv, TypeOK, DataInv
<1>5. QED
  BY <1>3, <1>4 DEF EntryInv

LEMMA ConnectKeeps ==
  ASSUME EntryInv, SetupConnects PROVE EntryInv'
<1>1. /\ TypeOK /\ entry = "login" /\ runtime \in Ids
      /\ UNCHANGED <<data, pending, flow, asking, reloads, dirty, crossed, stale>>
  BY EntryTypes DEF EntryInv, SetupConnects
<1>2. CASE /\ client' = [client EXCEPT ![runtime].live = TRUE]
           /\ entry' = "refresh" /\ UNCHANGED <<runtime, alarm, blame>>
  <2> DEFINE s == [client[runtime] EXCEPT !.live = TRUE]
  <2>1. s \in Client /\ s.version = client[runtime].version
    BY <1>1, EntryTypes DEF Client
  <2>2. client' = [client EXCEPT ![runtime] = s]
    BY <1>2
  <2> HIDE DEF s
  <2>3. client' \in [Ids -> Client] /\ \A j \in Ids : client'[j].version = client[j].version
    BY <1>1, <2>1, <2>2 DEF TypeOK
  <2>4. AcceptedInv' /\ FlowInv'
    BY <1>1, <1>2, <2>3, Keeps DEF Used
  <2>5. TypeOK' /\ DataInv'
    BY <1>1, <1>2, <2>3 DEF EntryInv, TypeOK, DataInv
  <2>6. QED
    BY <2>4, <2>5 DEF EntryInv
<1>3. ASSUME NEW outcome, SetupFails(outcome, [client EXCEPT ![runtime] = Closed(@)])
      PROVE  EntryInv'
  <2>1. Versions([client EXCEPT ![runtime] = Closed(@)])
    BY <1>1, SameVersions
  <2>2. QED
    BY <1>1, <1>3, <2>1, SetupEndsKeeps
<1>4. QED
  BY <1>2, <1>3 DEF SetupConnects

\* A call of the running client, in the setup or in a poll.
LEMMA RunningCallKeeps ==
  ASSUME EntryInv, entry \in {"refresh", "loaded"}, entry' = "loaded", NEW outcome,
         CallEnds(runtime, outcome, TRUE), alarm' \in {"no", "due", "needless"},
         UNCHANGED <<data, runtime, pending, flow, asking, reloads, dirty, crossed, stale>>
  PROVE  EntryInv'
<1>1. TypeOK /\ runtime \in Ids
  BY EntryTypes DEF EntryInv
<1>2. /\ blame' \in BOOLEAN /\ client' \in [Ids -> Client]
      /\ \A j \in Ids : j \in Referenced' => client'[j].version = client[j].version
  BY <1>1, CallKeeps
<1>3. AcceptedInv' /\ FlowInv'
  BY <1>2, Keeps DEF Used
<1>4. TypeOK' /\ DataInv'
  BY <1>1, <1>2 DEF EntryInv, TypeOK, DataInv
<1>5. QED
  BY <1>3, <1>4 DEF EntryInv

LEMMA RefreshKeeps ==
  ASSUME EntryInv, FirstRefresh PROVE EntryInv'
<1>1. TypeOK /\ Versions(client)
  BY SameVersions DEF EntryInv
<1>2. CASE UNCHANGED <<runtime, alarm>> /\ entry' = "loaded" /\ CallEnds(runtime, "ok", TRUE)
  BY <1>1, <1>2, RunningCallKeeps DEF FirstRefresh, TypeOK
<1>3. ASSUME NEW outcome, SetupFails(outcome, client) PROVE EntryInv'
  BY <1>1, <1>3, SetupEndsKeeps DEF FirstRefresh
<1>4. QED
  BY <1>2, <1>3 DEF FirstRefresh

LEMMA PollKeeps ==
  ASSUME EntryInv, Poll PROVE EntryInv'
<1>1. PICK outcome \in {"ok", "auth", "connection"} :
        /\ alarm' = IF outcome = "auth" THEN Alarmed(client[runtime]) ELSE alarm
        /\ CallEnds(runtime, outcome, TRUE)
  BY DEF Poll
<1>2. alarm' \in {"no", "due", "needless"}
  BY <1>1, EntryTypes DEF EntryInv, TypeOK
<1>3. QED
  BY <1>1, <1>2, RunningCallKeeps DEF Poll

LEMMA SetupStartKeeps ==
  ASSUME EntryInv, entry # "absent", NEW cs, Versions(cs), SetupStarts(cs),
         reloads' \in 0 .. MaxReloads, UNCHANGED <<data, alarm, blame, crossed>>
  PROVE  EntryInv'
<1>1. /\ runtime' \in Ids /\ pending' = NoClient /\ entry' \in {"login", "refresh"}
      /\ client' \in [Ids -> Client] /\ dirty' = FALSE /\ stale' \in BOOLEAN
      /\ UNCHANGED <<flow, asking>> /\ AcceptedInv' /\ FlowInv'
  BY SetupKeeps
<1>2. runtime' # NoClient
  BY <1>1, Numbers
<1>3. TypeOK' /\ DataInv'
  BY <1>1, <1>2 DEF EntryInv, TypeOK, DataInv
<1>4. QED
  BY <1>1, <1>3 DEF EntryInv

LEMMA RetryKeeps ==
  ASSUME EntryInv, RetrySetup PROVE EntryInv'
<1>1. Versions(client) /\ reloads \in 0 .. MaxReloads
  BY SameVersions DEF EntryInv, TypeOK
<1>2. QED
  BY <1>1, SetupStartKeeps DEF RetrySetup

LEMMA ReloadKeeps ==
  ASSUME EntryInv, StartReload PROVE EntryInv'
<1>1. /\ TypeOK /\ Versions(client) /\ reloads' \in 0 .. MaxReloads
      /\ UNCHANGED <<data, alarm, blame, crossed>>
  <2>1. reloads - 1 \in 0 .. MaxReloads
    BY Numbers DEF EntryInv, TypeOK, StartReload
  <2>2. QED
    BY <2>1, SameVersions DEF EntryInv, StartReload
<1>2. CASE /\ entry = "loaded" /\ entry' = "unloading"
           /\ UNCHANGED <<client, runtime, pending, flow, asking, dirty, stale>>
  <2>1. AcceptedInv' /\ FlowInv'
    BY <1>1, <1>2, Keeps DEF Used
  <2>2. TypeOK' /\ DataInv'
    BY <1>1, <1>2 DEF EntryInv, TypeOK, DataInv
  <2>3. QED
    BY <2>1, <2>2 DEF EntryInv
<1>3. CASE entry # "loaded" /\ SetupStarts(client)
  BY <1>1, <1>3, SetupStartKeeps DEF StartReload
<1>4. QED
  BY <1>2, <1>3 DEF StartReload

LEMMA UnloadKeeps ==
  ASSUME EntryInv, UnloadEnds PROVE EntryInv'
<1>1. TypeOK /\ runtime \in Ids /\ reloads \in 0 .. MaxReloads
  BY EntryTypes DEF EntryInv, UnloadEnds, TypeOK
<1>2. Versions(Detached(Unloaded))
  BY <1>1, SameVersions
<1>3. QED
  BY <1>1, <1>2, SetupStartKeeps DEF UnloadEnds

-----------------------------------------------------------------------------
(* Updates and the update listener.                                        *)

LEMMA NotifiedTypes ==
  ASSUME TypeOK, NEW changed \in BOOLEAN, Notified(changed)
  PROVE  /\ asking' \in Seq(Ids) /\ Len(asking') <= MaxListeners /\ dirty' \in BOOLEAN
         /\ \/ asking' = asking
            \/ entry \in {"loaded", "unloading"} /\ ToSet(asking') = ToSet(asking) \cup {runtime}
<1>1. CASE changed /\ entry \in {"loaded", "unloading"}
  <2>1. /\ runtime \in Ids /\ asking \in Seq(Ids) /\ Len(asking) < MaxListeners
        /\ asking' = Append(asking, runtime) /\ dirty' = TRUE
    BY <1>1, EntryTypes DEF Notified
  <2>2. asking' \in Seq(Ids) /\ Len(asking') = Len(asking) + 1 /\ Len(asking) \in Nat
    BY <2>1, AppendProperties, EntryTypes
  <2>3. ToSet(asking') = ToSet(asking) \cup {runtime}
    BY <2>1, AppendMembers
  <2>4. QED
    BY <1>1, <2>1, <2>2, <2>3, Numbers
<1>2. CASE ~(changed /\ entry \in {"loaded", "unloading"})
  BY <1>2 DEF Notified, TypeOK
<1>3. QED
  BY <1>1, <1>2

LEMMA OptionsKeep ==
  ASSUME EntryInv, OptionsChange PROVE EntryInv'
<1>1. /\ TypeOK
      /\ UNCHANGED <<entry, data, client, runtime, pending, flow, reloads, alarm, blame,
                     crossed, stale>>
  BY DEF EntryInv, OptionsChange
<1>2. /\ asking' \in Seq(Ids) /\ Len(asking') <= MaxListeners /\ dirty' \in BOOLEAN
      /\ ToSet(asking') \subseteq ToSet(asking) \cup {runtime}
  BY <1>1, NotifiedTypes DEF OptionsChange
<1>3. AcceptedInv' /\ FlowInv'
  BY <1>1, <1>2, Keeps DEF Used
<1>4. TypeOK' /\ DataInv'
  BY <1>1, <1>2 DEF EntryInv, TypeOK, DataInv
<1>5. QED
  BY <1>3, <1>4 DEF EntryInv

LEMMA ListenerKeeps ==
  ASSUME EntryInv, NEW k \in DOMAIN asking, ListenerEnds(k) PROVE EntryInv'
<1>1. /\ TypeOK /\ asking[k] \in Ids /\ asking[k] \in ToSet(asking) /\ k \in 1 .. Len(asking)
      /\ asking \in Seq(Ids) /\ Len(asking) \in Nat /\ Len(asking) <= MaxListeners
      /\ asking' = RemoveAt(asking, k)
      /\ crossed' \in BOOLEAN /\ stale' \in BOOLEAN
      /\ UNCHANGED <<entry, data, runtime, flow, dirty, alarm>>
  BY EntryTypes DEF EntryInv, ListenerEnds, TypeOK
<1>2. /\ asking' \in Seq(Ids) /\ Len(asking') = Len(asking) - 1
      /\ ToSet(asking') \subseteq ToSet(asking)
  BY <1>1, RemoveAtProperties, RemoveAtMembers
<1>3. reloads' \in 0 .. MaxReloads
  <2>1. reloads < MaxReloads => reloads + 1 \in 0 .. MaxReloads
    BY <1>1, Numbers DEF TypeOK
  <2>2. QED
    BY <1>1, <2>1 DEF ListenerEnds, TypeOK
<1>4. /\ pending' \in {pending, asking[k]}
      /\ \E outcome \in {"ok", "auth", "connection"} : CallEnds(asking[k], outcome, FALSE)
  BY DEF ListenerEnds
<1>5. /\ blame' \in BOOLEAN /\ client' \in [Ids -> Client]
      /\ \A j \in Ids : j \in Referenced' => client'[j].version = client[j].version
  BY <1>1, <1>4, CallKeeps
<1>6. AcceptedInv' /\ FlowInv'
  <2>1. Used' \subseteq Used \cup {NoClient}
    BY <1>1, <1>2, <1>4 DEF Used
  <2>2. QED
    BY <1>1, <1>5, <2>1, Keeps
<1>7. TypeOK' /\ DataInv'
  <2>1. pending' \in Ids \cup {NoClient} /\ Len(asking') <= MaxListeners
    BY <1>1, <1>2, <1>4, Numbers DEF TypeOK
  <2>2. QED
    BY <1>1, <1>2, <1>3, <1>5, <2>1 DEF EntryInv, TypeOK, DataInv
<1>8. QED
  BY <1>6, <1>7 DEF EntryInv

-----------------------------------------------------------------------------
(* The config flow.                                                        *)

\* A flow that ends without the entry: its client goes with it.
LEMMA FlowGone ==
  ASSUME EntryInv, NEW cs \in [Ids -> Client], client' = Heap(cs), flow' = NoFlow,
         \A j \in Used \ {NoClient} : cs[j].version = client[j].version,
         UNCHANGED <<entry, data, runtime, pending, asking, reloads, dirty, alarm, blame, crossed, stale>>
  PROVE  EntryInv'
<1>1. /\ client' \in [Ids -> Client]
      /\ \A j \in Ids : j \in Referenced' => client'[j] = cs[j]
  BY HeapKeeps
<1>2. Used' = Used /\ Referenced' \subseteq Used \cup {NoClient}
  BY DEF Used, Referenced, NoFlow
<1>3. \A j \in Ids : j \in Referenced' => client'[j].version = client[j].version
  BY <1>1, <1>2, Numbers
<1>4. AcceptedInv' /\ FlowInv'
  BY <1>2, <1>3, Keeps
<1>5. TypeOK' /\ DataInv'
  BY <1>1 DEF EntryInv, TypeOK, DataInv, NoFlow
<1>6. QED
  BY <1>4, <1>5 DEF EntryInv

LEMMA AbandonKeeps ==
  ASSUME EntryInv, FlowAbandoned PROVE EntryInv'
  BY FlowGone DEF FlowAbandoned, EntryInv, TypeOK

\* The client of a flow that may finish.
Submitted(i, r) ==
  /\ i \in Ids /\ i \notin Used /\ r \in Client
  /\ r.version \in {0, data.version, data.version + 1}

LEMMA FinishKeeps ==
  ASSUME EntryInv, NEW updates \in BOOLEAN, NEW i, NEW r, Submitted(i, r),
         FinishFlow(updates, i, r)
  PROVE  EntryInv'
<1>1. TypeOK /\ i \in Ids /\ i \notin Used /\ r \in Client /\ flow' = NoFlow /\ i # NoClient
  BY Numbers DEF EntryInv, Submitted, FinishFlow
<1>2. CASE ~MayFinish(updates, r) /\ FlowAborts(i, r)
  <2> DEFINE cs == [client EXCEPT ![i] = Closed(r)]
  <2>1. cs \in [Ids -> Client] /\ \A j \in Used \ {NoClient} : cs[j].version = client[j].version
    <3>1. Used \subseteq Ids \cup {NoClient}
      BY <1>1, EntryTypes DEF Used
    <3>2. QED
      BY <1>1, <3>1, ClosedTyped DEF TypeOK
  <2>2. client' = Heap(cs)
    BY <1>2 DEF FlowAborts
  <2> HIDE DEF cs
  <2>3. QED
    BY <1>1, <1>2, <2>1, <2>2, FlowGone DEF FlowAborts
<1>3. CASE MayFinish(updates, r)
  <2> DEFINE cs == [client EXCEPT ![i] = r]
  <2>1. /\ data' = NewData(r) /\ alarm' = "no" /\ {blame', crossed', stale'} \subseteq BOOLEAN
        /\ client' = Heap(cs)
        /\ \/ /\ entry = "absent" /\ pending' = NoClient /\ runtime' = i /\ entry' = "refresh"
              /\ UNCHANGED reloads
           \/ /\ entry # "absent" /\ reloads < MaxReloads /\ pending' = i
              /\ reloads' = reloads + 1 /\ UNCHANGED <<runtime, entry>>
    BY <1>1, <1>3 DEF FinishFlow, TypeOK
  <2>2. /\ asking' \in Seq(Ids) /\ Len(asking') <= MaxListeners /\ dirty' \in BOOLEAN
        /\ \/ asking' = asking
           \/ entry \in {"loaded", "unloading"} /\ ToSet(asking') = ToSet(asking) \cup {runtime}
    <3>1. Notified(data' # data)
      BY <1>3 DEF FinishFlow
    <3>2. (data' # data) \in BOOLEAN
      OBVIOUS
    <3>3. \E changed \in BOOLEAN : Notified(changed)
      BY <3>1, <3>2
    <3>4. QED
      BY <1>1, <3>3, NotifiedTypes
  <2>3. cs \in [Ids -> Client] /\ cs[i] = r /\ \A j \in Ids \ {i} : cs[j] = client[j]
    BY <1>1 DEF TypeOK
  <2> HIDE DEF cs
  <2>4. /\ client' \in [Ids -> Client]
        /\ \A j \in Ids : j \in Referenced' => client'[j] = cs[j]
    BY <2>1, <2>3, HeapKeeps
  <2>5. data'.version = r.version /\ data'.secret = r.secret /\ data' \in [version : Settings, secret : BOOLEAN]
    BY <1>1, <2>1 DEF NewData, Client
  <2>6. r.version # 0 /\ r.version \in Nat /\ data.version \in Nat /\ data.version <= r.version
    <3>1. r.version \in Nat /\ data.version \in Nat
      BY <1>1, EntryTypes, Numbers DEF Client
    <3>2. QED
      BY <1>3, <3>1 DEF MayFinish, Submitted
  <2>7. Used' \subseteq Used \cup {i, NoClient} /\ Used \subseteq Ids \cup {NoClient}
    BY <1>1, <2>1, <2>2, EntryTypes DEF Used
  <2>8. AcceptedInv'
    <3>1. ASSUME NEW j \in Used' \ {NoClient} PROVE client'[j].version \in 1 .. data'.version
      <4>1. j \in Ids /\ client'[j] = cs[j]
        <5>1. Used' \subseteq Referenced' /\ j \in Ids
          BY <1>1, <2>7 DEF Used, Referenced
        <5>2. QED
          BY <2>4, <5>1
      <4>2. CASE j = i
        <5>1. r.version \in 1 .. r.version
          BY <2>6
        <5>2. QED
          BY <2>3, <2>5, <4>1, <4>2, <5>1
      <4>3. CASE j # i
        <5>1. client[j].version \in 1 .. data.version
          BY <2>7, <4>3 DEF EntryInv, AcceptedInv
        <5>2. client[j].version \in 1 .. r.version
          BY <2>6, <5>1
        <5>3. QED
          BY <2>3, <2>5, <4>1, <4>3, <5>2
      <4>4. QED
        BY <4>2, <4>3
    <3>2. QED
      BY <3>1 DEF AcceptedInv
  <2>9. FlowInv'
    BY <1>1 DEF FlowInv, NoFlow
  <2>10. DataInv'
    BY <2>1, <2>5, <2>6 DEF DataInv
  <2>11. reloads' \in 0 .. MaxReloads
    <3>1. reloads < MaxReloads => reloads + 1 \in 0 .. MaxReloads
      BY <1>1, Numbers DEF TypeOK
    <3>2. QED
      BY <1>1, <2>1, <3>1 DEF TypeOK
  <2>12. TypeOK'
    <3>1. /\ entry' \in {"absent", "login", "refresh", "loaded", "unloading", "retry", "error"}
          /\ {runtime', pending'} \subseteq Ids \cup {NoClient}
          /\ runtime' = NoClient <=> entry' \in {"absent", "retry", "error"}
      BY <1>1, <2>1 DEF TypeOK
    <3>2. flow' \in [updates : BOOLEAN, client : Ids \cup {NoClient}]
      BY <1>1 DEF NoFlow
    <3>3. QED
      BY <2>1, <2>2, <2>4, <2>5, <2>11, <3>1, <3>2 DEF TypeOK
  <2>13. QED
    BY <2>8, <2>9, <2>10, <2>12 DEF EntryInv
<1>4. QED
  BY <1>2, <1>3 DEF FinishFlow

LEMMA FormKeeps ==
  ASSUME EntryInv, NEW updates \in BOOLEAN, NEW version \in Settings,
         SubmitForm(updates, version)
  PROVE  EntryInv'
<1> DEFINE r == [Unused EXCEPT !.version = version, !.open = TRUE, !.live = ~TwoFactor]
           i == NewOf(FreeIds)
<1>1. TypeOK /\ FreeIds # {} /\ version \in {0, data.version, data.version + 1}
  BY DEF EntryInv, SubmitForm
<1>2. i \in Ids /\ i \notin Referenced /\ i # NoClient
  BY <1>1, Numbers DEF NewOf, FreeIds
<1>3. r \in Client /\ r.version = version
  <2>1. (~TwoFactor) \in BOOLEAN
    OBVIOUS
  <2>2. QED
    BY <2>1, UnusedTyped DEF Client
<1>4. CASE ~TwoFactor /\ FinishFlow(updates, i, r)
  <2>1. Submitted(i, r)
    BY <1>1, <1>2, <1>3 DEF Submitted, Referenced, Used
  <2> HIDE DEF i, r
  <2>2. QED
    BY <1>4, <2>1, FinishKeeps
<1>5. CASE /\ flow' = [updates |-> updates, client |-> i]
           /\ UNCHANGED <<entry, data, runtime, pending, asking, reloads, dirty, alarm, blame, crossed, stale>>
           /\ client' = Heap([client EXCEPT ![i] = r])
  <2> HIDE DEF i, r
  <2>1. [client EXCEPT ![i] = r] \in [Ids -> Client]
    BY <1>1, <1>3 DEF TypeOK
  <2>2. /\ client' \in [Ids -> Client]
        /\ \A j \in Ids : j \in Referenced' => client'[j] = [client EXCEPT ![i] = r][j]
    BY <1>5, <2>1, HeapKeeps
  <2>3. /\ flow'.client = i /\ Used' = Used /\ i \notin Used /\ Used \subseteq Ids \cup {NoClient}
        /\ Used' \subseteq Referenced' /\ i \in Referenced'
    BY <1>1, <1>2, <1>5, EntryTypes DEF Used, Referenced
  <2>4. client'[i].version = version /\ \A j \in Used \ {NoClient} : client'[j] = client[j]
    BY <1>1, <1>2, <1>3, <2>2, <2>3 DEF TypeOK
  <2>5. AcceptedInv'
    BY <1>5, <2>3, <2>4 DEF EntryInv, AcceptedInv
  <2>6. FlowInv'
    BY <1>1, <1>2, <1>5, <2>3, <2>4 DEF FlowInv
  <2>7. TypeOK' /\ DataInv'
    BY <1>2, <1>5, <2>2 DEF EntryInv, TypeOK, DataInv
  <2>8. QED
    BY <2>5, <2>6, <2>7 DEF EntryInv
<1>6. QED
  BY <1>4, <1>5 DEF SubmitForm

LEMMA TotpKeeps ==
  ASSUME EntryInv, NEW entered \in BOOLEAN, SubmitTotp(entered) PROVE EntryInv'
<1> DEFINE i == flow.client
           r == [client[i] EXCEPT !.live = TRUE, !.secret = StoredSecret(entered)]
<1>1. TypeOK /\ flow # NoFlow /\ FinishFlow(flow.updates, i, r)
  BY DEF EntryInv, SubmitTotp
<1>2. i \in Ids /\ i \notin Used /\ flow.updates \in BOOLEAN
  <2>1. flow \in [updates : BOOLEAN, client : Ids \cup {NoClient}]
    BY <1>1 DEF TypeOK
  <2>2. i # NoClient
    BY <1>1, <2>1 DEF EntryInv, FlowInv, NoFlow
  <2>3. QED
    BY <2>1, <2>2 DEF EntryInv, FlowInv
<1>3. r \in Client /\ r.version = client[i].version
  <2>1. StoredSecret(entered) \in BOOLEAN
    BY <1>1, <1>2, EntryTypes DEF StoredSecret
  <2>2. client[i] \in Client
    BY <1>1, <1>2, EntryTypes
  <2>3. QED
    BY <2>1, <2>2 DEF Client
<1>4. Submitted(i, r)
  BY <1>2, <1>3, Numbers DEF Submitted, EntryInv, FlowInv
<1> HIDE DEF i, r
<1>5. QED
  BY <1>1, <1>2, <1>4, FinishKeeps

-----------------------------------------------------------------------------
(* The user and Home Assistant.                                            *)

LEMMA AskKeeps ==
  ASSUME EntryInv, AskForReload PROVE EntryInv'
<1>1. reloads' \in 0 .. MaxReloads
  <2>1. reloads + 1 \in 0 .. MaxReloads
    BY Numbers DEF EntryInv, TypeOK, AskForReload
  <2>2. QED
    BY <2>1 DEF AskForReload
<1>2. UNCHANGED <<entry, data, client, runtime, pending, flow, asking, dirty, alarm, crossed, stale>> /\ blame' = TRUE
  BY DEF AskForReload
<1>3. AcceptedInv' /\ FlowInv'
  BY <1>2, Keeps DEF Used
<1>4. TypeOK' /\ DataInv'
  BY <1>1, <1>2 DEF EntryInv, TypeOK, DataInv
<1>5. QED
  BY <1>3, <1>4 DEF EntryInv

LEMMA RemoveKeeps ==
  ASSUME EntryInv, RemoveEntry PROVE EntryInv'
<1>1. /\ TypeOK /\ entry' = "absent" /\ data' = [data EXCEPT !.secret = FALSE]
      /\ runtime' = NoClient /\ flow' \in {flow, NoFlow}
      /\ reloads' = 0 /\ dirty' = FALSE /\ alarm' = "no"
      /\ UNCHANGED <<pending, asking, blame, crossed, stale>>
  BY DEF EntryInv, RemoveEntry
<1>2. /\ client' \in [Ids -> Client]
      /\ \A i \in Ids : i \in Referenced' => client'[i].version = client[i].version
  <2>1. entry = "loaded" => runtime \in Ids
    BY <1>1, EntryTypes
  <2>2. Versions(IF entry = "loaded" THEN Unloaded ELSE client)
    BY <1>1, <2>1, SameVersions
  <2>3. Versions(Detached(IF entry = "loaded" THEN Unloaded ELSE client))
    BY <1>1, <2>2, SameVersions
  <2>4. QED
    BY <2>3, VersionsKept DEF RemoveEntry
<1>3. data' \in [version : Settings, secret : BOOLEAN] /\ data'.version = data.version /\ ~data'.secret
  BY <1>1 DEF TypeOK
<1>4. Used' \subseteq Used \cup {NoClient} /\ Used \subseteq Ids \cup {NoClient}
  BY <1>1, EntryTypes DEF Used
<1>5. AcceptedInv'
  BY <1>2, <1>3, <1>4 DEF EntryInv, AcceptedInv, Used, Referenced
<1>6. FlowInv'
  <2>1. CASE flow' = NoFlow
    BY <2>1 DEF FlowInv, NoFlow
  <2>2. CASE flow' = flow
    <3>1. flow.client \in Ids \cup {NoClient} /\ flow.client \in Referenced'
      BY <1>1, <2>2 DEF TypeOK, Referenced
    <3>2. QED
      BY <1>2, <1>3, <1>4, <2>2, <3>1 DEF EntryInv, FlowInv
  <2>3. QED
    BY <1>1, <2>1, <2>2
<1>7. TypeOK' /\ DataInv'
  <2>1. 0 \in 0 .. MaxReloads
    BY Numbers
  <2>2. flow' \in [updates : BOOLEAN, client : Ids \cup {NoClient}]
    <3>1. NoFlow \in [updates : BOOLEAN, client : Ids \cup {NoClient}]
      BY DEF NoFlow
    <3>2. flow \in [updates : BOOLEAN, client : Ids \cup {NoClient}]
      BY <1>1 DEF TypeOK
    <3>3. QED
      BY <1>1, <3>1, <3>2
  <2>3. QED
    BY <1>1, <1>2, <1>3, <2>1, <2>2 DEF EntryInv, TypeOK, DataInv
<1>8. QED
  BY <1>5, <1>6, <1>7 DEF EntryInv

LEMMA RestartKeeps ==
  ASSUME EntryInv, Restart PROVE EntryInv'
<1>1. /\ TypeOK /\ entry # "absent" /\ data.version # 0 /\ Versions(client)
      /\ pending' = NoClient /\ flow' = NoFlow /\ asking' = <<>> /\ reloads' = 0
      /\ dirty' = FALSE /\ alarm' = "no" /\ blame' = TRUE
      /\ crossed' = FALSE /\ stale' = FALSE
      /\ UNCHANGED data /\ SetupLogsIn(client)
  BY SameVersions DEF EntryInv, DataInv, Restart
<1>2. asking' \in Seq(Ids) /\ Len(asking') = 0 /\ Len(asking') <= MaxListeners /\ ToSet(asking') = {}
  BY <1>1, Numbers DEF ToSet
<1>3. /\ runtime' \in Ids /\ entry' = "login" /\ client' \in [Ids -> Client]
      /\ AcceptedInv' /\ FlowInv'
  BY <1>1, <1>2, LoginKeeps
<1>4. TypeOK' /\ DataInv'
  <2>1. runtime' # NoClient /\ 0 \in 0 .. MaxReloads
    BY <1>3, Numbers
  <2>2. QED
    BY <1>1, <1>2, <1>3, <2>1 DEF EntryInv, TypeOK, DataInv, NoFlow
<1>5. QED
  BY <1>3, <1>4 DEF EntryInv

-----------------------------------------------------------------------------
(* The theorems.                                                           *)

LEMMA InitEntryInv == Init => EntryInv
<1> SUFFICES ASSUME Init PROVE EntryInv
  OBVIOUS
<1>1. /\ entry = "absent" /\ data = [version |-> 0, secret |-> FALSE]
      /\ client = [i \in Ids |-> Unused] /\ runtime = NoClient /\ pending = NoClient
      /\ flow = NoFlow /\ asking = <<>> /\ reloads = 0
      /\ dirty = FALSE /\ alarm = "no" /\ blame = FALSE /\ crossed = FALSE /\ stale = FALSE
  BY DEF Init
<1>2. asking \in Seq(Ids) /\ Len(asking) = 0 /\ ToSet(asking) = {}
  BY <1>1 DEF ToSet
<1>3. TypeOK
  <2>1. 0 \in 0 .. MaxReloads /\ Len(asking) <= MaxListeners
    BY <1>2, Numbers
  <2>2. QED
    BY <1>1, <1>2, <2>1, UnusedTyped, Numbers DEF TypeOK, NoFlow
<1>4. AcceptedInv /\ FlowInv /\ DataInv
  BY <1>1, <1>2 DEF AcceptedInv, FlowInv, DataInv, Used, NoFlow
<1>5. QED
  BY <1>3, <1>4 DEF EntryInv

LEMMA NextKeeps == EntryInv /\ [Next]_vars => EntryInv'
<1> SUFFICES ASSUME EntryInv, [Next]_vars PROVE EntryInv'
  OBVIOUS
<1>1. CASE EntryTasks
  BY <1>1, ConnectKeeps, RefreshKeeps, RetryKeeps, ReloadKeeps, UnloadKeeps, ListenerKeeps
     DEF EntryTasks
<1>2. CASE Poll \/ (\E i \in Ids : SessionLost(i))
  BY <1>2, PollKeeps, LostKeeps
<1>3. CASE OptionsChange \/ AskForReload \/ RemoveEntry \/ Restart \/ FlowAbandoned
  BY <1>3, OptionsKeep, AskKeeps, RemoveKeeps, RestartKeeps, AbandonKeeps
<1>4. CASE \/ \E updates \in BOOLEAN, version \in Settings : SubmitForm(updates, version)
           \/ \E entered \in BOOLEAN : SubmitTotp(entered)
  BY <1>4, FormKeeps, TotpKeeps
<1>5. CASE UNCHANGED vars
  BY <1>5 DEF vars, EntryInv, TypeOK, AcceptedInv, FlowInv, DataInv, Used
<1>6. QED
  BY <1>1, <1>2, <1>3, <1>4, <1>5 DEF Next

LEMMA Invariance == Spec => []EntryInv
  BY InitEntryInv, NextKeeps, PTL DEF Spec

\* Every variable keeps its type; a client is there exactly while the entry is
\* set up, loaded or being unloaded (async_setup_entry, async_unload_entry).
THEOREM TypeCorrect == Spec => []TypeOK
<1>1. EntryInv => TypeOK
  BY DEF EntryInv
<1>2. QED
  BY Invariance, <1>1, PTL

\* The client that session_handoff holds logs in with settings that the entry
\* has accepted, whatever became of the flow or the listener that left it there.
THEOREM HandoffsAreAccepted == Spec => []HandoffIsAccepted
<1>1. EntryInv => HandoffIsAccepted
  BY DEF EntryInv, AcceptedInv, Used, HandoffIsAccepted
<1>2. QED
  BY Invariance, <1>1, PTL

\* Only the end of a flow and the removal of the entry write its data.
LEMMA DataWritten ==
  ASSUME EntryInv, Next, data' # data, entry' # "absent", TwoFactor
  PROVE  \E entered \in BOOLEAN : SubmitTotp(entered)
<1>1. ASSUME NEW updates \in BOOLEAN, NEW version \in Settings, SubmitForm(updates, version)
      PROVE  UNCHANGED data
  BY <1>1 DEF SubmitForm
<1>2. CASE EntryTasks
  BY <1>2 DEF EntryTasks, SetupConnects, FirstRefresh, RetrySetup, StartReload, UnloadEnds,
             ListenerEnds
<1>3. CASE Poll \/ (\E i \in Ids : SessionLost(i)) \/ OptionsChange \/ AskForReload
           \/ RemoveEntry \/ Restart \/ FlowAbandoned
  BY <1>3 DEF Poll, SessionLost, OptionsChange, AskForReload, RemoveEntry, Restart, FlowAbandoned
<1>4. QED
  BY <1>1, <1>2, <1>3 DEF Next

\* No flow that answers a challenge loses the TOTP secret that is stored:
\* _existing_totp_secret is used for every update of an entry that exists.
THEOREM SecretsAreKept == Spec => SecretIsKept
<1>1. EntryInv /\ [Next]_vars =>
        [TwoFactor /\ data.secret /\ entry' # "absent" => data'.secret]_vars
  <2> SUFFICES ASSUME EntryInv, Next, TwoFactor, data.secret, entry' # "absent", data' # data
               PROVE  data'.secret
    OBVIOUS
  <2>1. PICK entered \in BOOLEAN : SubmitTotp(entered)
    BY DataWritten
  <2> DEFINE r == [client[flow.client] EXCEPT !.live = TRUE, !.secret = StoredSecret(entered)]
  <2>2. MayFinish(flow.updates, r) /\ data' = NewData(r)
    BY <2>1 DEF SubmitTotp, FinishFlow, FlowAborts
  <2>3. flow.updates
    BY <2>2 DEF MayFinish, EntryInv, DataInv
  <2>4. StoredSecret(entered)
    BY <2>3 DEF StoredSecret
  <2>5. data'.secret = StoredSecret(entered)
    <3>1. flow.client \in Ids
      BY <2>3 DEF EntryInv, TypeOK, FlowInv
    <3>2. client[flow.client] \in Client
      BY <3>1, EntryTypes DEF EntryInv
    <3>3. r.secret = StoredSecret(entered)
      BY <3>2 DEF Client
    <3>4. QED
      BY <2>2, <3>3 DEF NewData
  <2>6. QED
    BY <2>4, <2>5
<1>2. QED
  BY <1>1, Invariance, PTL DEF Spec, SecretIsKept

-----------------------------------------------------------------------------
(* Which session and which settings come next.                             *)

\* A hand-off waits for a setup that has been asked for.
PendingInv == entry \notin {"absent", "unloading"} /\ pending # NoClient => reloads > 0

\* The next setup uses the newest settings, or else those that run now are the newest.
NewestInv ==
  ~stale /\ entry # "absent" =>
    IF pending # NoClient THEN client[pending].version = data.version
    ELSE runtime # NoClient => client[runtime].version = data.version

\* The session of a flow outlives any setup.
FreshInv == flow.client # NoClient => client[flow.client].open /\ ~client[flow.client].owned

\* A session that ended was ended by somebody, or the client can renew it.
Excused(r) == r.live \/ r.lost \/ CanLogin(r)

LoadedInv == entry = "loaded" => Excused(client[runtime])

\* A setup can go on with this client without anybody's help.
Reusable(r) == CanLogin(r) \/ (r.live /\ r.open /\ ~r.owned)

\* Nothing has happened since the last flow that excuses another login.
Calm == ~crossed /\ ~blame /\ alarm = "no" /\ entry # "absent"

Resting ==
  /\ pending = NoClient /\ reloads = 0 /\ entry \in {"refresh", "loaded"}
  /\ Reusable(client[runtime])
  /\ entry = "loaded" => client[runtime].live

Changing ==
  /\ pending # NoClient /\ Reusable(client[pending])
  /\ \/ entry = "unloading" /\ reloads = 0
     \/ entry \in {"loaded", "retry", "error"} /\ reloads = 1

CalmInv == Calm => Resting \/ Changing

ReuseInv ==
  PendingInv /\ NewestInv /\ FreshInv /\ LoadedInv /\ CalmInv /\ SessionsAreReused

\* The steps' common ground.
LEMMA ReuseTypes ==
  ASSUME EntryInv
  PROVE  /\ TypeOK /\ Used \subseteq Ids \cup {NoClient}
         /\ \A i \in Ids : client[i] \in Client
         /\ flow.client # NoClient => flow.client \in Ids /\ flow.client \notin Used
         /\ entry \notin {"absent", "retry", "error"} => runtime \in Ids
         /\ pending # NoClient => pending \in Ids
         /\ runtime \in Used /\ pending \in Used
         /\ reloads \in Nat
         /\ alarm \in {"no", "due", "needless"}
<1>1. TypeOK /\ FlowInv
  BY DEF EntryInv
<1>2. Used \subseteq Ids \cup {NoClient}
  BY <1>1, EntryTypes DEF Used
<1>3. flow.client # NoClient => flow.client \in Ids /\ flow.client \notin Used
  BY <1>1 DEF FlowInv, TypeOK
<1>4. reloads \in Nat
  BY <1>1, Numbers DEF TypeOK
<1>5. alarm \in {"no", "due", "needless"}
  BY <1>1 DEF TypeOK
<1>6. QED
  BY <1>1, <1>2, <1>3, <1>4, <1>5, EntryTypes DEF Used

\* What a call makes of its client.
LEMMA CallEffect ==
  ASSUME EntryInv, NEW i \in Ids, NEW outcome, NEW owner \in BOOLEAN,
         CallEnds(i, outcome, owner), i \in Referenced'
  PROVE  /\ \A j \in Ids \ {i} : j \in Referenced' => client'[j] = client[j]
         /\ client'[i].version = client[i].version
         /\ Excused(client[i]) => Excused(client'[i])
         /\ outcome \in {"ok", "auth"} =>
              /\ UNCHANGED blame
              /\ Reusable(client[i]) => Reusable(client'[i])
         /\ outcome = "ok" => client'[i].live
         /\ outcome = "auth" => ~client[i].live
         /\ outcome = "connection" => blame'
<1> DEFINE r == client[i]
           kept == [r EXCEPT !.open = TRUE, !.owned = IF r.open THEN @ ELSE owner]
           served == [kept EXCEPT !.live = TRUE, !.lost = FALSE]
           broken == [r EXCEPT !.open = TRUE, !.owned = owner, !.live = FALSE, !.lost = ~CanLogin(r)]
<1>1. r \in Client
  BY ReuseTypes
<1>2. /\ kept \in Client /\ kept.version = r.version /\ kept.secret = r.secret
      /\ kept.live = r.live /\ kept.lost = r.lost /\ kept.open
      /\ r.open => kept.owned = r.owned
  BY <1>1 DEF Client
<1>3. /\ served \in Client /\ served.version = r.version /\ served.secret = r.secret
      /\ served.live /\ served.open /\ served.owned = kept.owned
  <2> HIDE DEF kept
  <2>1. kept \in Client /\ kept.open
    BY <1>2
  <2>2. QED
    BY <1>2, <2>1 DEF Client
<1>4. /\ broken \in Client /\ broken.version = r.version /\ broken.secret = r.secret
      /\ broken.lost = ~CanLogin(r)
  <2>1. (~CanLogin(r)) \in BOOLEAN
    OBVIOUS
  <2>2. QED
    BY <1>1, <2>1 DEF Client
<1>5. ASSUME NEW s \in Client, client' = Heap([client EXCEPT ![i] = s])
      PROVE  client'[i] = s /\ \A j \in Ids \ {i} : j \in Referenced' => client'[j] = client[j]
  <2>1. client \in [Ids -> Client] /\ [client EXCEPT ![i] = s] \in [Ids -> Client]
    BY <1>5, ReuseTypes DEF TypeOK
  <2>2. QED
    BY <1>5, <2>1, HeapKeeps
<1>6. CASE outcome = "ok" /\ client' = Heap([client EXCEPT ![i] = served]) /\ UNCHANGED blame
  <2> HIDE DEF served, kept
  <2>1. client'[i] = served /\ \A j \in Ids \ {i} : j \in Referenced' => client'[j] = client[j]
    BY <1>3, <1>5, <1>6
  <2>2. QED
    BY <1>1, <1>2, <1>3, <1>6, <2>1 DEF Excused, Reusable, CanLogin
<1>7. CASE outcome = "auth" /\ client' = Heap([client EXCEPT ![i] = kept]) /\ UNCHANGED blame /\ ~r.live
  <2> HIDE DEF kept
  <2>1. client'[i] = kept /\ \A j \in Ids \ {i} : j \in Referenced' => client'[j] = client[j]
    BY <1>2, <1>5, <1>7
  <2>2. QED
    BY <1>1, <1>2, <1>7, <2>1 DEF Excused, Reusable, CanLogin
<1>8. CASE outcome = "connection" /\ client' = Heap([client EXCEPT ![i] = broken]) /\ blame' = TRUE
  <2> HIDE DEF broken
  <2>1. client'[i] = broken /\ \A j \in Ids \ {i} : j \in Referenced' => client'[j] = client[j]
    BY <1>4, <1>5, <1>8
  <2>2. QED
    BY <1>1, <1>4, <1>8, <2>1 DEF Excused, CanLogin
<1>9. QED
  BY <1>6, <1>7, <1>8 DEF CallEnds

\* The objects of a flow are nobody's before it ends.
Untouched(cs) == flow.client # NoClient => cs[flow.client] = client[flow.client]

LEMMA DetachUntouched ==
  ASSUME EntryInv, FreshInv, NEW cs \in [Ids -> Client], Untouched(cs)
  PROVE  Untouched(Detached(cs))
<1> SUFFICES ASSUME flow.client # NoClient PROVE Detached(cs)[flow.client] = client[flow.client]
  BY DEF Untouched
<1>1. flow.client \in Ids /\ cs[flow.client] = client[flow.client] /\ ~client[flow.client].owned
  BY ReuseTypes DEF FreshInv, Untouched
<1>2. QED
  BY <1>1 DEF Detached

LEMMA FreshKept ==
  ASSUME EntryInv, FreshInv, NEW cs \in [Ids -> Client], Untouched(cs), client' = Heap(cs),
         flow' \in {flow, NoFlow}
  PROVE  FreshInv'
<1>1. CASE flow' = NoFlow
  BY <1>1 DEF FreshInv, NoFlow
<1>2. CASE flow' = flow
  <2>1. flow.client # NoClient => flow.client \in Ids /\ flow.client \in Referenced'
    BY <1>2, ReuseTypes DEF Referenced
  <2>2. flow.client # NoClient => client'[flow.client] = client[flow.client]
    BY <2>1, HeapKeeps DEF Untouched
  <2>3. QED
    BY <1>2, <2>2 DEF FreshInv
<1>3. QED
  BY <1>1, <1>2

-----------------------------------------------------------------------------
(* Setup, unload and reload.                                               *)

LEMMA LostReuses ==
  ASSUME EntryInv, ReuseInv, NEW i \in Ids, SessionLost(i) PROVE ReuseInv'
<1> DEFINE s == [client[i] EXCEPT !.live = FALSE, !.lost = ~CanLogin(client[i])]
<1>1. /\ client' = [client EXCEPT ![i] = s] /\ blame' = TRUE /\ client[i] \in Client
      /\ UNCHANGED <<entry, data, runtime, pending, flow, asking, reloads, dirty, alarm, crossed, stale>>
  BY ReuseTypes DEF SessionLost
<1>2. /\ s.version = client[i].version /\ s.secret = client[i].secret /\ s.lost = ~CanLogin(client[i])
      /\ s.open = client[i].open /\ s.owned = client[i].owned
  BY <1>1 DEF Client
<1> HIDE DEF s
<1>3. /\ client'[i] = s /\ \A j \in Ids \ {i} : client'[j] = client[j]
      /\ \A j \in Ids : client'[j].version = client[j].version
      /\ \A j \in Ids : client'[j].open = client[j].open /\ client'[j].owned = client[j].owned
      /\ \A j \in Ids : Excused(client[j]) => Excused(client'[j])
  BY <1>1, <1>2, ReuseTypes DEF TypeOK, Excused, CanLogin
<1>4. NewestInv'
  BY <1>1, <1>3, ReuseTypes DEF ReuseInv, NewestInv
<1>5. FreshInv' /\ LoadedInv'
  BY <1>1, <1>3, ReuseTypes DEF ReuseInv, FreshInv, LoadedInv
<1>6. PendingInv' /\ CalmInv' /\ SessionsAreReused'
  BY <1>1 DEF ReuseInv, PendingInv, CalmInv, Calm, SessionsAreReused
<1>7. QED
  BY <1>4, <1>5, <1>6 DEF ReuseInv

\* A setup that fails: needlessly only if two reloads shared one hand-off.
LEMMA SetupEndsReuses ==
  ASSUME EntryInv, ReuseInv, entry \in {"login", "refresh"},
         NEW outcome \in {"auth", "connection"}, NEW cs, Versions(cs), Untouched(cs),
         SetupFails(outcome, cs), outcome = "auth" /\ entry = "refresh" => ~client[runtime].live,
         UNCHANGED <<data, pending, flow, asking, reloads, dirty, crossed, stale>>
  PROVE  ReuseInv'
<1>1. /\ entry' \in {"retry", "error"} /\ runtime' = NoClient /\ client' = Heap(Detached(cs))
      /\ \A i \in Ids : i \in Referenced' => client'[i].version = client[i].version
      /\ alarm' = IF outcome = "auth" THEN Alarmed(client[runtime]) ELSE alarm
      /\ blame' = (blame \/ outcome = "connection")
  BY FailureKeeps, ReuseTypes DEF SetupFails
<1>2. NewestInv'
  <2>1. pending # NoClient => pending \in Ids /\ pending \in Referenced'
    BY ReuseTypes DEF Referenced
  <2>2. QED
    BY <1>1, <2>1 DEF ReuseInv, NewestInv
<1>3. FreshInv'
  <2>1. Versions(Detached(cs)) /\ cs \in [Ids -> Client]
    BY ReuseTypes, SameVersions DEF Versions
  <2>2. QED
    BY <1>1, <2>1, DetachUntouched, FreshKept DEF ReuseInv, Versions
<1>4. PendingInv' /\ LoadedInv'
  BY <1>1 DEF ReuseInv, PendingInv, LoadedInv
<1>5. outcome = "auth" => alarm' # "no"
  BY <1>1 DEF Alarmed
<1>6. CalmInv'
  BY <1>1, <1>5 DEF CalmInv, Calm
<1>7. SessionsAreReused'
  <2>1. SUFFICES ASSUME alarm' = "needless", ~crossed, alarm # "needless" PROVE FALSE
    BY DEF ReuseInv, SessionsAreReused
  <2>2. /\ outcome = "auth" /\ alarm = "no" /\ ~blame
        /\ ~client[runtime].lost /\ ~CanLogin(client[runtime])
    BY <1>1, <2>1 DEF Alarmed
  <2>3. Resting
    BY <2>1, <2>2 DEF ReuseInv, CalmInv, Calm, Changing
  <2>4. QED
    BY <2>2, <2>3 DEF Resting, Reusable
<1>8. QED
  BY <1>2, <1>3, <1>4, <1>6, <1>7 DEF ReuseInv

LEMMA ConnectReuses ==
  ASSUME EntryInv, ReuseInv, SetupConnects PROVE ReuseInv'
<1>1. /\ entry = "login" /\ runtime \in Ids /\ runtime # flow.client
      /\ UNCHANGED <<data, pending, flow, asking, reloads, dirty, crossed, stale>>
  BY ReuseTypes, Numbers DEF SetupConnects
<1>2. CASE /\ client' = [client EXCEPT ![runtime].live = TRUE]
           /\ entry' = "refresh" /\ UNCHANGED <<runtime, alarm, blame>>
  <2>1. /\ \A j \in Ids \ {runtime} : client'[j] = client[j]
        /\ \A j \in Ids : client'[j].version = client[j].version
    BY <1>1, <1>2, ReuseTypes DEF TypeOK, Client
  <2>2. NewestInv'
    BY <1>1, <1>2, <2>1, ReuseTypes DEF ReuseInv, NewestInv
  <2>3. FreshInv'
    BY <1>1, <2>1, ReuseTypes DEF ReuseInv, FreshInv
  <2>4. CalmInv'
    BY <1>1, <1>2 DEF ReuseInv, CalmInv, Calm, Resting, Changing
  <2>5. PendingInv' /\ LoadedInv' /\ SessionsAreReused'
    BY <1>1, <1>2 DEF ReuseInv, PendingInv, LoadedInv, SessionsAreReused
  <2>6. QED
    BY <2>2, <2>3, <2>4, <2>5 DEF ReuseInv
<1>3. ASSUME NEW outcome \in {"auth", "connection"},
             SetupFails(outcome, [client EXCEPT ![runtime] = Closed(@)])
      PROVE  ReuseInv'
  <2>1. Versions([client EXCEPT ![runtime] = Closed(@)])
    BY <1>1, SameVersions, ReuseTypes
  <2>2. Untouched([client EXCEPT ![runtime] = Closed(@)])
    BY <1>1, ReuseTypes DEF Untouched, TypeOK
  <2>3. QED
    BY <1>1, <1>3, <2>1, <2>2, SetupEndsReuses
<1>4. QED
  BY <1>2, <1>3 DEF SetupConnects

\* A call of the running client, in the setup or in a poll.
LEMMA RunningCallReuses ==
  ASSUME EntryInv, ReuseInv, entry \in {"refresh", "loaded"}, entry' = "loaded",
         NEW outcome \in {"ok", "auth", "connection"}, entry = "refresh" => outcome = "ok",
         CallEnds(runtime, outcome, TRUE),
         alarm' = IF outcome = "auth" THEN Alarmed(client[runtime]) ELSE alarm,
         UNCHANGED <<data, runtime, pending, flow, asking, reloads, dirty, crossed, stale>>
  PROVE  ReuseInv'
<1>1. runtime \in Ids /\ runtime \in Referenced' /\ runtime # NoClient
  BY ReuseTypes, Numbers DEF Referenced
<1>2. /\ \A j \in Ids \ {runtime} : j \in Referenced' => client'[j] = client[j]
      /\ client'[runtime].version = client[runtime].version
      /\ Excused(client[runtime]) => Excused(client'[runtime])
      /\ outcome \in {"ok", "auth"} =>
           /\ UNCHANGED blame
           /\ Reusable(client[runtime]) => Reusable(client'[runtime])
      /\ outcome = "ok" => client'[runtime].live
      /\ outcome = "auth" => ~client[runtime].live
      /\ outcome = "connection" => blame'
  BY <1>1, CallEffect
<1>3. NewestInv'
  <2>1. pending # NoClient => pending \in Ids /\ pending \in Referenced'
    BY ReuseTypes DEF Referenced
  <2>2. QED
    BY <1>1, <1>2, <2>1 DEF ReuseInv, NewestInv
<1>4. FreshInv'
  BY <1>1, <1>2, ReuseTypes DEF ReuseInv, FreshInv, Referenced
<1>5. LoadedInv'
  <2>1. CASE outcome = "ok"
    BY <1>2, <2>1 DEF LoadedInv, Excused
  <2>2. CASE entry = "loaded"
    BY <1>2, <2>2 DEF ReuseInv, LoadedInv
  <2>3. QED
    BY <2>1, <2>2
<1>6. PendingInv'
  BY DEF ReuseInv, PendingInv
<1>7. SessionsAreReused'
  <2>1. CASE outcome = "auth"
    <3>1. entry = "loaded" /\ (client[runtime].lost \/ CanLogin(client[runtime]))
      BY <1>2, <2>1 DEF ReuseInv, LoadedInv, Excused
    <3>2. QED
      BY <2>1, <3>1 DEF ReuseInv, SessionsAreReused, Alarmed
  <2>2. CASE outcome # "auth"
    BY <2>2 DEF ReuseInv, SessionsAreReused
  <2>3. QED
    BY <2>1, <2>2
<1>8. CalmInv'
  <2>1. SUFFICES ASSUME Calm' PROVE Resting' \/ Changing'
    BY DEF CalmInv
  <2>2. outcome = "ok" /\ Calm
    BY <1>2, <2>1 DEF Calm, Alarmed
  <2>3. CASE Resting
    BY <1>2, <2>2, <2>3 DEF Resting
  <2>4. CASE Changing
    <3>1. pending \in Ids /\ pending \in Referenced'
      BY <2>4, ReuseTypes DEF Changing, Referenced
    <3>2. Reusable(client'[pending]) /\ entry = "loaded"
      BY <1>2, <2>2, <2>4, <3>1 DEF Changing
    <3>3. QED
      BY <2>4, <3>2 DEF Changing
  <2>5. QED
    BY <2>2, <2>3, <2>4 DEF ReuseInv, CalmInv
<1>9. QED
  BY <1>3, <1>4, <1>5, <1>6, <1>7, <1>8 DEF ReuseInv

LEMMA RefreshReuses ==
  ASSUME EntryInv, ReuseInv, FirstRefresh PROVE ReuseInv'
<1>1. /\ entry = "refresh"
      /\ UNCHANGED <<data, pending, flow, asking, reloads, dirty, crossed, stale>>
      /\ Versions(client) /\ Untouched(client)
  BY ReuseTypes, SameVersions DEF FirstRefresh, Untouched
<1>2. CASE UNCHANGED <<runtime, alarm>> /\ entry' = "loaded" /\ CallEnds(runtime, "ok", TRUE)
  BY <1>1, <1>2, RunningCallReuses
<1>3. CASE ~client[runtime].live /\ SetupFails("auth", client)
  BY <1>1, <1>3, SetupEndsReuses
<1>4. CASE SetupFails("connection", client)
  BY <1>1, <1>4, SetupEndsReuses
<1>5. QED
  BY <1>2, <1>3, <1>4 DEF FirstRefresh

LEMMA PollReuses ==
  ASSUME EntryInv, ReuseInv, Poll PROVE ReuseInv'
<1>1. PICK outcome \in {"ok", "auth", "connection"} :
        /\ alarm' = IF outcome = "auth" THEN Alarmed(client[runtime]) ELSE alarm
        /\ CallEnds(runtime, outcome, TRUE)
  BY DEF Poll
<1>2. QED
  BY <1>1, RunningCallReuses DEF Poll

\* The client that a setup makes has the stored settings.
LEMMA LoginIsNewest ==
  ASSUME EntryInv, NEW cs \in [Ids -> Client], UNCHANGED data, SetupLogsIn(cs),
         asking' \in Seq(Ids), Len(asking') <= MaxListeners, pending' = NoClient
  PROVE  /\ client'[runtime'].version = data.version
         /\ runtime' # flow'.client /\ entry' = "login"
         /\ \E fs \in [Ids -> Client] :
              /\ client' = Heap(fs)
              /\ \A j \in Ids \ {runtime'} : fs[j] = cs[j]
<1> DEFINE i == NewOf(Ids \ ({pending', flow'.client} \cup ToSet(asking')))
           new == [Unused EXCEPT !.version = data.version, !.secret = data.secret,
                                 !.open = TRUE, !.owned = TRUE]
           fs == [cs EXCEPT ![i] = new]
<1>1. runtime' = i /\ entry' = "login" /\ client' = Heap(fs)
  BY DEF SetupLogsIn
<1>2. i \in Ids /\ i # flow'.client
  BY Room
<1>3. new \in Client /\ new.version = data.version
  BY ReuseTypes, EntryTypes, UnusedTyped DEF Client
<1> HIDE DEF i, new
<1>4. fs \in [Ids -> Client] /\ fs[i] = new /\ \A j \in Ids \ {i} : fs[j] = cs[j]
  BY <1>2, <1>3
<1> HIDE DEF fs
<1>5. i \in Referenced'
  BY <1>1 DEF Referenced
<1>6. client'[i] = new
  BY <1>1, <1>2, <1>4, <1>5, HeapKeeps
<1>7. QED
  BY <1>1, <1>2, <1>3, <1>4, <1>6

\* async_setup_entry: the hand-off is taken, or nothing was promised.
LEMMA SetupReuses ==
  ASSUME EntryInv, ReuseInv, entry \in {"unloading", "retry", "error"},
         NEW cs, Versions(cs), Untouched(cs), SetupStarts(cs),
         pending # NoClient /\ Reusable(client[pending]) => Reusable(cs[pending]),
         entry = "unloading" => reloads' = reloads,
         entry # "unloading" => reloads' = reloads - 1 \/ (reloads = 0 /\ reloads' = 0),
         UNCHANGED <<data, alarm, blame, crossed>>
  PROVE  ReuseInv'
<1>1. /\ pending' = NoClient /\ UNCHANGED <<flow, asking>> /\ cs \in [Ids -> Client]
      /\ entry' \in {"login", "refresh"}
      /\ asking \in Seq(Ids) /\ Len(asking) <= MaxListeners
  BY ReuseTypes, EntryTypes DEF SetupStarts, SetupLogsIn, Versions
<1>2. /\ FreshInv'
      /\ ~stale' => client'[runtime'].version = data.version
      /\ pending # NoClient /\ Reusable(client[pending]) =>
           entry' = "refresh" /\ Reusable(client'[runtime'])
  <2>1. CASE /\ pending # NoClient /\ runtime' = pending /\ entry' = "refresh"
             /\ client' = Heap(cs) /\ UNCHANGED stale
    <3>1. runtime' \in Ids /\ runtime' \in Referenced'
      BY <2>1, ReuseTypes DEF Referenced
    <3>2. \A i \in Ids : i \in Referenced' => client'[i] = cs[i]
      BY <1>1, <2>1, HeapKeeps
    <3>3. ~stale' => client[pending].version = data.version
      BY <2>1 DEF ReuseInv, NewestInv
    <3>4. FreshInv'
      BY <1>1, <2>1, FreshKept DEF ReuseInv
    <3>5. client'[runtime'] = cs[pending] /\ cs[pending].version = client[pending].version
      BY <2>1, <3>1, <3>2 DEF Versions
    <3>6. QED
      BY <2>1, <3>3, <3>4, <3>5
  <2>2. CASE pending = NoClient /\ SetupLogsIn(cs)
    <3>1. /\ client'[runtime'].version = data.version /\ runtime' # flow'.client
          /\ \E fs \in [Ids -> Client] :
               client' = Heap(fs) /\ \A j \in Ids \ {runtime'} : fs[j] = cs[j]
      BY <1>1, <2>2, LoginIsNewest
    <3>2. PICK fs \in [Ids -> Client] :
            client' = Heap(fs) /\ \A j \in Ids \ {runtime'} : fs[j] = cs[j]
      BY <3>1
    <3>3. Untouched(fs)
      BY <1>1, <3>1, <3>2, ReuseTypes DEF Untouched
    <3>4. FreshInv'
      BY <1>1, <3>2, <3>3, FreshKept DEF ReuseInv
    <3>5. QED
      BY <2>2, <3>1, <3>4
  <2>3. QED
    BY <2>1, <2>2 DEF SetupStarts
<1>3. NewestInv'
  BY <1>1, <1>2 DEF NewestInv
<1>4. PendingInv' /\ LoadedInv' /\ SessionsAreReused'
  BY <1>1 DEF ReuseInv, PendingInv, LoadedInv, SessionsAreReused
<1>5. CalmInv'
  <2>1. SUFFICES ASSUME Calm' PROVE Resting'
    BY DEF CalmInv
  <2>2. Changing
    BY <2>1 DEF ReuseInv, CalmInv, Calm, Resting
  <2>3. reloads' = 0
    BY <2>2 DEF Changing
  <2>4. QED
    BY <1>1, <1>2, <2>2, <2>3 DEF Resting, Changing
<1>6. QED
  BY <1>2, <1>3, <1>4, <1>5 DEF ReuseInv

LEMMA RetryReuses ==
  ASSUME EntryInv, ReuseInv, RetrySetup PROVE ReuseInv'
<1>1. Versions(client) /\ Untouched(client)
  BY SameVersions, ReuseTypes DEF Untouched
<1>2. QED
  BY <1>1, SetupReuses DEF RetrySetup

LEMMA ReloadReuses ==
  ASSUME EntryInv, ReuseInv, StartReload PROVE ReuseInv'
<1>1. /\ Versions(client) /\ Untouched(client)
      /\ entry \in {"loaded", "retry", "error"} /\ reloads > 0
      /\ reloads' = reloads - 1
      /\ UNCHANGED <<data, alarm, blame, crossed>>
  BY SameVersions, ReuseTypes DEF Untouched, StartReload
<1>2. CASE /\ entry = "loaded" /\ entry' = "unloading"
           /\ UNCHANGED <<client, runtime, pending, flow, asking, dirty, stale>>
  <2>1. CalmInv'
    BY <1>1, <1>2 DEF ReuseInv, CalmInv, Calm, Resting, Changing
  <2>2. PendingInv' /\ NewestInv' /\ FreshInv' /\ LoadedInv' /\ SessionsAreReused'
    BY <1>1, <1>2 DEF ReuseInv, PendingInv, NewestInv, FreshInv, LoadedInv, SessionsAreReused
  <2>3. QED
    BY <2>1, <2>2 DEF ReuseInv
<1>3. CASE entry # "loaded" /\ SetupStarts(client)
  BY <1>1, <1>3, SetupReuses
<1>4. QED
  BY <1>2, <1>3 DEF StartReload

\* async_unload_entry keeps the session that waits for the setup, and Home
\* Assistant detaches only those that a setup could renew.
LEMMA UnloadReuses ==
  ASSUME EntryInv, ReuseInv, UnloadEnds PROVE ReuseInv'
<1>1. entry = "unloading" /\ runtime \in Ids /\ runtime # flow.client
  BY ReuseTypes, Numbers DEF UnloadEnds
<1>2. Versions(Unloaded) /\ Versions(Detached(Unloaded))
  BY <1>1, ReuseTypes, SameVersions
<1>3. Untouched(Detached(Unloaded))
  <2>1. Untouched(Unloaded)
    BY <1>1, ReuseTypes DEF Untouched, Unloaded, TypeOK
  <2>2. QED
    BY <1>2, <2>1, DetachUntouched DEF ReuseInv, Versions
<1>4. ASSUME pending # NoClient, Reusable(client[pending]) PROVE Reusable(Detached(Unloaded)[pending])
  <2>1. pending \in Ids /\ client[pending] \in Client /\ Unloaded[pending] = client[pending]
    BY <1>1, <1>4, ReuseTypes DEF Unloaded, TypeOK
  <2>2. CASE client[pending].owned
    <3>1. CanLogin(client[pending])
      BY <1>4, <2>2 DEF Reusable
    <3>2. CanLogin(Closed(client[pending]))
      BY <2>1, <3>1 DEF CanLogin, Closed, Client
    <3>3. QED
      BY <2>1, <2>2, <3>2 DEF Detached, Reusable
  <2>3. CASE ~client[pending].owned
    BY <1>4, <2>1, <2>3 DEF Detached
  <2>4. QED
    BY <2>2, <2>3
<1>5. QED
  BY <1>1, <1>2, <1>3, <1>4, SetupReuses DEF UnloadEnds

-----------------------------------------------------------------------------
(* Updates and the update listener.                                        *)

LEMMA OptionsReuse ==
  ASSUME EntryInv, ReuseInv, OptionsChange PROVE ReuseInv'
  BY DEF OptionsChange, ReuseInv, PendingInv, NewestInv, FreshInv, LoadedInv, CalmInv, Calm,
         Resting, Changing, SessionsAreReused

LEMMA ListenerReuses ==
  ASSUME EntryInv, ReuseInv, NEW k \in DOMAIN asking, ListenerEnds(k) PROVE ReuseInv'
<1> DEFINE i == asking[k]
<1>1. /\ i \in Ids /\ i \in ToSet(asking) /\ k \in 1 .. Len(asking)
      /\ asking \in Seq(Ids) /\ Len(asking) \in Nat
      /\ asking' = RemoveAt(asking, k)
      /\ reloads' = IF entry = "absent" THEN reloads ELSE reloads + 1
      /\ crossed' = (crossed \/ Crosses(k))
      /\ UNCHANGED <<entry, data, runtime, flow, dirty, alarm>>
  BY ReuseTypes, EntryTypes DEF ListenerEnds
<1>2. /\ asking' \in Seq(Ids) /\ Len(asking') = Len(asking) - 1
      /\ ToSet(asking') \subseteq ToSet(asking)
  BY <1>1, RemoveAtProperties, RemoveAtMembers
<1>3. PICK outcome \in {"ok", "auth", "connection"} :
        /\ CallEnds(i, outcome, FALSE)
        /\ IF outcome = "ok" THEN pending' = i /\ stale' = (client[i].version # data.version)
           ELSE UNCHANGED <<pending, stale>>
  BY DEF ListenerEnds
<1>4. i \in Used /\ i # NoClient
  BY <1>1, Numbers DEF Used
<1>5. i # flow.client
  BY <1>4, ReuseTypes, Numbers
<1> HIDE DEF i
<1>6. /\ i \in Referenced' => client'[i].version = client[i].version
      /\ \A j \in Ids \ {i} : j \in Referenced' => client'[j] = client[j]
      /\ \A j \in Ids : j \in Referenced' /\ Excused(client[j]) => Excused(client'[j])
      /\ outcome = "ok" /\ Reusable(client[i]) => Reusable(client'[i])
      /\ outcome = "auth" => ~client[i].live /\ UNCHANGED blame
      /\ outcome = "connection" => blame'
      /\ outcome = "ok" => UNCHANGED blame
  <2>1. CASE i \in Referenced'
    BY <1>1, <1>3, <2>1, CallEffect
  <2>2. CASE i \notin Referenced'
    <3>1. outcome # "ok"
      BY <1>3, <2>2 DEF Referenced
    <3>2. /\ outcome = "auth" => ~client[i].live /\ UNCHANGED blame
          /\ outcome = "connection" => blame'
      BY <1>3 DEF CallEnds
    <3>3. \E s : client' = Heap([client EXCEPT ![i] = s])
      BY <1>3 DEF CallEnds
    <3>4. \A j \in Ids \ {i} : j \in Referenced' => client'[j] = client[j]
      <4>1. PICK s : client' = Heap([client EXCEPT ![i] = s])
        BY <3>3
      <4>2. \A j \in Ids \ {i} : [client EXCEPT ![i] = s][j] = client[j]
        BY ReuseTypes DEF TypeOK
      <4>3. QED
        BY <4>1, <4>2 DEF Heap
    <3>5. QED
      BY <2>2, <3>1, <3>2, <3>4
  <2>3. QED
    BY <2>1, <2>2
<1>7. PendingInv'
  BY <1>1, ReuseTypes DEF PendingInv
<1>8. NewestInv'
  <2>1. \A j \in Ids : j \in Referenced' => client'[j].version = client[j].version
    BY <1>6
  <2>2. CASE outcome = "ok"
    <3>1. i \in Referenced' /\ pending' = i
      BY <1>3, <2>2 DEF Referenced
    <3>2. QED
      BY <1>1, <1>3, <1>4, <2>1, <2>2, <3>1 DEF NewestInv
  <2>3. CASE outcome # "ok"
    <3>1. /\ runtime # NoClient => runtime \in Ids /\ runtime \in Referenced'
          /\ pending # NoClient => pending \in Ids /\ pending \in Referenced'
      BY <1>1, <1>3, <2>3, ReuseTypes, EntryTypes DEF Referenced
    <3>2. QED
      BY <1>1, <1>3, <2>1, <2>3, <3>1 DEF ReuseInv, NewestInv
  <2>4. QED
    BY <2>2, <2>3
<1>9. FreshInv'
  BY <1>1, <1>5, <1>6, ReuseTypes DEF ReuseInv, FreshInv, Referenced
<1>10. LoadedInv'
  <2>1. entry = "loaded" => runtime \in Ids /\ runtime \in Referenced'
    BY <1>1, ReuseTypes DEF Referenced
  <2>2. QED
    BY <1>1, <1>6, <2>1 DEF ReuseInv, LoadedInv
<1>11. SessionsAreReused'
  BY <1>1 DEF ReuseInv, SessionsAreReused
<1>12. CalmInv'
  <2>1. SUFFICES ASSUME Calm' PROVE Changing'
    BY DEF CalmInv
  <2>2. Calm /\ ~Crosses(k)
    <3>1. ~crossed'
      BY <2>1 DEF Calm
    <3>2. ~crossed /\ ~Crosses(k)
      BY <1>1, <3>1, Zenon
    <3>3. QED
      BY <1>1, <1>6, <2>1, <3>2 DEF Calm
  <2>3. Resting /\ entry = "loaded" /\ i = runtime
    <3>1. reloads = 0 /\ ~Busy /\ i = runtime
      BY <2>2, ReuseTypes DEF Crosses, i
    <3>2. QED
      BY <2>2, <3>1 DEF ReuseInv, CalmInv, Resting, Changing, Busy
  <2>4. outcome = "ok"
    BY <1>1, <1>6, <2>1, <2>3 DEF Resting, Calm
  <2>5. Reusable(client'[i]) /\ reloads' = 1
    BY <1>1, <1>6, <2>3, <2>4 DEF Resting
  <2>6. QED
    BY <1>1, <1>3, <1>4, <2>3, <2>4, <2>5 DEF Changing
<1>13. QED
  BY <1>7, <1>8, <1>9, <1>10, <1>11, <1>12 DEF ReuseInv

-----------------------------------------------------------------------------
(* The config flow.                                                        *)

\* Steps that concern clients of a flow only.
LEMMA FlowReuses ==
  ASSUME EntryInv, ReuseInv, NEW cs \in [Ids -> Client], client' = Heap(cs),
         \A j \in Used \ {NoClient} : cs[j] = client[j], FreshInv',
         UNCHANGED <<entry, data, runtime, pending, asking, reloads, dirty, alarm, blame, crossed, stale>>
  PROVE  ReuseInv'
<1>1. Used \subseteq Ids \cup {NoClient} /\ Used \subseteq Referenced'
  BY ReuseTypes DEF Used, Referenced
<1>2. \A j \in Used \ {NoClient} : client'[j] = client[j]
  BY <1>1, HeapKeeps
<1>3. /\ runtime # NoClient => client'[runtime] = client[runtime]
      /\ pending # NoClient => client'[pending] = client[pending]
  BY <1>2 DEF Used
<1>4. NewestInv'
  BY <1>3 DEF ReuseInv, NewestInv
<1>5. LoadedInv' /\ CalmInv'
  <2>1. entry \in {"loaded", "refresh"} => runtime # NoClient
    BY ReuseTypes, Numbers
  <2>2. QED
    BY <1>3, <2>1 DEF ReuseInv, LoadedInv, CalmInv, Calm, Resting, Changing
<1>6. PendingInv' /\ SessionsAreReused'
  BY DEF ReuseInv, PendingInv, SessionsAreReused
<1>7. QED
  BY <1>4, <1>5, <1>6 DEF ReuseInv

LEMMA AbandonReuses ==
  ASSUME EntryInv, ReuseInv, FlowAbandoned PROVE ReuseInv'
<1>1. FreshInv'
  BY DEF FlowAbandoned, FreshInv, NoFlow
<1>2. QED
  BY <1>1, FlowReuses, ReuseTypes DEF FlowAbandoned, TypeOK

LEMMA FinishReuses ==
  ASSUME EntryInv, ReuseInv, NEW updates \in BOOLEAN, NEW i, NEW r, Submitted(i, r),
         Reusable(r), FinishFlow(updates, i, r)
  PROVE  ReuseInv'
<1>1. /\ i \in Ids /\ i \notin Used /\ r \in Client /\ flow' = NoFlow /\ i # NoClient
      /\ client \in [Ids -> Client]
  BY ReuseTypes, Numbers DEF Submitted, FinishFlow, TypeOK
<1>2. FreshInv'
  BY <1>1 DEF FreshInv, NoFlow
<1>3. CASE ~MayFinish(updates, r) /\ FlowAborts(i, r)
  <2>1. /\ [client EXCEPT ![i] = Closed(r)] \in [Ids -> Client]
        /\ \A j \in Used \ {NoClient} : [client EXCEPT ![i] = Closed(r)][j] = client[j]
    BY <1>1, ClosedTyped, ReuseTypes
  <2>2. QED
    BY <1>2, <1>3, <2>1, FlowReuses DEF FlowAborts
<1>4. CASE MayFinish(updates, r)
  <2>1. /\ data' = NewData(r) /\ alarm' = "no"
        /\ crossed' = (reloads > 0 \/ Busy)
        /\ client' = Heap([client EXCEPT ![i] = r])
        /\ \/ /\ entry = "absent" /\ pending' = NoClient /\ runtime' = i /\ entry' = "refresh"
              /\ UNCHANGED reloads
           \/ /\ entry # "absent" /\ pending' = i
              /\ reloads' = reloads + 1 /\ UNCHANGED <<runtime, entry>>
    BY <1>1, <1>4 DEF FinishFlow
  <2>2. /\ [client EXCEPT ![i] = r] \in [Ids -> Client] /\ [client EXCEPT ![i] = r][i] = r
        /\ \A j \in Ids \ {i} : [client EXCEPT ![i] = r][j] = client[j]
    BY <1>1
  <2>3. i \in Referenced'
    BY <2>1 DEF Referenced
  <2>4. client'[i] = r /\ \A j \in Ids \ {i} : j \in Referenced' => client'[j] = client[j]
    BY <1>1, <2>1, <2>2, <2>3, HeapKeeps
  <2>5. data'.version = r.version
    BY <2>1 DEF NewData
  <2>6. ~crossed' => reloads = 0 /\ ~Busy
    <3>1. ~crossed' => ~(reloads > 0) /\ ~Busy
      BY <2>1, Zenon
    <3>2. QED
      BY <3>1, ReuseTypes
  <2>7. PendingInv'
    BY <2>1, ReuseTypes DEF PendingInv
  <2>8. NewestInv'
    BY <1>1, <2>1, <2>4, <2>5 DEF NewestInv
  <2>9. LoadedInv'
    <3>1. SUFFICES ASSUME entry' = "loaded" PROVE Excused(client'[runtime'])
      BY DEF LoadedInv
    <3>2. entry = "loaded" /\ runtime' = runtime /\ runtime \in Ids /\ runtime # i
      BY <1>1, <2>1, <3>1, ReuseTypes
    <3>3. client'[runtime] = client[runtime]
      BY <2>4, <3>2 DEF Referenced
    <3>4. QED
      BY <3>2, <3>3 DEF ReuseInv, LoadedInv
  <2>10. CalmInv'
    <3>1. SUFFICES ASSUME Calm' PROVE Resting' \/ Changing'
      BY DEF CalmInv
    <3>2. reloads = 0 /\ ~Busy
      BY <2>6, <3>1 DEF Calm
    <3>3. CASE entry = "absent"
      BY <2>1, <2>4, <3>2, <3>3 DEF Resting
    <3>4. CASE entry # "absent"
      <4>1. entry \in {"loaded", "retry", "error"}
        BY <3>2, <3>4, ReuseTypes DEF TypeOK, Busy
      <4>2. QED
        BY <1>1, <2>1, <2>4, <3>2, <3>4, <4>1 DEF Changing
    <3>5. QED
      BY <3>3, <3>4
  <2>11. SessionsAreReused'
    BY <2>1 DEF SessionsAreReused
  <2>12. QED
    BY <1>2, <2>7, <2>8, <2>9, <2>10, <2>11 DEF ReuseInv
<1>5. QED
  BY <1>3, <1>4 DEF FinishFlow

LEMMA FormReuses ==
  ASSUME EntryInv, ReuseInv, NEW updates \in BOOLEAN, NEW version \in Settings,
         SubmitForm(updates, version)
  PROVE  ReuseInv'
<1> DEFINE r == [Unused EXCEPT !.version = version, !.open = TRUE, !.live = ~TwoFactor]
           i == NewOf(FreeIds)
<1>1. FreeIds # {} /\ version \in {0, data.version, data.version + 1}
  BY DEF SubmitForm
<1>2. i \in Ids /\ i \notin Referenced /\ i # NoClient /\ i \notin Used
  BY <1>1, Numbers DEF NewOf, FreeIds, Referenced, Used
<1>3. r \in Client /\ r.version = version /\ r.open = TRUE /\ r.owned = FALSE /\ r.live = ~TwoFactor
  <2>1. (~TwoFactor) \in BOOLEAN
    OBVIOUS
  <2>2. QED
    BY <2>1, UnusedTyped DEF Client, Unused
<1>4. CASE ~TwoFactor /\ FinishFlow(updates, i, r)
  <2>1. Submitted(i, r) /\ Reusable(r)
    BY <1>1, <1>2, <1>3, <1>4 DEF Submitted, Reusable, CanLogin
  <2> HIDE DEF i, r
  <2>2. QED
    BY <1>4, <2>1, FinishReuses
<1>5. CASE /\ flow' = [updates |-> updates, client |-> i]
           /\ UNCHANGED <<entry, data, runtime, pending, asking, reloads, dirty, alarm, blame, crossed, stale>>
           /\ client' = Heap([client EXCEPT ![i] = r])
  <2> HIDE DEF i, r
  <2>1. /\ [client EXCEPT ![i] = r] \in [Ids -> Client] /\ [client EXCEPT ![i] = r][i] = r
        /\ \A j \in Ids \ {i} : [client EXCEPT ![i] = r][j] = client[j]
    BY <1>2, <1>3, ReuseTypes DEF TypeOK
  <2>2. flow'.client = i /\ i \in Referenced'
    BY <1>5 DEF Referenced
  <2>3. client'[i] = r
    BY <1>2, <1>5, <2>1, <2>2, HeapKeeps
  <2>4. FreshInv'
    BY <1>3, <2>2, <2>3 DEF FreshInv
  <2>5. \A j \in Used \ {NoClient} : [client EXCEPT ![i] = r][j] = client[j]
    BY <1>2, <2>1, ReuseTypes
  <2>6. QED
    BY <1>5, <2>1, <2>4, <2>5, FlowReuses
<1>6. QED
  BY <1>4, <1>5 DEF SubmitForm

LEMMA TotpReuses ==
  ASSUME EntryInv, ReuseInv, NEW entered \in BOOLEAN, SubmitTotp(entered) PROVE ReuseInv'
<1> DEFINE i == flow.client
           r == [client[i] EXCEPT !.live = TRUE, !.secret = StoredSecret(entered)]
<1>1. TypeOK /\ flow # NoFlow /\ FinishFlow(flow.updates, i, r)
  BY ReuseTypes DEF SubmitTotp
<1>2. i \in Ids /\ i \notin Used /\ flow.updates \in BOOLEAN /\ i # NoClient
  <2>1. flow \in [updates : BOOLEAN, client : Ids \cup {NoClient}]
    BY <1>1 DEF TypeOK
  <2>2. i # NoClient
    BY <1>1, <2>1 DEF EntryInv, FlowInv, NoFlow
  <2>3. QED
    BY <2>1, <2>2, ReuseTypes
<1>3. /\ r \in Client /\ r.version = client[i].version
      /\ r.live = TRUE /\ r.open = client[i].open /\ r.owned = client[i].owned
  <2>1. StoredSecret(entered) \in BOOLEAN
    BY <1>1, <1>2, EntryTypes DEF StoredSecret
  <2>2. client[i] \in Client
    BY <1>1, <1>2, EntryTypes
  <2>3. QED
    BY <2>1, <2>2 DEF Client
<1>4. Submitted(i, r)
  BY <1>2, <1>3, Numbers DEF Submitted, EntryInv, FlowInv
<1>5. Reusable(r)
  BY <1>2, <1>3 DEF ReuseInv, FreshInv, Reusable
<1> HIDE DEF i, r
<1>6. QED
  BY <1>1, <1>2, <1>4, <1>5, FinishReuses

-----------------------------------------------------------------------------
(* The user and Home Assistant.                                            *)

LEMMA AskReuses ==
  ASSUME EntryInv, ReuseInv, AskForReload PROVE ReuseInv'
<1>1. /\ reloads' = reloads + 1 /\ blame' = TRUE
      /\ UNCHANGED <<entry, data, client, runtime, pending, flow, asking, dirty, alarm, crossed, stale>>
  BY DEF AskForReload
<1>2. QED
  BY <1>1, ReuseTypes DEF ReuseInv, PendingInv, NewestInv, FreshInv, LoadedInv, CalmInv,
                          Calm, SessionsAreReused

LEMMA RemoveReuses ==
  ASSUME EntryInv, ReuseInv, RemoveEntry PROVE ReuseInv'
<1> DEFINE cs == IF entry = "loaded" THEN Unloaded ELSE client
<1>1. entry' = "absent" /\ alarm' = "no" /\ flow' \in {flow, NoFlow} /\ client' = Heap(Detached(cs))
  BY DEF RemoveEntry
<1>2. entry = "loaded" => runtime \in Ids /\ runtime # flow.client
  BY ReuseTypes, Numbers
<1>3. Versions(cs) /\ Untouched(cs)
  BY <1>2, ReuseTypes, SameVersions DEF Untouched, Unloaded, TypeOK
<1> HIDE DEF cs
<1>4. Untouched(Detached(cs)) /\ Detached(cs) \in [Ids -> Client]
  BY <1>3, ReuseTypes, SameVersions, DetachUntouched DEF ReuseInv, Versions
<1>5. FreshInv'
  BY <1>1, <1>4, FreshKept DEF ReuseInv
<1>6. QED
  BY <1>1, <1>5 DEF ReuseInv, PendingInv, NewestInv, LoadedInv, CalmInv, Calm, SessionsAreReused

LEMMA RestartReuses ==
  ASSUME EntryInv, ReuseInv, Restart PROVE ReuseInv'
<1>1. /\ pending' = NoClient /\ flow' = NoFlow /\ asking' = <<>> /\ alarm' = "no" /\ blame' = TRUE
      /\ UNCHANGED data /\ SetupLogsIn(client)
  BY DEF Restart
<1>2. asking' \in Seq(Ids) /\ Len(asking') <= MaxListeners
  BY <1>1, Numbers
<1>3. client'[runtime'].version = data.version /\ entry' = "login"
  BY <1>1, <1>2, ReuseTypes, LoginIsNewest DEF TypeOK
<1>4. QED
  BY <1>1, <1>2, <1>3 DEF ReuseInv, PendingInv, NewestInv, FreshInv, LoadedInv, CalmInv, Calm,
                          SessionsAreReused, NoFlow

-----------------------------------------------------------------------------

LEMMA InitReuseInv == Init => ReuseInv
<1> SUFFICES ASSUME Init PROVE ReuseInv
  OBVIOUS
<1>1. entry = "absent" /\ pending = NoClient /\ flow = NoFlow /\ alarm = "no"
  BY DEF Init
<1>2. QED
  BY <1>1 DEF ReuseInv, PendingInv, NewestInv, FreshInv, LoadedInv, CalmInv, Calm,
              SessionsAreReused, NoFlow

LEMMA NextReuses == EntryInv /\ ReuseInv /\ [Next]_vars => ReuseInv'
<1> SUFFICES ASSUME EntryInv, ReuseInv, [Next]_vars PROVE ReuseInv'
  OBVIOUS
<1>1. CASE EntryTasks
  BY <1>1, ConnectReuses, RefreshReuses, RetryReuses, ReloadReuses, UnloadReuses, ListenerReuses
     DEF EntryTasks
<1>2. CASE Poll \/ (\E i \in Ids : SessionLost(i))
  BY <1>2, PollReuses, LostReuses
<1>3. CASE OptionsChange \/ AskForReload \/ RemoveEntry \/ Restart \/ FlowAbandoned
  BY <1>3, OptionsReuse, AskReuses, RemoveReuses, RestartReuses, AbandonReuses
<1>4. CASE \/ \E updates \in BOOLEAN, version \in Settings : SubmitForm(updates, version)
           \/ \E entered \in BOOLEAN : SubmitTotp(entered)
  BY <1>4, FormReuses, TotpReuses
<1>5. CASE UNCHANGED vars
  BY <1>5 DEF vars, ReuseInv, PendingInv, NewestInv, FreshInv, LoadedInv, CalmInv, Calm,
              Resting, Changing, SessionsAreReused
<1>6. QED
  BY <1>1, <1>2, <1>3, <1>4, <1>5 DEF Next

LEMMA ReuseInvariance == Spec => []ReuseInv
  BY InitReuseInv, NextReuses, Invariance, PTL DEF Spec

\* While no two reloads share one hand-off, nobody is asked for another login
\* unless the appliance, the network, a restart or a manual reload has cost the
\* session: setup, unload and listener hand it over (_async_update_listener,
\* async_unload_entry, async_setup_entry).
THEOREM SessionsReused == Spec => []SessionsAreReused
<1>1. ReuseInv => SessionsAreReused
  BY DEF ReuseInv
<1>2. QED
  BY ReuseInvariance, <1>1, PTL

\* A loaded entry without a reload ahead talks to the appliance with the settings
\* that were accepted last, or with those of a client that a listener handed over
\* after newer ones had been accepted, and in no other case.
THEOREM NewestRun == Spec => []NewestSettingsRun
<1>1. EntryInv /\ ReuseInv => NewestSettingsRun
  <2>1. SUFFICES ASSUME EntryInv, ReuseInv, entry = "loaded", reloads = 0, ~stale
                 PROVE  client[runtime].version = data.version
    BY DEF NewestSettingsRun
  <2>2. runtime # NoClient
    BY <2>1, ReuseTypes, Numbers
  <2>3. pending = NoClient
    BY <2>1 DEF ReuseInv, PendingInv
  <2>4. QED
    BY <2>1, <2>2, <2>3 DEF ReuseInv, NewestInv
<1>2. QED
  BY Invariance, ReuseInvariance, <1>1, PTL
=============================================================================
