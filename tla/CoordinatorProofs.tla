------------------------- MODULE CoordinatorProofs -------------------------
(***************************************************************************)
(* Theorems about Coordinator, for every plan of collections, every        *)
(* interval and every number of tolerated failures.                        *)
(***************************************************************************)
EXTENDS Coordinator, TLAPS

USE DEF environment, poll, caches, outcome, timing

-----------------------------------------------------------------------------
(* Type correctness.                                                       *)

\* The constant values that the variables are reset to.
LEMMA ResetTypes ==
  /\ Nothing \in Inventory
  /\ NoCache \in [Cached -> SUBSET Resources]
  /\ AllDue \in [Cached -> 0 .. Interval]
  /\ 1 \in 1 .. Len(Plan) + 1
  /\ 0 \in 0 .. MaxFailures + 1
<1>1. Nothing \in Inventory
  BY DEF Nothing, Inventory
<1>2. NoCache \in [Cached -> SUBSET Resources]
  BY DEF NoCache
<1>3. AllDue \in [Cached -> 0 .. Interval]
  BY NumbersAssumption DEF AllDue
<1>4. Len(Plan) \in Nat
  BY PlanAssumption
<1>5. 1 \in 1 .. Len(Plan) + 1 /\ 0 \in 0 .. MaxFailures + 1
  BY <1>4, NumbersAssumption
<1>6. QED
  BY <1>1, <1>2, <1>3, <1>5

\* The first states have the types.
LEMMA InitTypes == Init => TypeOK
  BY ResetTypes DEF Init, TypeOK

\* A failed poll keeps the types: the saturating count, and the held data.
LEMMA UpdateFailureTypes ==
  ASSUME TypeOK, HandleUpdateFailure
  PROVE  TypeOK'
<1>1. failures' \in 0 .. MaxFailures + 1
  BY NumbersAssumption DEF TypeOK, HandleUpdateFailure
<1>2. data' \in Inventory
  BY SelectedAssumption DEF TypeOK, HandleUpdateFailure, Inventory, Filter
<1>3. step' \in 1 .. Len(Plan) + 1 /\ fetched' \in Inventory
  BY ResetTypes DEF HandleUpdateFailure, EndPoll
<1>4. QED
  BY <1>1, <1>2, <1>3 DEF TypeOK, HandleUpdateFailure, EndPoll

\* A fetch keeps the types: the next step, the cache and its age.
LEMMA FetchTypes ==
  ASSUME TypeOK, Fetch
  PROVE  TypeOK'
<1> PICK c \in Collections : FetchFromCache(c) \/ FetchOk(c) \/ FetchFails(c)
  BY DEF Fetch
<1>1. step' \in 1 .. Len(Plan) + 1
  BY PlanAssumption DEF TypeOK, FetchFromCache, FetchOk, FetchFails, FetchNext
<1>2. fetched' \in Inventory
  BY DEF TypeOK, FetchFromCache, FetchOk, FetchFails, Inventory
<1>3. cache' \in [Cached -> SUBSET Resources] /\ age' \in [Cached -> 0 .. Interval]
  <2>1. ASSUME NEW answer \in SUBSET Resources, Remember(c, answer)
        PROVE  /\ cache' \in [Cached -> SUBSET Resources]
               /\ age' \in [Cached -> 0 .. Interval]
    BY <2>1, NumbersAssumption DEF TypeOK, Remember
  <2>2. omv[c] \in SUBSET Resources
    BY DEF TypeOK, Inventory
  <2>3. QED
    BY <2>1, <2>2 DEF TypeOK, FetchFromCache, FetchOk, FetchFails
<1>4. degraded' \in SUBSET Core /\ seen' \in Inventory
  BY DEF TypeOK, FetchFromCache, FetchOk, FetchFails, Inventory
<1>5. QED
  BY <1>1, <1>2, <1>3, <1>4
  DEF TypeOK, FetchFromCache, FetchOk, FetchFails, FetchNext

LEMMA StepTypes == TypeOK /\ [Next]_vars => TypeOK'
<1> SUFFICES ASSUME TypeOK, [Next]_vars PROVE TypeOK'
  OBVIOUS
<1>1. CASE ResourceChanges
  BY <1>1 DEF TypeOK, ResourceChanges, Inventory
<1>2. CASE HealthChanges
  BY <1>2 DEF TypeOK, HealthChanges
<1>3. CASE Tick
  <2>1. age' \in [Cached -> 0 .. Interval]
    BY <1>3, NumbersAssumption DEF TypeOK, Tick
  <2>2. QED
    BY <1>3, <2>1 DEF TypeOK, Tick
<1>4. CASE StartSetup
  BY <1>4, ResetTypes DEF TypeOK, StartSetup
<1>5. CASE Connected
  BY <1>5 DEF TypeOK, Connected
<1>6. CASE ConnectFails
  BY <1>6 DEF TypeOK, ConnectFails
<1>7. CASE Unload
  BY <1>7, ResetTypes DEF TypeOK, Unload
<1>8. CASE TimerPoll \/ RequestedPoll
  BY <1>8, ResetTypes DEF TypeOK, TimerPoll, RequestedPoll, BeginPoll
<1>9. CASE HwinfoOk
  BY <1>9 DEF TypeOK, HwinfoOk
<1>10. CASE Fetch
  BY <1>10, FetchTypes
<1>11. CASE HwinfoFails \/ UnexpectedError
  BY <1>11, UpdateFailureTypes DEF HwinfoFails, UnexpectedError
<1>12. CASE HwinfoRejected
  BY <1>12, ResetTypes DEF TypeOK, HwinfoRejected, HandleAuthFailure, EndPoll
<1>13. CASE Publish
  <2>1. Filter(fetched) \in Inventory
    BY SelectedAssumption DEF TypeOK, Inventory, Filter
  <2>2. QED
    BY <1>13, <2>1, ResetTypes DEF TypeOK, Publish, EndPoll
<1>14. CASE UNCHANGED vars
  BY <1>14 DEF TypeOK, vars
<1>15. QED
  BY <1>1, <1>2, <1>3, <1>4, <1>5, <1>6, <1>7, <1>8, <1>9, <1>10, <1>11,
     <1>12, <1>13, <1>14
  DEF Next, RefreshEnds

\* Every variable keeps its type, in every behaviour of the coordinator.
THEOREM TypeCorrect == Spec => []TypeOK
  BY InitTypes, StepTypes, PTL DEF Spec

-----------------------------------------------------------------------------
(***************************************************************************)
(* HeldDataIsLastValid is inductive: only the two ends of a poll that      *)
(* leave the entities available write what it is about.                    *)
(***************************************************************************)

LEMMA HeldDataStep == TypeOK /\ HeldDataIsLastValid /\ [Next]_vars => HeldDataIsLastValid'
<1> SUFFICES ASSUME TypeOK, HeldDataIsLastValid, [Next]_vars
             PROVE  HeldDataIsLastValid'
  OBVIOUS
<1> USE DEF HeldDataIsLastValid
<1>1. CASE ResourceChanges \/ HealthChanges \/ Tick
  BY <1>1 DEF ResourceChanges, HealthChanges, Tick, Filter
<1>2. CASE StartSetup \/ Connected \/ ConnectFails \/ Unload
  BY <1>2 DEF StartSetup, Connected, ConnectFails, Unload, Filter
<1>3. CASE TimerPoll \/ RequestedPoll \/ HwinfoOk
  BY <1>3 DEF TimerPoll, RequestedPoll, BeginPoll, HwinfoOk, Filter
<1>4. CASE Fetch
  <2>1. UNCHANGED <<entry, failures, hasValid, lastValid, data, updateOk>>
    BY <1>4 DEF Fetch, FetchFromCache, FetchOk, FetchFails
  <2>2. QED
    BY <2>1 DEF Filter
<1>5. CASE HwinfoFails \/ UnexpectedError
  <2>1. HandleUpdateFailure
    BY <1>5 DEF HwinfoFails, UnexpectedError
  <2> DEFINE missed == IF failures > MaxFailures THEN failures ELSE failures + 1
             grace == hasValid /\ missed <= MaxFailures
  <2>2. /\ failures' = missed /\ updateOk' = grace
        /\ data' = IF grace THEN Filter(lastValid) ELSE data
        /\ UNCHANGED <<hasValid, lastValid>>
    BY <2>1 DEF HandleUpdateFailure
  <2>3. CASE grace
    BY <2>2, <2>3 DEF Filter
  <2>4. CASE ~grace
    BY <2>2, <2>4
  <2>5. QED
    BY <2>3, <2>4
<1>6. CASE HwinfoRejected
  BY <1>6 DEF HwinfoRejected, HandleAuthFailure
<1>7. CASE Publish
  BY <1>7, NumbersAssumption DEF Publish, Filter
<1>8. CASE UNCHANGED vars
  BY <1>8 DEF vars, Filter
<1>9. QED
  BY <1>1, <1>2, <1>3, <1>4, <1>5, <1>6, <1>7, <1>8 DEF Next, RefreshEnds

\* Issue #82: available entities never show anything but the last valid data,
\* and never after more failed polls than are tolerated.
THEOREM HeldDataCorrect == Spec => []HeldDataIsLastValid
<1>1. Init => HeldDataIsLastValid
  BY DEF Init, HeldDataIsLastValid
<1>2. QED
  BY <1>1, HeldDataStep, TypeCorrect, PTL DEF Spec

-----------------------------------------------------------------------------
(***************************************************************************)
(* VerifiedInventory is about the end of a poll, so its invariant follows  *)
(* the poll: what has been fetched so far, unless it is marked degraded,   *)
(* is what the appliance answered last, since a core cache that is not due *)
(* holds just that.                                                        *)
(***************************************************************************)

PollShape ==
  /\ phase = "connect" => entry = "loading"
  /\ phase \in {"connect", "hwinfo"} => step = 1 /\ degraded = {}

CachesAreSeen ==
  \A c \in Core \cap Cached : age[c] < Interval => cache[c] = seen[c]

FetchedIsSeen ==
  phase = "fetching" =>
    \A i \in 1 .. step - 1 :
      Plan[i] \in Core \ degraded => fetched[Plan[i]] = seen[Plan[i]]

\* The marks of a poll: what it has lost so far, and nothing that is still to come.
MarkedIsLost ==
  phase = "fetching" =>
    \A c \in degraded : fetched[c] = {} /\ \E i \in 1 .. step - 1 : Plan[i] = c

InventoryInv ==
  /\ TypeOK /\ PollShape /\ CachesAreSeen /\ FetchedIsSeen /\ MarkedIsLost
  /\ VerifiedInventory /\ MarksAreExact

LEMMA PollShapeStep == TypeOK /\ PollShape /\ [Next]_vars => PollShape'
<1> SUFFICES ASSUME TypeOK, PollShape, [Next]_vars PROVE PollShape'
  OBVIOUS
<1> USE DEF PollShape
<1>1. CASE ResourceChanges \/ HealthChanges \/ Tick
  BY <1>1 DEF ResourceChanges, HealthChanges, Tick
<1>2. CASE StartSetup \/ Connected \/ ConnectFails \/ Unload
  BY <1>2 DEF StartSetup, Connected, ConnectFails, Unload
<1>3. CASE TimerPoll \/ RequestedPoll \/ HwinfoOk
  BY <1>3 DEF TimerPoll, RequestedPoll, BeginPoll, HwinfoOk
<1>4. CASE Fetch
  BY <1>4 DEF Fetch, FetchFromCache, FetchOk, FetchFails, FetchNext
<1>5. CASE RefreshEnds
  BY <1>5 DEF RefreshEnds, HwinfoFails, HwinfoRejected, UnexpectedError, Publish,
              HandleUpdateFailure, HandleAuthFailure, EndPoll
<1>6. CASE UNCHANGED vars
  BY <1>6 DEF vars
<1>7. QED
  BY <1>1, <1>2, <1>3, <1>4, <1>5, <1>6 DEF Next

\* The step of a fetch: the answer of collection c is all that changes.
LEMMA FetchKeepsInventory ==
  ASSUME InventoryInv, Fetch
  PROVE  CachesAreSeen' /\ FetchedIsSeen' /\ VerifiedInventory'
<1> PICK c \in Collections : FetchFromCache(c) \/ FetchOk(c) \/ FetchFails(c)
  BY DEF Fetch
<1>1. FetchNext(c)
  BY DEF FetchFromCache, FetchOk, FetchFails
<1>2. step \in Nat /\ step' = step + 1 /\ phase' = "fetching" /\ c = Plan[step]
  BY <1>1, PlanAssumption
  DEF FetchNext, FetchFromCache, FetchOk, FetchFails, InventoryInv, TypeOK
<1>3. CachesAreSeen'
  <2>1. CASE FetchFromCache(c)
    BY <2>1 DEF FetchFromCache, InventoryInv, CachesAreSeen
  <2>2. CASE FetchOk(c)
    BY <2>2, NumbersAssumption
    DEF FetchOk, Remember, InventoryInv, CachesAreSeen, TypeOK, Inventory
  <2>3. CASE FetchFails(c)
    BY <2>3, NumbersAssumption
    DEF FetchFails, Remember, InventoryInv, CachesAreSeen, TypeOK, Inventory
  <2>4. QED
    BY <2>1, <2>2, <2>3
<1>4. FetchedIsSeen'
  <2> SUFFICES ASSUME NEW i \in 1 .. step, Plan[i] \in Core \ degraded'
               PROVE  fetched'[Plan[i]] = seen'[Plan[i]]
    BY <1>2 DEF FetchedIsSeen
  <2>1. degraded \subseteq degraded'
    BY DEF FetchFromCache, FetchOk, FetchFails
  <2>2. CASE i = step
    <3>1. CASE FetchFromCache(c)
      BY <1>2, <2>2, <3>1
      DEF FetchFromCache, InventoryInv, CachesAreSeen, TypeOK, Inventory
    <3>2. CASE FetchOk(c)
      BY <1>2, <2>2, <3>2 DEF FetchOk, InventoryInv, TypeOK, Inventory
    <3>3. CASE FetchFails(c)
      BY <1>2, <2>2, <3>3 DEF FetchFails
    <3>4. QED
      BY <3>1, <3>2, <3>3
  <2>3. CASE i # step
    <3>1. i \in 1 .. step - 1 /\ i \in 1 .. Len(Plan) /\ step \in 1 .. Len(Plan)
      BY <1>1, <1>2, <2>3, PlanAssumption DEF FetchNext, InventoryInv, TypeOK
    <3>2. Plan[i] # c
      BY <1>2, <2>3, <3>1, PlanIsOnce
    <3>3. fetched[Plan[i]] = seen[Plan[i]]
      BY <1>1, <2>1, <3>1 DEF InventoryInv, FetchedIsSeen, FetchNext
    <3>4. fetched'[Plan[i]] = fetched[Plan[i]] /\ seen'[Plan[i]] = seen[Plan[i]]
      BY <3>2, KindsAssumption
      DEF FetchFromCache, FetchOk, FetchFails, InventoryInv, TypeOK, Inventory
    <3>5. QED
      BY <3>3, <3>4
  <2>4. QED
    BY <2>2, <2>3
<1>5. VerifiedInventory'
  BY <1>2 DEF VerifiedInventory, ClaimsComplete
<1>6. QED
  BY <1>3, <1>4, <1>5

\* The end of a successful poll: every core collection has been fetched.
LEMMA PublishVerifies ==
  ASSUME InventoryInv, Publish
  PROVE  VerifiedInventory'
<1> SUFFICES ASSUME ClaimsComplete', NEW c \in Core
             PROVE  data'[c] = seen'[c] \cap Selected[c]
  BY DEF VerifiedInventory
<1>1. degraded = {}
  BY DEF ClaimsComplete, Publish
<1>2. PICK i \in 1 .. Len(Plan) : Plan[i] = c
  BY KindsAssumption, PlanAssumption DEF Collections, Range
<1>3. i \in 1 .. step - 1
  BY <1>2, PlanAssumption DEF Publish
<1>4. fetched[c] = seen[c]
  BY <1>1, <1>2, <1>3 DEF Publish, InventoryInv, FetchedIsSeen
<1>5. c \in Collections
  BY KindsAssumption
<1>6. QED
  BY <1>4, <1>5 DEF Publish, Filter

\* A fetch marks its own collection, which no earlier fetch of the poll has marked.
LEMMA FetchKeepsMarks ==
  ASSUME InventoryInv, Fetch
  PROVE  MarkedIsLost' /\ MarksAreExact'
<1> PICK c \in Collections : FetchFromCache(c) \/ FetchOk(c) \/ FetchFails(c)
  BY DEF Fetch
<1>1. FetchNext(c) /\ phase' = "fetching" /\ phase = "fetching"
  BY DEF FetchNext, FetchFromCache, FetchOk, FetchFails
<1>2. /\ step \in 1 .. Len(Plan) /\ step' = step + 1 /\ c = Plan[step]
      /\ Len(Plan) \in Nat /\ degraded \subseteq Collections
  BY <1>1, PlanAssumption, KindsAssumption DEF FetchNext, InventoryInv, TypeOK
<1>3. MarksAreExact'
  BY <1>1 DEF MarksAreExact
<1>4. c \notin degraded
  <2>1. SUFFICES ASSUME c \in degraded PROVE FALSE
    OBVIOUS
  <2>2. PICK i \in 1 .. step - 1 : Plan[i] = c
    BY <1>1, <2>1 DEF InventoryInv, MarkedIsLost
  <2>3. i \in 1 .. Len(Plan) /\ i # step
    BY <1>2, <2>2
  <2>4. QED
    BY <1>2, <2>2, <2>3, PlanIsOnce
<1>5. /\ degraded' \in {degraded, degraded \cup {c}}
      /\ c \in degraded' => fetched'[c] = {}
      /\ \A d \in Collections \ {c} : fetched'[d] = fetched[d]
  BY <1>4 DEF FetchFromCache, FetchOk, FetchFails, InventoryInv, TypeOK, Inventory
<1>6. MarkedIsLost'
  <2>1. SUFFICES ASSUME NEW d \in degraded'
                 PROVE  fetched'[d] = {} /\ \E i \in 1 .. step : Plan[i] = d
    BY <1>2 DEF MarkedIsLost
  <2>2. CASE d = c
    BY <1>2, <1>5, <2>2
  <2>3. CASE d # c
    <3>1. d \in degraded /\ d \in Collections
      BY <1>2, <1>5, <2>3
    <3>2. fetched[d] = {} /\ \E i \in 1 .. step - 1 : Plan[i] = d
      BY <1>1, <3>1 DEF InventoryInv, MarkedIsLost
    <3>3. QED
      BY <1>2, <1>5, <2>3, <3>1, <3>2
  <2>4. QED
    BY <2>2, <2>3
<1>7. QED
  BY <1>3, <1>6

\* A poll that is published shows what it fetched, or nothing where it marked.
LEMMA PublishMarks ==
  ASSUME InventoryInv, Publish
  PROVE  MarksAreExact'
<1> SUFFICES ASSUME NEW c \in Core
             PROVE  data'[c] = IF c \in degraded THEN {} ELSE seen[c] \cap Selected[c]
  BY DEF MarksAreExact, Publish
<1>1. c \in Collections /\ data'[c] = fetched[c] \cap Selected[c] /\ phase = "fetching"
  BY KindsAssumption DEF Publish, Filter
<1>2. PICK i \in 1 .. Len(Plan) : Plan[i] = c
  BY KindsAssumption, PlanAssumption DEF Collections, Range
<1>3. i \in 1 .. step - 1
  BY <1>2, PlanAssumption DEF Publish
<1>4. CASE c \in degraded
  BY <1>1, <1>4 DEF InventoryInv, MarkedIsLost
<1>5. CASE c \notin degraded
  BY <1>1, <1>2, <1>3, <1>5 DEF InventoryInv, FetchedIsSeen
<1>6. QED
  BY <1>4, <1>5

LEMMA MarksStep == InventoryInv /\ [Next]_vars => MarkedIsLost' /\ MarksAreExact'
<1> SUFFICES ASSUME InventoryInv, [Next]_vars PROVE MarkedIsLost' /\ MarksAreExact'
  OBVIOUS
<1> USE DEF InventoryInv, MarkedIsLost, MarksAreExact
<1>1. CASE ResourceChanges \/ HealthChanges \/ Tick
  <2>1. UNCHANGED <<entry, phase, step, fetched, degraded, data, reachable, updateOk, seen>>
    BY <1>1 DEF ResourceChanges, HealthChanges, Tick
  <2>2. QED
    BY <2>1
<1>2. CASE StartSetup \/ Connected \/ ConnectFails \/ Unload
  BY <1>2 DEF StartSetup, Connected, ConnectFails, Unload, PollShape
<1>3. CASE TimerPoll \/ RequestedPoll
  BY <1>3 DEF TimerPoll, RequestedPoll, BeginPoll
<1>4. CASE HwinfoOk
  BY <1>4 DEF HwinfoOk, PollShape
<1>5. CASE Fetch
  BY <1>5, FetchKeepsMarks
<1>6. CASE HwinfoFails \/ UnexpectedError
  BY <1>6 DEF HwinfoFails, UnexpectedError, HandleUpdateFailure, EndPoll
<1>7. CASE HwinfoRejected
  BY <1>7 DEF HwinfoRejected, HandleAuthFailure, EndPoll
<1>8. CASE Publish
  <2>1. MarksAreExact'
    BY <1>8, PublishMarks
  <2>2. QED
    BY <1>8, <2>1 DEF Publish, EndPoll
<1>9. CASE UNCHANGED vars
  BY <1>9 DEF vars
<1>10. QED
  BY <1>1, <1>2, <1>3, <1>4, <1>5, <1>6, <1>7, <1>8, <1>9 DEF Next, RefreshEnds

LEMMA InventoryStep == InventoryInv /\ [Next]_vars => InventoryInv'
<1> SUFFICES ASSUME InventoryInv, [Next]_vars
             PROVE  CachesAreSeen' /\ FetchedIsSeen' /\ VerifiedInventory'
  BY StepTypes, PollShapeStep, MarksStep DEF InventoryInv
<1> USE DEF InventoryInv, CachesAreSeen, FetchedIsSeen, VerifiedInventory, ClaimsComplete
<1>1. CASE ResourceChanges \/ HealthChanges
  BY <1>1 DEF ResourceChanges, HealthChanges
<1>2. CASE Tick
  <2>1. CachesAreSeen'
    BY <1>2, NumbersAssumption DEF Tick, TypeOK
  <2>2. QED
    BY <1>2, <2>1 DEF Tick
<1>3. CASE StartSetup
  BY <1>3, NumbersAssumption DEF StartSetup, AllDue
<1>4. CASE Connected \/ ConnectFails \/ Unload
  BY <1>4 DEF Connected, ConnectFails, Unload
<1>5. CASE TimerPoll \/ RequestedPoll
  BY <1>5 DEF TimerPoll, RequestedPoll, BeginPoll
<1>6. CASE HwinfoOk
  BY <1>6 DEF HwinfoOk, PollShape
<1>7. CASE Fetch
  BY <1>7, FetchKeepsInventory
<1>8. CASE HwinfoFails \/ UnexpectedError
  BY <1>8 DEF HwinfoFails, UnexpectedError, HandleUpdateFailure, EndPoll
<1>9. CASE HwinfoRejected
  BY <1>9 DEF HwinfoRejected, HandleAuthFailure, EndPoll
<1>10. CASE Publish
  <2>1. VerifiedInventory'
    BY <1>10, PublishVerifies
  <2>2. QED
    BY <1>10, <2>1 DEF Publish, EndPoll
<1>11. CASE UNCHANGED vars
  BY <1>11 DEF vars
<1>12. QED
  BY <1>1, <1>2, <1>3, <1>4, <1>5, <1>6, <1>7, <1>8, <1>9, <1>10, <1>11
  DEF Next, RefreshEnds

LEMMA InventoryInvariant == Spec => []InventoryInv
<1>1. Init => InventoryInv
  BY InitTypes, NumbersAssumption
  DEF Init, InventoryInv, PollShape, CachesAreSeen, FetchedIsSeen,
      MarkedIsLost, MarksAreExact, VerifiedInventory, ClaimsComplete, AllDue
<1>2. QED
  BY <1>1, InventoryStep, PTL DEF Spec

\* Issue #118: no failed fetch, however it is swallowed or cached, passes for an
\* empty core inventory in a refresh that claims to be complete.
THEOREM InventoryIsVerified == Spec => []VerifiedInventory
<1>1. InventoryInv => VerifiedInventory
  BY DEF InventoryInv
<1>2. QED
  BY <1>1, InventoryInvariant, PTL

\* A poll that goes on after failed core RPCs publishes, for every core collection,
\* the appliance's last answer or an empty one that is marked; so what the grace
\* window holds afterwards lacks only what a poll has marked.
THEOREM MarksExact == Spec => []MarksAreExact
<1>1. InventoryInv => MarksAreExact
  BY DEF InventoryInv
<1>2. QED
  BY <1>1, InventoryInvariant, PTL

-----------------------------------------------------------------------------
(***************************************************************************)
(* The coordinator implements GraceWindow.  A loaded entry has published   *)
(* at least once, so that only the misses decide what becomes of its feed; *)
(* a loading one has not, so that no failure can end its setup in the      *)
(* grace window.                                                           *)
(***************************************************************************)

ValidShape ==
  /\ entry = "loading" => ~hasValid
  /\ entry = "loaded" => hasValid

LEMMA ValidShapeStep ==
  TypeOK /\ PollShape /\ ValidShape /\ [Next]_vars => ValidShape'
<1> SUFFICES ASSUME TypeOK, PollShape, ValidShape, [Next]_vars PROVE ValidShape'
  OBVIOUS
<1> USE DEF ValidShape
<1>1. CASE ResourceChanges \/ HealthChanges \/ Tick
  BY <1>1 DEF ResourceChanges, HealthChanges, Tick
<1>2. CASE StartSetup \/ Connected \/ ConnectFails \/ Unload
  BY <1>2 DEF StartSetup, Connected, ConnectFails, Unload
<1>3. CASE TimerPoll \/ RequestedPoll \/ HwinfoOk
  BY <1>3 DEF TimerPoll, RequestedPoll, BeginPoll, HwinfoOk
<1>4. CASE Fetch
  BY <1>4 DEF Fetch, FetchFromCache, FetchOk, FetchFails
<1>5. CASE HwinfoFails \/ UnexpectedError
  BY <1>5 DEF HwinfoFails, UnexpectedError, HandleUpdateFailure
<1>6. CASE HwinfoRejected
  BY <1>6 DEF HwinfoRejected, HandleAuthFailure
<1>7. CASE Publish
  BY <1>7 DEF Publish
<1>8. CASE UNCHANGED vars
  BY <1>8 DEF vars
<1>9. QED
  BY <1>1, <1>2, <1>3, <1>4, <1>5, <1>6, <1>7, <1>8 DEF Next, RefreshEnds

\* A failed poll of a loaded entry is one miss; of a loading one, nothing.
LEMMA UpdateFailureIsMiss ==
  ASSUME TypeOK, ValidShape, HandleUpdateFailure
  PROVE  Grace!Miss \/ UNCHANGED <<Feed, Missed>>
<1> DEFINE missed == IF failures > MaxFailures THEN failures ELSE failures + 1
           grace == hasValid /\ missed <= MaxFailures
<1>1. /\ failures' = missed /\ updateOk' = grace
      /\ entry' = IF entry = "loading" /\ ~grace THEN "not_loaded" ELSE entry
  BY DEF HandleUpdateFailure
<1>2. CASE entry # "loaded"
  <2>1. entry' # "loaded"
    BY <1>1, <1>2
  <2>2. QED
    BY <1>2, <2>1 DEF Feed, Missed
<1>3. CASE entry = "loaded"
  <2>1. hasValid /\ entry' = "loaded"
    BY <1>1, <1>3 DEF ValidShape
  <2>2. failures \in 0 .. MaxFailures + 1
    BY DEF TypeOK
  <2>3. Feed # "absent" /\ Missed = failures /\ Missed' = missed
    BY <1>1, <1>3, <2>1 DEF Feed, Missed
  <2>4. CASE failures < MaxFailures
    <3>1. grace /\ missed = failures + 1 /\ failures' # 0
      BY <1>1, <2>1, <2>2, <2>4, NumbersAssumption
    <3>2. Feed' = "held"
      BY <1>1, <2>1, <3>1 DEF Feed
    <3>3. QED
      BY <2>3, <2>4, <3>1, <3>2 DEF Grace!Miss
  <2>5. CASE failures >= MaxFailures
    <3>1. ~grace /\ missed = MaxFailures + 1
      BY <2>2, <2>5, NumbersAssumption
    <3>2. Feed' = "down"
      BY <1>1, <2>1, <3>1 DEF Feed
    <3>3. QED
      BY <2>3, <2>5, <3>1, <3>2 DEF Grace!Miss
  <2>6. QED
    BY <2>2, <2>4, <2>5, NumbersAssumption
<1>4. QED
  BY <1>2, <1>3

LEMMA GraceStep ==
  TypeOK /\ PollShape /\ ValidShape /\ [Next]_vars => [Grace!Next]_<<Feed, Missed>>
<1> SUFFICES ASSUME TypeOK, PollShape, ValidShape, [Next]_vars
             PROVE  Grace!Next \/ UNCHANGED <<Feed, Missed>>
  OBVIOUS
<1>1. ASSUME UNCHANGED <<entry, updateOk, failures>>
      PROVE  UNCHANGED <<Feed, Missed>>
  BY <1>1 DEF Feed, Missed
<1>2. CASE ResourceChanges \/ HealthChanges \/ Tick
  BY <1>1, <1>2 DEF ResourceChanges, HealthChanges, Tick
<1>3. CASE StartSetup \/ ConnectFails
  BY <1>3 DEF StartSetup, ConnectFails, PollShape, Feed, Missed
<1>4. CASE Connected \/ TimerPoll \/ RequestedPoll \/ HwinfoOk
  BY <1>1, <1>4 DEF Connected, TimerPoll, RequestedPoll, BeginPoll, HwinfoOk
<1>5. CASE Unload
  <2>1. Feed' = "absent" /\ Missed' = 0
    BY <1>5 DEF Unload, Feed, Missed
  <2>2. CASE entry = "loaded"
    <3>1. Feed # "absent"
      BY <2>2 DEF Feed
    <3>2. QED
      BY <2>1, <3>1 DEF Grace!Next, Grace!Detach
  <2>3. CASE entry # "loaded"
    BY <2>1, <2>3 DEF Feed, Missed
  <2>4. QED
    BY <2>2, <2>3
<1>6. CASE Fetch
  <2>1. UNCHANGED <<entry, updateOk, failures>>
    BY <1>6 DEF Fetch, FetchFromCache, FetchOk, FetchFails
  <2>2. QED
    BY <1>1, <2>1
<1>7. CASE HwinfoFails \/ UnexpectedError
  <2>1. HandleUpdateFailure
    BY <1>7 DEF HwinfoFails, UnexpectedError
  <2>2. QED
    BY <2>1, UpdateFailureIsMiss DEF Grace!Next
<1>8. CASE HwinfoRejected
  <2>1. /\ ~updateOk' /\ failures' = failures
        /\ entry' = IF entry = "loading" THEN "auth_failed" ELSE entry
    BY <1>8 DEF HwinfoRejected, HandleAuthFailure
  <2>2. CASE entry = "loaded"
    BY <2>1, <2>2 DEF Grace!Next, Grace!Lockout, Feed, Missed
  <2>3. CASE entry # "loaded"
    BY <2>1, <2>3 DEF Feed, Missed
  <2>4. QED
    BY <2>2, <2>3
<1>9. CASE Publish
  <2>1. Feed' = "live" /\ Missed' = 0
    BY <1>9 DEF Publish, Feed, Missed
  <2>2. QED
    BY <2>1 DEF Grace!Next, Grace!Attach, Grace!Deliver
<1>10. CASE UNCHANGED vars
  BY <1>1, <1>10 DEF vars
<1>11. QED
  BY <1>2, <1>3, <1>4, <1>5, <1>6, <1>7, <1>8, <1>9, <1>10 DEF Next, RefreshEnds

\* Issue #82: whatever the appliance does, the entities' feed is held for at
\* most MaxFailures misses in a row and is then down until a poll succeeds.
THEOREM GraceIsKept == Spec => KeepsGrace
<1>1. Init => ValidShape /\ PollShape /\ Grace!Init
  BY DEF Init, ValidShape, PollShape, Grace!Init, Grace!Absent, Feed, Missed
<1>2. Spec => [](TypeOK /\ PollShape /\ ValidShape)
  BY <1>1, TypeCorrect, PollShapeStep, ValidShapeStep, PTL DEF Spec
<1>3. QED
  BY <1>1, <1>2, GraceStep, PTL DEF Spec, KeepsGrace, Grace!Spec
=============================================================================
