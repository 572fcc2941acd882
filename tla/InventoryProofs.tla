--------------------------- MODULE InventoryProofs ---------------------------
(***************************************************************************)
(* Proofs about Inventory.                                                 *)
(***************************************************************************)
EXTENDS Inventory, SequenceFacts, WellFoundedInduction

-----------------------------------------------------------------------------
(* Sequences of records.                                                   *)

\* A set of numbers has a first one.
LEMMA LeastExists ==
  ASSUME NEW S, S \subseteq Nat, S # {}
  PROVE  \E i \in S : \A j \in S : i <= j
<1>1. PICK x \in S : \A y \in S : ~ (<<y, x>> \in OpToRel(<, Nat))
  BY NatLessThanWellFounded, WFMin
<1>2. ASSUME NEW y \in S PROVE x <= y
  <2>1. x \in Nat /\ y \in Nat
    OBVIOUS
  <2>2. ~(y < x)
    BY <1>1, <2>1 DEF OpToRel
  <2>3. QED
    BY <2>1, <2>2
<1>3. QED
  BY <1>2

LEMMA LeastProperties ==
  ASSUME NEW S, S \subseteq Nat, S # {}
  PROVE  Least(S) \in S /\ \A j \in S : Least(S) <= j
  BY LeastExists DEF Least

\* The ranks of the members of a finite set of numbers are its places.
LEMMA Ranks ==
  ASSUME NEW S, IsFiniteSet(S), S \subseteq Nat
  PROVE  /\ \A i \in S : Cardinality({j \in S : j <= i}) \in 1 .. Cardinality(S)
         /\ \A n \in 1 .. Cardinality(S) : \E i \in S : Cardinality({j \in S : j <= i}) = n
         /\ \A i, k \in S :
              Cardinality({j \in S : j <= i}) = Cardinality({j \in S : j <= k}) => i = k
<1> DEFINE upto(i) == {j \in S : j <= i}
           rank == [i \in S |-> Cardinality(upto(i))]
<1>1. Cardinality(S) \in Nat
  BY FS_CardinalityType
<1>2. ASSUME NEW i \in S
      PROVE  /\ IsFiniteSet(upto(i)) /\ Cardinality(upto(i)) \in Nat
             /\ Cardinality(upto(i)) <= Cardinality(S) /\ Cardinality(upto(i)) # 0
  <2>1. upto(i) \in SUBSET S /\ i \in upto(i)
    OBVIOUS
  <2>2. IsFiniteSet(upto(i)) /\ Cardinality(upto(i)) <= Cardinality(S)
    BY <2>1, FS_Subset
  <2>3. QED
    BY <2>1, <2>2, FS_CardinalityType, FS_EmptySet
<1>3. \A i \in S : Cardinality(upto(i)) \in 1 .. Cardinality(S)
  BY <1>1, <1>2
<1>4. ASSUME NEW i \in S, NEW k \in S, i < k
      PROVE  Cardinality(upto(i)) # Cardinality(upto(k))
  <2>0. \A j \in S : j <= i => j <= k
    BY <1>4
  <2>1. upto(i) \in SUBSET upto(k)
    BY <2>0
  <2>2. k \in upto(k) /\ k \notin upto(i)
    BY <1>4
  <2>3. QED
    BY <1>2, <2>1, <2>2, FS_Subset
<1>5. \A i, k \in S : Cardinality(upto(i)) = Cardinality(upto(k)) => i = k
  <2>1. SUFFICES ASSUME NEW i \in S, NEW k \in S, i # k
                 PROVE  Cardinality(upto(i)) # Cardinality(upto(k))
    OBVIOUS
  <2>2. i < k \/ k < i
    BY <2>1
  <2>3. QED
    BY <1>4, <2>2
<1>6. rank \in Injection(S, 1 .. Cardinality(S))
  BY <1>3, <1>5 DEF Injection, IsInjective
<1>7. IsFiniteSet(1 .. Cardinality(S)) /\ Cardinality(1 .. Cardinality(S)) = Cardinality(S)
  BY <1>1, FS_Interval
<1>8. rank \in Surjection(S, 1 .. Cardinality(S))
  BY <1>6, <1>7, FS_Injection
<1>9. \A n \in 1 .. Cardinality(S) : \E i \in S : Cardinality(upto(i)) = n
  BY <1>8 DEF Surjection
<1>10. QED
  BY <1>3, <1>5, <1>9

\* InOrder lists every member once.
LEMMA InOrderProperties ==
  ASSUME NEW S, IsFiniteSet(S), S \subseteq Nat
  PROVE  /\ Cardinality(S) \in Nat
         /\ \A n \in 1 .. Cardinality(S) : InOrder(S)[n] \in S
         /\ \A i \in S : \E n \in 1 .. Cardinality(S) : InOrder(S)[n] = i
         /\ \A m, n \in 1 .. Cardinality(S) : InOrder(S)[m] = InOrder(S)[n] => m = n
<1> DEFINE rank(i) == Cardinality({j \in S : j <= i})
<1>1. Cardinality(S) \in Nat
  BY FS_CardinalityType
<1>2. /\ \A i \in S : rank(i) \in 1 .. Cardinality(S)
      /\ \A n \in 1 .. Cardinality(S) : \E i \in S : rank(i) = n
      /\ \A i, k \in S : rank(i) = rank(k) => i = k
  BY Ranks
<1>3. ASSUME NEW n \in 1 .. Cardinality(S)
      PROVE  InOrder(S)[n] \in S /\ rank(InOrder(S)[n]) = n
  <2>1. InOrder(S)[n] = CHOOSE i \in S : rank(i) = n
    BY DEF InOrder
  <2>2. QED
    BY <1>2, <2>1
<1>4. ASSUME NEW i \in S
      PROVE  \E n \in 1 .. Cardinality(S) : InOrder(S)[n] = i
  BY <1>2, <1>3
<1>5. QED
  BY <1>1, <1>3, <1>4

\* What At picks: every element at a place of S, each place once.
LEMMA AtProperties ==
  ASSUME NEW s, NEW S, IsFiniteSet(S), S \subseteq Nat
  PROVE  /\ Cardinality(S) \in Nat
         /\ DOMAIN At(s, S) = 1 .. Cardinality(S)
         /\ At(s, S) \in Seq({s[i] : i \in S})
         /\ ToSet(At(s, S)) = {s[i] : i \in S}
         /\ \A m, n \in DOMAIN At(s, S) :
              m # n => \E i, j \in S : i # j /\ At(s, S)[m] = s[i] /\ At(s, S)[n] = s[j]
<1> DEFINE T == {s[i] : i \in S}
           c == Cardinality(S)
           picked == [n \in 1 .. c |-> s[InOrder(S)[n]]]
<1>1. /\ c \in Nat
      /\ \A n \in 1 .. c : InOrder(S)[n] \in S
      /\ \A i \in S : \E n \in 1 .. c : InOrder(S)[n] = i
      /\ \A m, n \in 1 .. c : InOrder(S)[m] = InOrder(S)[n] => m = n
  BY InOrderProperties
<1>2. At(s, S) = SubSeq(picked, 1, c)
  BY DEF At
<1>3. \A n \in 1 .. c : picked[n] = s[InOrder(S)[n]] /\ picked[n] \in T
  BY <1>1
<1> HIDE DEF picked
<1>4. /\ At(s, S) \in Seq(T) /\ Len(At(s, S)) = c
      /\ \A n \in 1 .. c : At(s, S)[n] = picked[n]
  <2>1. /\ SubSeq(picked, 1, c) \in Seq(T)
        /\ Len(SubSeq(picked, 1, c)) = IF 1 <= c THEN c - 1 + 1 ELSE 0
        /\ \A i \in 1 .. c - 1 + 1 : SubSeq(picked, 1, c)[i] = picked[1 + i - 1]
    BY <1>1, <1>3, SubSeqProperties
  <2>2. QED
    BY <1>1, <1>2, <2>1
<1>5. DOMAIN At(s, S) = 1 .. c
  BY <1>4, LenProperties
<1>6. ToSet(At(s, S)) = T
  <2>1. \A n \in 1 .. c : At(s, S)[n] \in T
    BY <1>3, <1>4
  <2>2. \A i \in S : \E n \in 1 .. c : At(s, S)[n] = s[i]
    BY <1>1, <1>3, <1>4
  <2>3. QED
    BY <1>5, <2>1, <2>2 DEF ToSet
<1>7. ASSUME NEW m \in 1 .. c, NEW n \in 1 .. c, m # n
      PROVE  \E i, j \in S : i # j /\ At(s, S)[m] = s[i] /\ At(s, S)[n] = s[j]
  <2>1. InOrder(S)[m] \in S /\ InOrder(S)[n] \in S /\ InOrder(S)[m] # InOrder(S)[n]
    BY <1>1, <1>7
  <2>2. At(s, S)[m] = s[InOrder(S)[m]] /\ At(s, S)[n] = s[InOrder(S)[n]]
    BY <1>3, <1>4
  <2>3. QED
    BY <2>1, <2>2
<1>8. \A m, n \in DOMAIN At(s, S) :
        m # n => \E i, j \in S : i # j /\ At(s, S)[m] = s[i] /\ At(s, S)[n] = s[j]
  BY <1>5, <1>7
<1>9. QED
  BY <1>1, <1>4, <1>5, <1>6, <1>8

\* A function on the first numbers, copied into a sequence.
LEMMA CopyProperties ==
  ASSUME NEW n \in Nat, NEW g
  PROVE  /\ SubSeq(g, 1, n) \in Seq({g[i] : i \in 1 .. n})
         /\ DOMAIN SubSeq(g, 1, n) = 1 .. n
         /\ \A i \in 1 .. n : SubSeq(g, 1, n)[i] = g[i]
<1> DEFINE T == {g[i] : i \in 1 .. n}
           c == SubSeq(g, 1, n)
<1>1. /\ c \in Seq(T) /\ Len(c) = IF 1 <= n THEN n - 1 + 1 ELSE 0
      /\ \A i \in 1 .. n - 1 + 1 : c[i] = g[1 + i - 1]
  <2>1. \A i \in 1 .. n : g[i] \in T
    OBVIOUS
  <2>2. QED
    BY <2>1, SubSeqProperties
<1>2. Len(c) = n
  BY <1>1
<1>3. \A i \in 1 .. n : c[i] = g[i]
  BY <1>1
<1>4. DOMAIN c = 1 .. n
  BY <1>1, <1>2, LenProperties
<1>5. QED
  BY <1>1, <1>3, <1>4

\* The places of a sequence are finitely many numbers.
LEMMA Places ==
  ASSUME NEW T, NEW s \in Seq(T), NEW S, S \subseteq DOMAIN s
  PROVE  IsFiniteSet(S) /\ S \subseteq Nat
<1>1. Len(s) \in Nat /\ DOMAIN s = 1 .. Len(s)
  BY LenProperties
<1>2. IsFiniteSet(1 .. Len(s))
  BY <1>1, FS_Interval
<1>3. QED
  BY <1>1, <1>2, FS_Subset

\* Elements of a sequence of records, as a sequence of records.
LEMMA AtOfSeq ==
  ASSUME NEW T, NEW s \in Seq(T), NEW S, S \subseteq DOMAIN s
  PROVE  /\ At(s, S) \in Seq(T)
         /\ DOMAIN At(s, S) \subseteq Nat
         /\ ToSet(At(s, S)) = {s[i] : i \in S}
         /\ \A m \in DOMAIN At(s, S) : \E i \in S : At(s, S)[m] = s[i]
         /\ \A m, n \in DOMAIN At(s, S) :
              m # n => \E i, j \in S : i # j /\ At(s, S)[m] = s[i] /\ At(s, S)[n] = s[j]
<1>1. IsFiniteSet(S) /\ S \subseteq Nat
  BY Places
<1>2. /\ Cardinality(S) \in Nat
      /\ DOMAIN At(s, S) = 1 .. Cardinality(S)
      /\ At(s, S) \in Seq({s[i] : i \in S})
      /\ ToSet(At(s, S)) = {s[i] : i \in S}
      /\ \A m, n \in DOMAIN At(s, S) :
           m # n => \E i, j \in S : i # j /\ At(s, S)[m] = s[i] /\ At(s, S)[n] = s[j]
  BY <1>1, AtProperties
<1>3. {s[i] : i \in S} \subseteq T
  BY ElementOfSeq, LenProperties
<1>4. At(s, S) \in Seq(T)
  BY <1>2, <1>3, SeqMonotonic
<1>5. DOMAIN At(s, S) \subseteq Nat
  BY <1>2
<1>6. \A m \in DOMAIN At(s, S) : \E i \in S : At(s, S)[m] = s[i]
  BY <1>2 DEF ToSet
<1>7. QED
  BY <1>2, <1>4, <1>5, <1>6

\* Every value has a first place, and just one.
LEMMA FirstPlacesProperties ==
  ASSUME NEW n \in Nat, NEW k, DOMAIN k = 1 .. n
  PROVE  /\ FirstPlaces(k) \subseteq 1 .. n
         /\ \A i \in 1 .. n : \E f \in FirstPlaces(k) : k[f] = k[i]
         /\ \A f, g \in FirstPlaces(k) : k[f] = k[g] => f = g
<1>1. ASSUME NEW i \in 1 .. n PROVE \E f \in FirstPlaces(k) : k[f] = k[i]
  <2> DEFINE N == {j \in 1 .. n : k[j] = k[i]}
  <2>1. N \subseteq Nat /\ N # {}
    OBVIOUS
  <2>2. PICK f \in N : \A j \in N : f <= j
    BY <2>1, LeastExists
  <2>3. \A j \in 1 .. f - 1 : k[j] # k[f]
    <3>1. SUFFICES ASSUME NEW j \in 1 .. f - 1 PROVE k[j] # k[f]
      OBVIOUS
    <3>2. j \in 1 .. n /\ ~(f <= j)
      OBVIOUS
    <3>3. QED
      BY <2>2, <3>2
  <2>4. QED
    BY <2>3 DEF FirstPlaces
<1>2. ASSUME NEW f \in FirstPlaces(k), NEW g \in FirstPlaces(k), f < g
      PROVE  k[f] # k[g]
  <2>1. f \in 1 .. n /\ g \in 1 .. n
    BY DEF FirstPlaces
  <2>2. f \in 1 .. g - 1
    BY <1>2, <2>1
  <2>3. QED
    BY <2>2 DEF FirstPlaces
<1>3. ASSUME NEW f \in FirstPlaces(k), NEW g \in FirstPlaces(k), k[f] = k[g]
      PROVE  f = g
  <2>1. f \in 1 .. n /\ g \in 1 .. n
    BY DEF FirstPlaces
  <2>2. ~(f < g) /\ ~(g < f)
    BY <1>2, <1>3
  <2>3. QED
    BY <2>1, <2>2
<1>4. FirstPlaces(k) \subseteq 1 .. n
  BY DEF FirstPlaces
<1>5. QED
  BY <1>1, <1>3, <1>4

Unique(s) == \A i, j \in DOMAIN s : s[i].key = s[j].key => i = j

LEMMA UniqueAt ==
  ASSUME NEW T, NEW s \in Seq(T), NEW S, S \subseteq DOMAIN s, Unique(s)
  PROVE  Unique(At(s, S))
<1>1. \A m, n \in DOMAIN At(s, S) :
        m # n => \E i, j \in S : i # j /\ At(s, S)[m] = s[i] /\ At(s, S)[n] = s[j]
  BY AtOfSeq
<1>2. QED
  BY <1>1 DEF Unique

\* Records of other keys behind those of s.
LEMMA UniqueConcat ==
  ASSUME NEW T, NEW s \in Seq(T), NEW t \in Seq(T), Unique(s), Unique(t),
         \A j \in DOMAIN t : t[j].key \notin Keys(s)
  PROVE  /\ s \o t \in Seq(T) /\ Unique(s \o t) /\ Keys(s \o t) = Keys(s) \cup Keys(t)
         /\ \A i \in DOMAIN (s \o t) :
              \/ i \in DOMAIN s /\ (s \o t)[i] = s[i]
              \/ \E j \in DOMAIN t : (s \o t)[i] = t[j]
         /\ \A i \in DOMAIN s : i \in DOMAIN (s \o t) /\ (s \o t)[i] = s[i]
<1>1. /\ Len(s) \in Nat /\ DOMAIN s = 1 .. Len(s)
      /\ Len(t) \in Nat /\ DOMAIN t = 1 .. Len(t)
  BY LenProperties
<1>2. /\ s \o t \in Seq(T) /\ Len(s \o t) = Len(s) + Len(t)
      /\ \A i \in 1 .. Len(s) + Len(t) : (s \o t)[i] = IF i <= Len(s) THEN s[i] ELSE t[i - Len(s)]
  BY ConcatProperties
<1>3. DOMAIN (s \o t) = 1 .. Len(s) + Len(t)
  BY <1>2, LenProperties
<1> DEFINE u == s \o t
<1> HIDE DEF u
<1>4. ASSUME NEW i \in DOMAIN u
      PROVE  \/ i \in DOMAIN s /\ u[i] = s[i]
             \/ i - Len(s) \in DOMAIN t /\ u[i] = t[i - Len(s)] /\ i \notin DOMAIN s
  <2>1. i \in 1 .. Len(s) + Len(t) /\ u[i] = IF i <= Len(s) THEN s[i] ELSE t[i - Len(s)]
    BY <1>2, <1>3 DEF u
  <2>2. i <= Len(s) => i \in DOMAIN s
    BY <1>1, <2>1
  <2>3. ~(i <= Len(s)) => i - Len(s) \in DOMAIN t /\ i \notin DOMAIN s
    BY <1>1, <2>1
  <2>4. QED
    BY <2>1, <2>2, <2>3
<1>5. Unique(u)
  <2>1. SUFFICES ASSUME NEW i \in DOMAIN u, NEW j \in DOMAIN u, u[i].key = u[j].key
                 PROVE  i = j
    BY DEF Unique
  <2>2. \A n \in DOMAIN s : s[n].key \in Keys(s)
    BY DEF Keys
  <2>3. i \in Nat /\ j \in Nat
    BY <1>1, <1>3 DEF u
  <2>4. CASE i \in DOMAIN s /\ u[i] = s[i] /\ j \in DOMAIN s /\ u[j] = s[j]
    BY <2>1, <2>4 DEF Unique
  <2>5. CASE i - Len(s) \in DOMAIN t /\ u[i] = t[i - Len(s)] /\ j - Len(s) \in DOMAIN t /\ u[j] = t[j - Len(s)]
    <3>1. i - Len(s) = j - Len(s)
      BY <2>1, <2>5 DEF Unique
    <3>2. QED
      BY <3>1, <2>3, <1>1
  <2>6. QED
    BY <1>4, <2>1, <2>2, <2>4, <2>5
<1>0. \A i \in DOMAIN s : i \in DOMAIN u /\ u[i] = s[i]
  BY <1>1, <1>2, <1>3 DEF u
<1>6. Keys(u) = Keys(s) \cup Keys(t)
  <2>2. ASSUME NEW j \in DOMAIN t PROVE j + Len(s) \in DOMAIN u /\ u[j + Len(s)] = t[j]
    <3>1. /\ j + Len(s) \in 1 .. Len(s) + Len(t) /\ ~(j + Len(s) <= Len(s))
          /\ j + Len(s) - Len(s) = j
      BY <1>1
    <3>2. QED
      BY <3>1, <1>2, <1>3 DEF u
  <2>3. QED
    BY <2>2, <1>0, <1>4 DEF Keys
<1>7. QED
  BY <1>0, <1>2, <1>4, <1>5, <1>6 DEF u

-----------------------------------------------------------------------------
(* The entities, each as one formula.                                      *)

Entity(kind, key, device, n) == [id |-> <<kind, key>>, device |-> device, nth |-> n]

HubEntity(kind) == [id |-> <<kind>>, device |-> Hub, nth |-> 1]

LEMMA EntityFields ==
  /\ \A kind, key, device, n :
       /\ Entity(kind, key, device, n).id = <<kind, key>>
       /\ Entity(kind, key, device, n).device = device
       /\ Entity(kind, key, device, n).nth = n
  /\ \A kind : HubEntity(kind).id = <<kind>> /\ HubEntity(kind).device = Hub
  BY DEF Entity, HubEntity

\* The entity e is one of those that the rows of s make: the record i makes it.
From(s, i, kind, device, e) == e = Entity(kind, s[i].key, device, i)

\* No record before i has its key.
FirstOfKey(s, i) == \A j \in DOMAIN s : s[j].key = s[i].key => i <= j

\* No pool before i has its key and the value.
FirstWithValue(pools, i, kind) ==
  \A j \in DOMAIN pools : pools[j].key = pools[i].key /\ kind \in PoolSensors(pools[j]) => i <= j

DiskKinds(d, disk) == Temperature(disk) \cup DiskMetrics(d, disk) \cup Smart(disk)

PlainOnes(d) == Where(d.fs, Plain)

StorageEntity(d, e) ==
  \/ \E i \in DOMAIN PlainOnes(d) : \E kind \in FilesystemSensors :
       From(PlainOnes(d), i, kind, FilesystemDevice(d, PlainOnes(d)[i]), e)
  \/ \E i \in DOMAIN d.networks : \E kind \in NetworkSensors :
       From(d.networks, i, kind, Hub, e) /\ FirstOfKey(d.networks, i)
  \/ \E i \in DOMAIN d.raid : \E kind \in RaidSensors :
       From(d.raid, i, kind, RaidDevice(d, d.raid[i]), e) /\ FirstOfKey(d.raid, i)
  \/ \E i \in DOMAIN d.pools : \E kind \in PoolSensors(d.pools[i]) :
       From(d.pools, i, kind, PoolDevice(d.pools[i].key), e) /\ FirstWithValue(d.pools, i, kind)
  \/ \E key \in Measured(d) : \E kind \in TempmonSensors : e = Entity(kind, key, Hub, 1)
  \/ \E key \in d.vms : \E kind \in VmSensors : e = Entity(kind, key, VmDevice(key), 1)
  \/ \E i \in DOMAIN d.datasets : \E kind \in DatasetSensors :
       From(d.datasets, i, kind, DatasetDevice(d.datasets[i].key), e)

SensorEntity(d, e) ==
  \/ \E kind \in HostSensors(d) : e = HubEntity(kind)
  \/ d.summary /\ \E kind \in ComposeSensors : e = HubEntity(kind)
  \/ \E i \in DOMAIN d.projects : \E kind \in ProjectSensors :
       From(d.projects, i, kind, ProjectDevice(d.projects[i].key), e)
  \/ \E i \in DOMAIN d.compose : \E kind \in ContainerSensors(d.compose[i]) :
       From(d.compose, i, kind, ContainerDevice(d.compose[i].key), e)
  \/ \E i \in DOMAIN d.volumes : \E kind \in VolumeSensors :
       From(d.volumes, i, kind, ContainerDevice(d.volumes[i].container), e)
  \/ \E i \in DOMAIN d.disk : \E kind \in DiskKinds(d, d.disk[i]) :
       From(d.disk, i, kind, DiskDevice(d.disk[i].key), e)
  \/ StorageEntity(d, e)

LEMMA StorageMembers ==
  ASSUME NEW d, NEW e
  PROVE  e \in StorageSensors(d) <=> StorageEntity(d, e)
<1> DEFINE networks == Rows(d.networks, KeyOf, LAMBDA n : NetworkSensors, AtHub)
           raids == Rows(d.raid, KeyOf, LAMBDA r : RaidSensors, LAMBDA r : RaidDevice(d, r))
           pools == Rows(d.pools, KeyOf, PoolSensors, LAMBDA p : PoolDevice(p.key))
           plain == Rows(PlainOnes(d), KeyOf, LAMBDA f : FilesystemSensors, LAMBDA f : FilesystemDevice(d, f))
           others == UNION {
              Named(Measured(d), TempmonSensors, AtHub),
              Named(d.vms, VmSensors, VmDevice),
              Rows(d.datasets, KeyOf, LAMBDA c : DatasetSensors, LAMBDA c : DatasetDevice(c.key))}
<1>1. e \in FirstOfEach(networks) <=> \E i \in DOMAIN d.networks : \E kind \in NetworkSensors :
         From(d.networks, i, kind, Hub, e) /\ FirstOfKey(d.networks, i)
  <2>1. \A f : f \in networks <=>
                 \E i \in DOMAIN d.networks : f = Entity("network", d.networks[i].key, Hub, i)
    BY DEF Rows, Entity, NetworkSensors, AtHub, KeyOf
  <2> HIDE DEF networks
  <2>2. QED
    BY <2>1, EntityFields DEF FirstOfEach, FirstOfKey, From, NetworkSensors
<1>2. e \in FirstOfEach(raids) <=> \E i \in DOMAIN d.raid : \E kind \in RaidSensors :
         From(d.raid, i, kind, RaidDevice(d, d.raid[i]), e) /\ FirstOfKey(d.raid, i)
  <2>1. \A f : f \in raids <=>
          \E i \in DOMAIN d.raid : f = Entity("raid", d.raid[i].key, RaidDevice(d, d.raid[i]), i)
    BY DEF Rows, Entity, RaidSensors, KeyOf
  <2> HIDE DEF raids
  <2>2. QED
    BY <2>1, EntityFields DEF FirstOfEach, FirstOfKey, From, RaidSensors
<1>3. e \in FirstOfEach(pools) <=> \E i \in DOMAIN d.pools : \E kind \in PoolSensors(d.pools[i]) :
         From(d.pools, i, kind, PoolDevice(d.pools[i].key), e) /\ FirstWithValue(d.pools, i, kind)
  <2>1. \A f : f \in pools <=>
          \E i \in DOMAIN d.pools : \E kind \in PoolSensors(d.pools[i]) :
            f = Entity(kind, d.pools[i].key, PoolDevice(d.pools[i].key), i)
    BY DEF Rows, Entity, KeyOf
  <2>0. \A i \in DOMAIN d.pools : \A kind \in PoolSensors(d.pools[i]) :
          Entity(kind, d.pools[i].key, PoolDevice(d.pools[i].key), i) \in pools
    BY DEF Rows, Entity, KeyOf
  <2> HIDE DEF pools
  <2>2. ASSUME NEW i \in DOMAIN d.pools, NEW kind \in PoolSensors(d.pools[i]),
               e = Entity(kind, d.pools[i].key, PoolDevice(d.pools[i].key), i)
        PROVE  e \in FirstOfEach(pools) <=> FirstWithValue(d.pools, i, kind)
    <3>1. e \in pools /\ e.id = <<kind, d.pools[i].key>> /\ e.nth = i
      BY <2>0, <2>2, EntityFields
    <3>2. ASSUME e \in FirstOfEach(pools), NEW j \in DOMAIN d.pools,
                 d.pools[j].key = d.pools[i].key, kind \in PoolSensors(d.pools[j])
          PROVE  i <= j
      <4> DEFINE f == Entity(kind, d.pools[j].key, PoolDevice(d.pools[j].key), j)
      <4>1. f \in pools
        BY <2>0, <3>2
      <4>2. f.id = <<kind, d.pools[j].key>> /\ f.nth = j
        BY EntityFields
      <4> HIDE DEF f
      <4>3. QED
        BY <3>1, <3>2, <4>1, <4>2 DEF FirstOfEach
    <3>3. ASSUME FirstWithValue(d.pools, i, kind), NEW f \in pools, f.id = e.id
          PROVE  e.nth <= f.nth
      BY <2>1, <3>1, <3>3, EntityFields DEF FirstWithValue
    <3>4. QED
      BY <3>1, <3>2, <3>3 DEF FirstOfEach, FirstWithValue
  <2>3. e \in FirstOfEach(pools) =>
          \E i \in DOMAIN d.pools : \E kind \in PoolSensors(d.pools[i]) :
            e = Entity(kind, d.pools[i].key, PoolDevice(d.pools[i].key), i)
    BY <2>1 DEF FirstOfEach
  <2>4. QED
    BY <2>2, <2>3 DEF From
<1>4. e \in plain <=> \E i \in DOMAIN PlainOnes(d) : \E kind \in FilesystemSensors :
     From(PlainOnes(d), i, kind, FilesystemDevice(d, PlainOnes(d)[i]), e)
  BY DEF Rows, From, Entity, KeyOf
<1>5. e \in others <=>
        \/ \E key \in Measured(d) : \E kind \in TempmonSensors : e = Entity(kind, key, Hub, 1)
        \/ \E key \in d.vms : \E kind \in VmSensors : e = Entity(kind, key, VmDevice(key), 1)
        \/ \E i \in DOMAIN d.datasets : \E kind \in DatasetSensors :
             From(d.datasets, i, kind, DatasetDevice(d.datasets[i].key), e)
  BY DEF Rows, Named, From, Entity, KeyOf, AtHub
<1>6. e \in StorageSensors(d) <=>
        \/ e \in FirstOfEach(networks) \/ e \in FirstOfEach(raids) \/ e \in FirstOfEach(pools)
        \/ e \in plain \/ e \in others
  BY DEF StorageSensors, PlainOnes, FirstOfEach, Rows, Named
<1> HIDE DEF networks, raids, pools, plain, others
<1>7. QED
  BY <1>1, <1>2, <1>3, <1>4, <1>5, <1>6 DEF StorageEntity

LEMMA SensorMembers ==
  ASSUME NEW d, NEW e
  PROVE  e \in CreatedSensors(d) <=> SensorEntity(d, e)
<1>1. e \in DiskSensors(d) <=> \E i \in DOMAIN d.disk : \E kind \in DiskKinds(d, d.disk[i]) :
       From(d.disk, i, kind, DiskDevice(d.disk[i].key), e)
  BY DEF DiskSensors, DiskKinds, Rows, From, Entity, KeyOf
<1>2. e \in CreatedSensors(d) <=>
        \/ \E kind \in HostSensors(d) : e = HubEntity(kind)
        \/ d.summary /\ \E kind \in ComposeSensors : e = HubEntity(kind)
        \/ \E i \in DOMAIN d.projects : \E kind \in ProjectSensors :
             From(d.projects, i, kind, ProjectDevice(d.projects[i].key), e)
        \/ \E i \in DOMAIN d.compose : \E kind \in ContainerSensors(d.compose[i]) :
             From(d.compose, i, kind, ContainerDevice(d.compose[i].key), e)
        \/ \E i \in DOMAIN d.volumes : \E kind \in VolumeSensors :
             From(d.volumes, i, kind, ContainerDevice(d.volumes[i].container), e)
        \/ e \in DiskSensors(d)
        \/ e \in StorageSensors(d)
  BY DEF CreatedSensors, Rows, From, Entity, HubEntity, OfHub, KeyOf
<1>3. QED
  BY <1>1, <1>2, StorageMembers DEF SensorEntity

BinaryEntity(d, e) ==
  \/ \E kind \in {"reboot_required", "reachable"} : e = HubEntity(kind)
  \/ d.nut # {} /\ e = HubEntity("ups_on_battery")
  \/ \E key \in d.services : e = Entity("service", key, Hub, 1)
  \/ \E i \in DOMAIN d.disk : \E kind \in Problems(d.disk[i]) :
       From(d.disk, i, kind, DiskDevice(d.disk[i].key), e)
  \/ \E key \in d.vms : e = Entity("vm_running", key, VmDevice(key), 1)
  \/ \E key \in d.rsync : e = Entity("rsync_enabled", key, Hub, 1)
  \/ \E i \in DOMAIN d.pools :
       From(d.pools, i, "scrub_active", PoolDevice(d.pools[i].key), e) /\ FirstOfKey(d.pools, i)

LEMMA BinaryMembers ==
  ASSUME NEW d, NEW e
  PROVE  e \in CreatedBinarySensors(d) <=> BinaryEntity(d, e)
<1> DEFINE pools == Rows(d.pools, KeyOf, LAMBDA p : {"scrub_active"}, LAMBDA p : PoolDevice(p.key))
<1>1. \A f : f \in pools <=> \E i \in DOMAIN d.pools :
        f = Entity("scrub_active", d.pools[i].key, PoolDevice(d.pools[i].key), i)
  BY DEF Rows, Entity, KeyOf
<1>2. e \in CreatedBinarySensors(d) <=>
        \/ \E kind \in {"reboot_required", "reachable"} : e = HubEntity(kind)
        \/ d.nut # {} /\ e = HubEntity("ups_on_battery")
        \/ \E key \in d.services : e = Entity("service", key, Hub, 1)
        \/ \E i \in DOMAIN d.disk : \E kind \in Problems(d.disk[i]) :
             From(d.disk, i, kind, DiskDevice(d.disk[i].key), e)
        \/ \E key \in d.vms : e = Entity("vm_running", key, VmDevice(key), 1)
        \/ \E key \in d.rsync : e = Entity("rsync_enabled", key, Hub, 1)
        \/ e \in FirstOfEach(pools)
  BY DEF CreatedBinarySensors, Rows, Named, Entity, HubEntity, From, AtHub, KeyOf, OfHub, FirstOfEach
<1> HIDE DEF pools
<1>3. e \in FirstOfEach(pools) <=> \E i \in DOMAIN d.pools :
       From(d.pools, i, "scrub_active", PoolDevice(d.pools[i].key), e) /\ FirstOfKey(d.pools, i)
  BY <1>1, EntityFields DEF FirstOfEach, FirstOfKey, From
<1>4. QED
  BY <1>2, <1>3 DEF BinaryEntity

ButtonEntity(d, cron, e) ==
  \/ \E kind \in {"reboot", "shutdown", "standby", "apply_config"} : e = HubEntity(kind)
  \/ d.summary /\ e = HubEntity("compose_system_button")
  \/ \E i \in DOMAIN d.projects :
       d.projects[i].uuid
         /\ From(d.projects, i, "compose_button", ProjectDevice(d.projects[i].key), e)
  \/ \E i \in DOMAIN d.compose :
       From(d.compose, i, "container_restart", ContainerDevice(d.compose[i].key), e)
  \/ \E key \in d.vms : e = Entity("vm_restart", key, VmDevice(key), 1)
  \/ \E key \in d.rsync : e = Entity("rsync_run", key, Hub, 1)
  \/ \E key \in d.cron \cap cron : e = Entity("cron_run", key, Hub, 1)
  \/ \E i \in DOMAIN d.pools :
       From(d.pools, i, "scrub", PoolDevice(d.pools[i].key), e) /\ FirstOfKey(d.pools, i)
  \/ \E key \in Wakeable(d) : e = Entity("wol", key, Hub, 1)

LEMMA ButtonMembers ==
  ASSUME NEW d, NEW cron, NEW e
  PROVE  e \in CreatedButtons(d, cron) <=> ButtonEntity(d, cron, e)
<1> DEFINE pools == Rows(d.pools, KeyOf, LAMBDA p : {"scrub"}, LAMBDA p : PoolDevice(p.key))
<1>1. \A f : f \in pools <=> \E i \in DOMAIN d.pools :
        f = Entity("scrub", d.pools[i].key, PoolDevice(d.pools[i].key), i)
  BY DEF Rows, Entity, KeyOf
<1>2. e \in CreatedButtons(d, cron) <=>
        \/ \E kind \in {"reboot", "shutdown", "standby", "apply_config"} : e = HubEntity(kind)
        \/ d.summary /\ e = HubEntity("compose_system_button")
        \/ \E i \in DOMAIN d.projects :
             d.projects[i].uuid
               /\ From(d.projects, i, "compose_button", ProjectDevice(d.projects[i].key), e)
        \/ \E i \in DOMAIN d.compose :
             From(d.compose, i, "container_restart", ContainerDevice(d.compose[i].key), e)
        \/ \E key \in d.vms : e = Entity("vm_restart", key, VmDevice(key), 1)
        \/ \E key \in d.rsync : e = Entity("rsync_run", key, Hub, 1)
        \/ \E key \in d.cron \cap cron : e = Entity("cron_run", key, Hub, 1)
        \/ \E key \in Wakeable(d) : e = Entity("wol", key, Hub, 1)
        \/ e \in FirstOfEach(pools)
  BY DEF CreatedButtons, Rows, Named, Entity, HubEntity, From, AtHub, KeyOf, OfHub, FirstOfEach
<1> HIDE DEF pools
<1>3. e \in FirstOfEach(pools) <=> \E i \in DOMAIN d.pools :
       From(d.pools, i, "scrub", PoolDevice(d.pools[i].key), e) /\ FirstOfKey(d.pools, i)
  BY <1>1, EntityFields DEF FirstOfEach, FirstOfKey, From
<1>4. QED
  BY <1>2, <1>3 DEF ButtonEntity

SwitchEntity(d, e) ==
  \/ \E i \in DOMAIN d.compose :
       From(d.compose, i, "container_switch", ContainerDevice(d.compose[i].key), e)
  \/ \E key \in d.vms : e = Entity("vm_switch", key, VmDevice(key), 1)

LEMMA SwitchMembers ==
  ASSUME NEW d, NEW e
  PROVE  e \in CreatedSwitches(d) <=> SwitchEntity(d, e)
  BY DEF CreatedSwitches, Rows, Named, KeyOf, Entity, From, SwitchEntity

-----------------------------------------------------------------------------
(* What the platforms create is what the clean-up expects.                 *)

\* The record of the first one of a key.
LEMMA FirstOfKeyExists ==
  ASSUME NEW s, DOMAIN s \subseteq Nat, NEW k \in DOMAIN s
  PROVE  \E i \in DOMAIN s : s[i].key = s[k].key /\ FirstOfKey(s, i)
<1> DEFINE N == {i \in DOMAIN s : s[i].key = s[k].key}
<1>1. N \subseteq Nat /\ N # {}
  OBVIOUS
<1>2. PICK i \in N : \A j \in N : i <= j
  BY <1>1, LeastExists
<1>3. QED
  BY <1>2 DEF FirstOfKey

LEMMA FirstWithValueExists ==
  ASSUME NEW s, DOMAIN s \subseteq Nat, NEW k \in DOMAIN s, NEW kind \in PoolSensors(s[k])
  PROVE  \E i \in DOMAIN s :
           s[i].key = s[k].key /\ kind \in PoolSensors(s[i]) /\ FirstWithValue(s, i, kind)
<1> DEFINE N == {i \in DOMAIN s : s[i].key = s[k].key /\ kind \in PoolSensors(s[i])}
<1>1. N \subseteq Nat /\ N # {}
  OBVIOUS
<1>2. PICK i \in N : \A j \in N : i <= j
  BY <1>1, LeastExists
<1>3. QED
  BY <1>2 DEF FirstWithValue

StorageId(d, x) ==
  \/ \E i \in DOMAIN PlainOnes(d) : x = <<"filesystem", PlainOnes(d)[i].key>>
  \/ \E i \in DOMAIN d.networks : x = <<"network", d.networks[i].key>>
  \/ \E i \in DOMAIN d.raid : x = <<"raid", d.raid[i].key>>
  \/ \E i \in DOMAIN d.pools : \E kind \in PoolSensors(d.pools[i]) : x = <<kind, d.pools[i].key>>
  \/ \E key \in d.vms : x = <<"vm_state", key>>
  \/ \E i \in DOMAIN d.datasets : x = <<"zfs_dataset", d.datasets[i].key>>

SensorId(d, x) ==
  \/ \E kind \in HostSensors(d) : x = <<kind>>
  \/ d.summary /\ x = <<"docker_container">>
  \/ \E i \in DOMAIN d.projects : x = <<"compose_project", d.projects[i].key>>
  \/ \E i \in DOMAIN d.compose : \E kind \in ContainerSensors(d.compose[i]) :
       x = <<kind, d.compose[i].key>>
  \/ \E i \in DOMAIN d.volumes : x = <<"container_volume_size", d.volumes[i].key>>
  \/ \E i \in DOMAIN d.disk : \E kind \in DiskKinds(d, d.disk[i]) : x = <<kind, d.disk[i].key>>
  \/ StorageId(d, x)

LEMMA ExpectedSensorMembers ==
  ASSUME NEW d, NEW x
  PROVE  x \in ExpectedSensorIds(d) <=> SensorId(d, x)
  BY DEF ExpectedSensorIds, SensorId, StorageId, Ids, KeyOf, PlainOnes, DiskKinds, ComposeSensors,
         ProjectSensors, VolumeSensors, FilesystemSensors, NetworkSensors, RaidSensors,
         VmSensors, DatasetSensors

LEMMA StorageIds ==
  ASSUME NEW d
  PROVE  \A e : StorageEntity(d, e) => StorageId(d, e.id) \/ e.id[1] = "tempmon"
  BY EntityFields DEF StorageEntity, StorageId, From, FilesystemSensors, NetworkSensors,
         RaidSensors, VmSensors, DatasetSensors, TempmonSensors

LEMMA SensorIds ==
  ASSUME NEW d
  PROVE  \A e : SensorEntity(d, e) => SensorId(d, e.id) \/ e.id[1] = "tempmon"
  BY StorageIds, EntityFields DEF SensorEntity, SensorId, From, ComposeSensors,
         ProjectSensors, VolumeSensors

LEMMA StorageIdsCreated ==
  ASSUME NEW d, DOMAIN d.networks \subseteq Nat, DOMAIN d.raid \subseteq Nat,
         DOMAIN d.pools \subseteq Nat, NEW x, StorageId(d, x)
  PROVE  \E e : StorageEntity(d, e) /\ e.id = x
<1>1. CASE \E i \in DOMAIN PlainOnes(d) : x = <<"filesystem", PlainOnes(d)[i].key>>
  BY <1>1, EntityFields DEF StorageEntity, From, FilesystemSensors
<1>2. CASE \E i \in DOMAIN d.networks : x = <<"network", d.networks[i].key>>
  <2>1. PICK i \in DOMAIN d.networks : x = <<"network", d.networks[i].key>> /\ FirstOfKey(d.networks, i)
    BY <1>2, FirstOfKeyExists
  <2>2. QED
    BY <2>1, EntityFields DEF StorageEntity, From, NetworkSensors
<1>3. CASE \E i \in DOMAIN d.raid : x = <<"raid", d.raid[i].key>>
  <2>1. PICK i \in DOMAIN d.raid : x = <<"raid", d.raid[i].key>> /\ FirstOfKey(d.raid, i)
    BY <1>3, FirstOfKeyExists
  <2>2. QED
    BY <2>1, EntityFields DEF StorageEntity, From, RaidSensors
<1>4. CASE \E i \in DOMAIN d.pools : \E kind \in PoolSensors(d.pools[i]) : x = <<kind, d.pools[i].key>>
  <2>1. PICK i \in DOMAIN d.pools : \E kind \in PoolSensors(d.pools[i]) :
          x = <<kind, d.pools[i].key>> /\ FirstWithValue(d.pools, i, kind)
    BY <1>4, FirstWithValueExists
  <2>2. QED
    BY <2>1, EntityFields DEF StorageEntity, From
<1>5. CASE \E key \in d.vms : x = <<"vm_state", key>>
  BY <1>5, EntityFields DEF StorageEntity, VmSensors
<1>6. CASE \E i \in DOMAIN d.datasets : x = <<"zfs_dataset", d.datasets[i].key>>
  BY <1>6, EntityFields DEF StorageEntity, From, DatasetSensors
<1>7. QED
  BY <1>1, <1>2, <1>3, <1>4, <1>5, <1>6 DEF StorageId

LEMMA SensorIdsCreated ==
  ASSUME NEW d, DOMAIN d.networks \subseteq Nat, DOMAIN d.raid \subseteq Nat,
         DOMAIN d.pools \subseteq Nat, NEW x, SensorId(d, x)
  PROVE  \E e : SensorEntity(d, e) /\ e.id = x
<1>1. CASE \E kind \in HostSensors(d) : x = <<kind>>
  BY <1>1, EntityFields DEF SensorEntity
<1>2. CASE d.summary /\ x = <<"docker_container">>
  BY <1>2, EntityFields DEF SensorEntity, ComposeSensors
<1>3. CASE \E i \in DOMAIN d.projects : x = <<"compose_project", d.projects[i].key>>
  BY <1>3, EntityFields DEF SensorEntity, From, ProjectSensors
<1>4. CASE \E i \in DOMAIN d.compose : \E kind \in ContainerSensors(d.compose[i]) :
             x = <<kind, d.compose[i].key>>
  <2>1. PICK i \in DOMAIN d.compose : \E kind \in ContainerSensors(d.compose[i]) :
          x = <<kind, d.compose[i].key>>
    BY <1>4
  <2>2. PICK kind \in ContainerSensors(d.compose[i]) : x = <<kind, d.compose[i].key>>
    BY <2>1
  <2>3. SensorEntity(d, Entity(kind, d.compose[i].key, ContainerDevice(d.compose[i].key), i))
    BY <2>1, <2>2 DEF SensorEntity, From
  <2>4. QED
    BY <2>2, <2>3, EntityFields
<1>5. CASE \E i \in DOMAIN d.volumes : x = <<"container_volume_size", d.volumes[i].key>>
  BY <1>5, EntityFields DEF SensorEntity, From, VolumeSensors
<1>6. CASE \E i \in DOMAIN d.disk : \E kind \in DiskKinds(d, d.disk[i]) :
             x = <<kind, d.disk[i].key>>
  <2>1. PICK i \in DOMAIN d.disk : \E kind \in DiskKinds(d, d.disk[i]) : x = <<kind, d.disk[i].key>>
    BY <1>6
  <2>2. PICK kind \in DiskKinds(d, d.disk[i]) : x = <<kind, d.disk[i].key>>
    BY <2>1
  <2>3. SensorEntity(d, Entity(kind, d.disk[i].key, DiskDevice(d.disk[i].key), i))
    BY <2>1, <2>2 DEF SensorEntity, From
  <2>4. QED
    BY <2>2, <2>3, EntityFields
<1>7. CASE StorageId(d, x)
  BY <1>7, StorageIdsCreated DEF SensorEntity
<1>8. QED
  BY <1>1, <1>2, <1>3, <1>4, <1>5, <1>6, <1>7 DEF SensorId

BinaryId(d, x) ==
  \/ \E kind \in {"reboot_required", "reachable"} : x = <<kind>>
  \/ d.nut # {} /\ x = <<"ups_on_battery">>
  \/ \E key \in d.services : x = <<"service", key>>
  \/ \E i \in DOMAIN d.disk : \E kind \in Problems(d.disk[i]) : x = <<kind, d.disk[i].key>>
  \/ \E key \in d.vms : x = <<"vm_running", key>>
  \/ \E key \in d.rsync : x = <<"rsync_enabled", key>>
  \/ \E i \in DOMAIN d.pools : x = <<"scrub_active", d.pools[i].key>>

LEMMA ExpectedBinaryMembers ==
  ASSUME NEW d, NEW x
  PROVE  x \in ExpectedBinarySensorIds(d) <=> BinaryId(d, x)
  BY DEF ExpectedBinarySensorIds, BinaryId, Ids, KeyOf

LEMMA BinaryIds ==
  ASSUME NEW d
  PROVE  \A e : BinaryEntity(d, e) => BinaryId(d, e.id)
  BY EntityFields DEF BinaryEntity, BinaryId, From

LEMMA BinaryIdsCreated ==
  ASSUME NEW d, DOMAIN d.pools \subseteq Nat, NEW x, BinaryId(d, x)
  PROVE  \E e : BinaryEntity(d, e) /\ e.id = x
<1>1. CASE \E kind \in {"reboot_required", "reachable"} : x = <<kind>>
  <2>1. PICK kind \in {"reboot_required", "reachable"} : x = <<kind>>
    BY <1>1
  <2>2. BinaryEntity(d, HubEntity(kind))
    BY <1>1, <2>1 DEF BinaryEntity, From
  <2>3. QED
    BY <2>1, <2>2, EntityFields
<1>2. CASE d.nut # {} /\ x = <<"ups_on_battery">>
  <2>1. BinaryEntity(d, HubEntity("ups_on_battery"))
    BY <1>2 DEF BinaryEntity
  <2>2. QED
    BY <1>2, <2>1, EntityFields
<1>3. CASE \E key \in d.services : x = <<"service", key>>
  <2>1. PICK key \in d.services : x = <<"service", key>>
    BY <1>3
  <2>2. BinaryEntity(d, Entity("service", key, Hub, 1))
    BY <1>3, <2>1 DEF BinaryEntity, From
  <2>3. QED
    BY <2>1, <2>2, EntityFields
<1>4. CASE \E i \in DOMAIN d.disk : \E kind \in Problems(d.disk[i]) : x = <<kind, d.disk[i].key>>
  <2>1. PICK i \in DOMAIN d.disk : \E kind \in Problems(d.disk[i]) : x = <<kind, d.disk[i].key>>
    BY <1>4
  <2>2. PICK kind \in Problems(d.disk[i]) : x = <<kind, d.disk[i].key>>
    BY <2>1
  <2>3. BinaryEntity(d, Entity(kind, d.disk[i].key, DiskDevice(d.disk[i].key), i))
    BY <2>1, <2>2 DEF BinaryEntity, From
  <2>4. QED
    BY <2>2, <2>3, EntityFields
<1>5. CASE \E key \in d.vms : x = <<"vm_running", key>>
  <2>1. PICK key \in d.vms : x = <<"vm_running", key>>
    BY <1>5
  <2>2. BinaryEntity(d, Entity("vm_running", key, VmDevice(key), 1))
    BY <1>5, <2>1 DEF BinaryEntity, From
  <2>3. QED
    BY <2>1, <2>2, EntityFields
<1>6. CASE \E key \in d.rsync : x = <<"rsync_enabled", key>>
  <2>1. PICK key \in d.rsync : x = <<"rsync_enabled", key>>
    BY <1>6
  <2>2. BinaryEntity(d, Entity("rsync_enabled", key, Hub, 1))
    BY <1>6, <2>1 DEF BinaryEntity, From
  <2>3. QED
    BY <2>1, <2>2, EntityFields
<1>7. CASE \E i \in DOMAIN d.pools : x = <<"scrub_active", d.pools[i].key>>
  <2>1. PICK i \in DOMAIN d.pools :
          x = <<"scrub_active", d.pools[i].key>> /\ FirstOfKey(d.pools, i)
    BY <1>7, FirstOfKeyExists
  <2>2. BinaryEntity(d, Entity("scrub_active", d.pools[i].key, PoolDevice(d.pools[i].key), i))
    BY <1>7, <2>1 DEF BinaryEntity, From
  <2>3. QED
    BY <2>1, <2>2, EntityFields
<1>8. QED
  BY <1>1, <1>2, <1>3, <1>4, <1>5, <1>6, <1>7 DEF BinaryId

ButtonId(d, cron, x) ==
  \/ \E kind \in {"reboot", "shutdown", "standby", "apply_config"} : x = <<kind>>
  \/ d.summary /\ x = <<"compose_system_button">>
  \/ \E i \in DOMAIN d.projects :
       d.projects[i].uuid /\ x = <<"compose_button", d.projects[i].key>>
  \/ \E i \in DOMAIN d.compose : x = <<"container_restart", d.compose[i].key>>
  \/ \E key \in d.vms : x = <<"vm_restart", key>>
  \/ \E key \in d.rsync : x = <<"rsync_run", key>>
  \/ \E key \in d.cron \cap cron : x = <<"cron_run", key>>
  \/ \E i \in DOMAIN d.pools : x = <<"scrub", d.pools[i].key>>
  \/ \E key \in Wakeable(d) : x = <<"wol", key>>

LEMMA ExpectedButtonMembers ==
  ASSUME NEW d, NEW cron, NEW x
  PROVE  x \in ExpectedButtonIds(d, cron) <=> ButtonId(d, cron, x)
  BY DEF ExpectedButtonIds, ButtonId, Ids, KeyOf

LEMMA ButtonIds ==
  ASSUME NEW d, NEW cron
  PROVE  \A e : ButtonEntity(d, cron, e) => ButtonId(d, cron, e.id)
  BY EntityFields DEF ButtonEntity, ButtonId, From

LEMMA ButtonIdsCreated ==
  ASSUME NEW d, DOMAIN d.pools \subseteq Nat, NEW cron, NEW x, ButtonId(d, cron, x)
  PROVE  \E e : ButtonEntity(d, cron, e) /\ e.id = x
<1>1. CASE \E kind \in {"reboot", "shutdown", "standby", "apply_config"} : x = <<kind>>
  <2>1. PICK kind \in {"reboot", "shutdown", "standby", "apply_config"} : x = <<kind>>
    BY <1>1
  <2>2. ButtonEntity(d, cron, HubEntity(kind))
    BY <1>1, <2>1 DEF ButtonEntity, From
  <2>3. QED
    BY <2>1, <2>2, EntityFields
<1>2. CASE d.summary /\ x = <<"compose_system_button">>
  <2>1. ButtonEntity(d, cron, HubEntity("compose_system_button"))
    BY <1>2 DEF ButtonEntity
  <2>2. QED
    BY <1>2, <2>1, EntityFields
<1>3. CASE \E i \in DOMAIN d.projects :
             d.projects[i].uuid /\ x = <<"compose_button", d.projects[i].key>>
  <2>1. PICK i \in DOMAIN d.projects :
          d.projects[i].uuid /\ x = <<"compose_button", d.projects[i].key>>
    BY <1>3
  <2>2. ButtonEntity(d, cron, Entity("compose_button", d.projects[i].key, ProjectDevice(d.projects[i].key), i))
    BY <1>3, <2>1 DEF ButtonEntity, From
  <2>3. QED
    BY <2>1, <2>2, EntityFields
<1>4. CASE \E i \in DOMAIN d.compose : x = <<"container_restart", d.compose[i].key>>
  <2>1. PICK i \in DOMAIN d.compose : x = <<"container_restart", d.compose[i].key>>
    BY <1>4
  <2>2. ButtonEntity(d, cron, Entity("container_restart", d.compose[i].key, ContainerDevice(d.compose[i].key), i))
    BY <1>4, <2>1 DEF ButtonEntity, From
  <2>3. QED
    BY <2>1, <2>2, EntityFields
<1>5. CASE \E key \in d.vms : x = <<"vm_restart", key>>
  <2>1. PICK key \in d.vms : x = <<"vm_restart", key>>
    BY <1>5
  <2>2. ButtonEntity(d, cron, Entity("vm_restart", key, VmDevice(key), 1))
    BY <1>5, <2>1 DEF ButtonEntity, From
  <2>3. QED
    BY <2>1, <2>2, EntityFields
<1>6. CASE \E key \in d.rsync : x = <<"rsync_run", key>>
  <2>1. PICK key \in d.rsync : x = <<"rsync_run", key>>
    BY <1>6
  <2>2. ButtonEntity(d, cron, Entity("rsync_run", key, Hub, 1))
    BY <1>6, <2>1 DEF ButtonEntity, From
  <2>3. QED
    BY <2>1, <2>2, EntityFields
<1>7. CASE \E key \in d.cron \cap cron : x = <<"cron_run", key>>
  <2>1. PICK key \in d.cron \cap cron : x = <<"cron_run", key>>
    BY <1>7
  <2>2. ButtonEntity(d, cron, Entity("cron_run", key, Hub, 1))
    BY <1>7, <2>1 DEF ButtonEntity, From
  <2>3. QED
    BY <2>1, <2>2, EntityFields
<1>8. CASE \E i \in DOMAIN d.pools : x = <<"scrub", d.pools[i].key>>
  <2>1. PICK i \in DOMAIN d.pools :
          x = <<"scrub", d.pools[i].key>> /\ FirstOfKey(d.pools, i)
    BY <1>8, FirstOfKeyExists
  <2>2. ButtonEntity(d, cron, Entity("scrub", d.pools[i].key, PoolDevice(d.pools[i].key), i))
    BY <1>8, <2>1 DEF ButtonEntity, From
  <2>3. QED
    BY <2>1, <2>2, EntityFields
<1>9. CASE \E key \in Wakeable(d) : x = <<"wol", key>>
  <2>1. PICK key \in Wakeable(d) : x = <<"wol", key>>
    BY <1>9
  <2>2. ButtonEntity(d, cron, Entity("wol", key, Hub, 1))
    BY <1>9, <2>1 DEF ButtonEntity, From
  <2>3. QED
    BY <2>1, <2>2, EntityFields
<1>10. QED
  BY <1>1, <1>2, <1>3, <1>4, <1>5, <1>6, <1>7, <1>8, <1>9 DEF ButtonId

SwitchId(d, x) ==
  \/ \E i \in DOMAIN d.compose : x = <<"container_switch", d.compose[i].key>>
  \/ \E key \in d.vms : x = <<"vm_switch", key>>

LEMMA ExpectedSwitchMembers ==
  ASSUME NEW d, NEW x
  PROVE  x \in ExpectedSwitchIds(d) <=> SwitchId(d, x)
  BY DEF ExpectedSwitchIds, SwitchId, Ids, KeyOf

LEMMA SwitchIds ==
  ASSUME NEW d
  PROVE  /\ \A e : SwitchEntity(d, e) => SwitchId(d, e.id)
         /\ \A x : SwitchId(d, x) => \E e : SwitchEntity(d, e) /\ e.id = x
<1>1. \A e : SwitchEntity(d, e) => SwitchId(d, e.id)
  BY EntityFields DEF SwitchEntity, SwitchId, From
<1>2. \A x : SwitchId(d, x) => \E e : SwitchEntity(d, e) /\ e.id = x
  BY EntityFields DEF SwitchEntity, SwitchId, From
<1>3. QED
  BY <1>1, <1>2

CreatedEntity(d, cron, e) ==
  \/ SensorEntity(d, e)
  \/ BinaryEntity(d, e)
  \/ ButtonEntity(d, cron, e)
  \/ SwitchEntity(d, e)

LEMMA CreatedMembers ==
  ASSUME NEW d, NEW cron, NEW e
  PROVE  e \in Created(d, cron) <=> CreatedEntity(d, cron, e)
  BY SensorMembers, BinaryMembers, ButtonMembers, SwitchMembers DEF Created, CreatedEntity

LEMMA ExpectedMembers ==
  ASSUME NEW d, NEW cron, NEW x
  PROVE  x \in Expected(d, cron) <=>
           SensorId(d, x) \/ BinaryId(d, x) \/ ButtonId(d, cron, x) \/ SwitchId(d, x)
  BY ExpectedSensorMembers, ExpectedBinaryMembers, ExpectedButtonMembers, ExpectedSwitchMembers
     DEF Expected

LEMMA IdsExpected ==
  ASSUME NEW d, NEW cron, NEW e \in Created(d, cron)
  PROVE  e.id \in Expected(d, cron) \/ e.id[1] = "tempmon"
  BY CreatedMembers, ExpectedMembers, SensorIds, BinaryIds, ButtonIds, SwitchIds DEF CreatedEntity

LEMMA ExpectedCreated ==
  ASSUME NEW d, NEW cron, DOMAIN d.networks \subseteq Nat, DOMAIN d.raid \subseteq Nat,
         DOMAIN d.pools \subseteq Nat, NEW x \in Expected(d, cron)
  PROVE  \E e \in Created(d, cron) : e.id = x
<1>1. \E e : CreatedEntity(d, cron, e) /\ e.id = x
  BY ExpectedMembers, SensorIdsCreated, BinaryIdsCreated, ButtonIdsCreated, SwitchIds
     DEF CreatedEntity
<1>2. QED
  BY <1>1, CreatedMembers

\* The devices that the sensors name.
DeviceOf(d, v) ==
  \/ v = Hub
  \/ \E i \in DOMAIN d.disk : DiskKinds(d, d.disk[i]) # {} /\ v = DiskDevice(d.disk[i].key)
  \/ \E i \in DOMAIN PlainOnes(d) : v = FilesystemDevice(d, PlainOnes(d)[i])
  \/ \E i \in DOMAIN d.projects : v = ProjectDevice(d.projects[i].key)
  \/ \E i \in DOMAIN d.compose : v = ContainerDevice(d.compose[i].key)
  \/ \E i \in DOMAIN d.volumes : v = ContainerDevice(d.volumes[i].container)
  \/ \E i \in DOMAIN d.raid : v = RaidDevice(d, d.raid[i])
  \/ \E i \in DOMAIN d.pools : v = PoolDevice(d.pools[i].key)
  \/ \E vm \in d.vms : v = VmDevice(vm)
  \/ \E i \in DOMAIN d.datasets : v = DatasetDevice(d.datasets[i].key)

LEMMA ExpectedDeviceMembers ==
  ASSUME NEW d, NEW v
  PROVE  v \in ExpectedDevices(d) <=> DeviceOf(d, v)
  BY DEF ExpectedDevices, DeviceOf, DiskKinds, PlainOnes

LEMMA StorageDevices ==
  ASSUME NEW d, NEW e, StorageEntity(d, e)
  PROVE  DeviceOf(d, e.device)
  BY EntityFields DEF StorageEntity, From, DeviceOf

LEMMA DevicesExpected ==
  ASSUME NEW d, NEW cron, NEW e \in Created(d, cron)
  PROVE  e.device \in ExpectedDevices(d)
<1>1. SensorEntity(d, e) => DeviceOf(d, e.device)
  <2>1. CASE StorageEntity(d, e)
    BY <2>1, StorageDevices
  <2>2. CASE ~StorageEntity(d, e)
    BY <2>2, EntityFields DEF SensorEntity, From, DeviceOf
  <2>3. QED
    BY <2>1, <2>2
<1>2. BinaryEntity(d, e) => DeviceOf(d, e.device)
  BY EntityFields DEF BinaryEntity, From, DeviceOf, Problems, DiskKinds, Smart
<1>3. ButtonEntity(d, cron, e) => DeviceOf(d, e.device)
  BY EntityFields DEF ButtonEntity, From, DeviceOf
<1>4. SwitchEntity(d, e) => DeviceOf(d, e.device)
  BY EntityFields DEF SwitchEntity, From, DeviceOf
<1>5. QED
  BY <1>1, <1>2, <1>3, <1>4, CreatedMembers, ExpectedDeviceMembers DEF CreatedEntity

-----------------------------------------------------------------------------
(* What the selection lets through.                                        *)

Parts ==
  {"disk", "fs", "known", "raid", "pools", "datasets", "compose", "projects", "volumes", "summary",
   "services", "networks", "tempmon", "nut", "vms", "rsync", "cron", "host"}

Shown(s, field, o) == {i \in DOMAIN s : Passes(s[i].key, SelectedValues(o, field))}

LEMMA InventoryParts ==
  ASSUME NEW a, NEW stored
  PROVE  NormalizeInventory(a, stored) = [f \in Parts |-> NormalizeInventory(a, stored)[f]]
<1> DEFINE S == NormalizeInventory(a, stored)
<1>1. S = [f \in DOMAIN S |-> S[f]] /\ DOMAIN S = Parts
  BY DEF NormalizeInventory, Parts
<1>2. QED
  BY <1>1

OfShownPools(s, o) ==
  {i \in DOMAIN s : Passes(s[i].pool, SelectedValues(o, "pools"))}

OfShownContainers(s, compose) == {i \in DOMAIN s : s[i].container \in Keys(compose)}

\* d is what the selection o lets through of s.
IsFiltered(s, o, d) ==
  /\ d.fs = At(s.fs, Shown(s.fs, "filesystems", o))
  /\ d.networks = At(s.networks, Shown(s.networks, "networks", o))
  /\ d.raid = At(s.raid, Shown(s.raid, "raids", o))
  /\ d.pools = At(s.pools, Shown(s.pools, "pools", o))
  /\ d.datasets = At(s.datasets, OfShownPools(s.datasets, o))
  /\ d.disk = FilterDisks(s.disk, o)
  /\ d.compose = FilterCompose(s.compose, o)
  /\ d.projects = FilterProjects(s.projects, d.compose, o)
  /\ d.volumes = At(s.volumes, OfShownContainers(s.volumes, d.compose))
  /\ d.known = Keys(s.disk)
  /\ d.vms = {v \in s.vms : Passes(v, SelectedValues(o, "vms"))}
  /\ d.services = {x \in s.services : Passes(x, SelectedValues(o, "services"))}
  /\ d.rsync = s.rsync /\ d.cron = s.cron /\ d.host = s.host /\ d.nut = s.nut
  /\ d.tempmon = s.tempmon /\ d.summary = HasContainerService(d.services)

LEMMA Filtered ==
  ASSUME NEW s, s = [f \in Parts |-> s[f]], NEW o
  PROVE  IsFiltered(s, o, FilterDataBySelection(s, o))
<1>1. \A f \in Parts : f \in DOMAIN s
  OBVIOUS
<1>2. QED
  BY <1>1 DEF FilterDataBySelection, Where, Shown, Parts, IsFiltered, OfShownPools,
              OfShownContainers

\* Disks and arrays of the inventory; no prover knows that "unknown" is a STRING.
Disks ==
  [key : Devices, israid : BOOLEAN, logical : BOOLEAN, virtual : BOOLEAN,
   status : STRING \cup {"unknown"},
   array : MdDevices \cup {None}, members : SUBSET Devices, size : Nat, values : SUBSET STRING]

\* Each record of c, made of one of the first of each key of s.
LEMMA EachOfSeq ==
  ASSUME NEW T, NEW U, NEW c \in Seq(T), NEW g, \A i \in DOMAIN c : g[i] \in U
  PROVE  /\ SubSeq(g, 1, Len(c)) \in Seq(U)
         /\ DOMAIN SubSeq(g, 1, Len(c)) = DOMAIN c
         /\ \A i \in DOMAIN c : SubSeq(g, 1, Len(c))[i] = g[i]
<1>1. Len(c) \in Nat /\ DOMAIN c = 1 .. Len(c)
  BY LenProperties
<1>2. /\ SubSeq(g, 1, Len(c)) \in Seq({g[i] : i \in 1 .. Len(c)})
      /\ DOMAIN SubSeq(g, 1, Len(c)) = 1 .. Len(c)
      /\ \A i \in 1 .. Len(c) : SubSeq(g, 1, Len(c))[i] = g[i]
  BY <1>1, CopyProperties
<1>3. {g[i] : i \in 1 .. Len(c)} \subseteq U
  BY <1>1
<1>4. QED
  BY <1>1, <1>2, <1>3, SeqMonotonic

\* Of the elements of s, c has the first of each value of k.
FirstOnes(s, k, c) ==
  /\ \A m \in DOMAIN c : \E i \in DOMAIN s : c[m] = s[i]
  /\ \A m, n \in DOMAIN c :
       m # n => \E i, j \in DOMAIN s : k[i] # k[j] /\ c[m] = s[i] /\ c[n] = s[j]
  /\ \A i \in DOMAIN s : \E m \in DOMAIN c : \E j \in DOMAIN s : k[j] = k[i] /\ c[m] = s[j]

LEMMA DistinctOfSeq ==
  ASSUME NEW T, NEW s \in Seq(T), NEW k, DOMAIN k = DOMAIN s
  PROVE  At(s, FirstPlaces(k)) \in Seq(T) /\ FirstOnes(s, k, At(s, FirstPlaces(k)))
<1> DEFINE first == FirstPlaces(k)
           c == At(s, first)
<1>1. Len(s) \in Nat /\ DOMAIN s = 1 .. Len(s)
  BY LenProperties
<1>2. /\ first \subseteq DOMAIN s
      /\ \A i \in DOMAIN s : \E f \in first : k[f] = k[i]
      /\ \A f, g \in first : k[f] = k[g] => f = g
  BY <1>1, FirstPlacesProperties
<1> HIDE DEF first
<1>3. /\ c \in Seq(T)
      /\ ToSet(c) = {s[i] : i \in first}
      /\ \A m \in DOMAIN c : \E i \in first : c[m] = s[i]
      /\ \A m, n \in DOMAIN c : m # n => \E i, j \in first : i # j /\ c[m] = s[i] /\ c[n] = s[j]
  BY <1>2, AtOfSeq
<1> HIDE DEF c
<1>4. \A i \in DOMAIN s : \E m \in DOMAIN c : \E j \in DOMAIN s : k[j] = k[i] /\ c[m] = s[j]
  <2>1. SUFFICES ASSUME NEW i \in DOMAIN s
                 PROVE  \E m \in DOMAIN c : \E j \in DOMAIN s : k[j] = k[i] /\ c[m] = s[j]
    OBVIOUS
  <2>2. PICK f \in first : k[f] = k[i]
    BY <1>2
  <2>3. s[f] \in ToSet(c)
    BY <1>3
  <2>4. PICK m \in DOMAIN c : c[m] = s[f]
    BY <2>3 DEF ToSet
  <2>5. QED
    BY <1>2, <2>2, <2>4
<1>5. \A m, n \in DOMAIN c :
        m # n => \E i, j \in DOMAIN s : k[i] # k[j] /\ c[m] = s[i] /\ c[n] = s[j]
  BY <1>2, <1>3
<1>6. \A m \in DOMAIN c : \E i \in DOMAIN s : c[m] = s[i]
  BY <1>2, <1>3
<1>7. QED
  BY <1>3, <1>4, <1>5, <1>6 DEF c, first, FirstOnes

\* The elements of w are those of s at the places S.
Picks(s, S, w) ==
  /\ \A m \in DOMAIN w : \E i \in S : w[m] = s[i]
  /\ \A i \in S : \E m \in DOMAIN w : w[m] = s[i]

LEMMA Picked ==
  ASSUME NEW T, NEW s \in Seq(T), NEW S, S \subseteq DOMAIN s
  PROVE  At(s, S) \in Seq(T) /\ Picks(s, S, At(s, S))
<1> DEFINE w == At(s, S)
<1>1. /\ w \in Seq(T) /\ ToSet(w) = {s[i] : i \in S}
      /\ \A m \in DOMAIN w : \E i \in S : w[m] = s[i]
  BY AtOfSeq
<1> HIDE DEF w
<1>2. \A i \in S : \E m \in DOMAIN w : w[m] = s[i]
  BY <1>1 DEF ToSet
<1>3. QED
  BY <1>1, <1>2 DEF w, Picks

\* The disks, each once.
LEMMA NormalizedDisks ==
  ASSUME NEW records \in Seq(DiskRecords)
  PROVE  /\ NormalizeDisks(records) \in Seq(Disks)
         /\ Unique(NormalizeDisks(records))
         /\ \A i \in DOMAIN NormalizeDisks(records) :
              /\ ~ NormalizeDisks(records)[i].logical
              /\ \E r \in ToSet(records) : /\ NormalizeDisks(records)[i].key = r.ref.name
                                           /\ NormalizeDisks(records)[i].israid = r.israid
                                           /\ NormalizeDisks(records)[i].virtual = r.virtual
                                           /\ NormalizeDisks(records)[i].array = r.array
         /\ \A r \in ToSet(records) : r.ref.name \in Keys(NormalizeDisks(records))
<1> DEFINE name == [i \in DOMAIN records |-> records[i].ref.name]
           c == At(records, FirstPlaces(name))
           Disk(r) == [key |-> r.ref.name, israid |-> r.israid, logical |-> FALSE,
                       virtual |-> r.virtual, status |-> r.status, array |-> r.array,
                       members |-> {}, size |-> r.size, values |-> r.values]
           g == [i \in DOMAIN c |-> Disk(c[i])]
           disks == SubSeq(g, 1, Len(c))
<1>1. NormalizeDisks(records) = disks
  BY DEF NormalizeDisks, Each, Distinct, NormalizeDeviceReference
<1>2. DOMAIN name = DOMAIN records /\ \A i \in DOMAIN records : name[i] = records[i].ref.name
  OBVIOUS
<1> HIDE DEF name
<1>3. c \in Seq(DiskRecords) /\ FirstOnes(records, name, c)
  BY <1>2, DistinctOfSeq
<1> HIDE DEF c
<1>4. \A i \in DOMAIN c : c[i] \in DiskRecords
  BY <1>3, ElementOfSeq, LenProperties
<1>5. \A i \in DOMAIN c : g[i] \in Disks
  BY <1>4 DEF DiskRecords, Disks, References
<1> HIDE DEF g
<1>6. /\ disks \in Seq(Disks) /\ DOMAIN disks = DOMAIN c
      /\ \A i \in DOMAIN c : disks[i] = g[i]
  BY <1>3, <1>5, EachOfSeq
<1> HIDE DEF disks
<1>7. \A i \in DOMAIN c : /\ disks[i].key = c[i].ref.name /\ disks[i].logical = FALSE
                          /\ disks[i].israid = c[i].israid /\ disks[i].virtual = c[i].virtual
                          /\ disks[i].array = c[i].array
  BY <1>6 DEF g
<1>8. Unique(disks)
  <2>1. SUFFICES ASSUME NEW m \in DOMAIN disks, NEW n \in DOMAIN disks, m # n
                 PROVE  disks[m].key # disks[n].key
    BY DEF Unique
  <2>2. PICK i \in DOMAIN records, j \in DOMAIN records :
          name[i] # name[j] /\ c[m] = records[i] /\ c[n] = records[j]
    BY <1>3, <1>6, <2>1 DEF FirstOnes
  <2>3. c[m].ref.name = name[i] /\ c[n].ref.name = name[j]
    BY <1>2, <2>2
  <2>4. QED
    BY <1>6, <1>7, <2>2, <2>3
<1>9. \A i \in DOMAIN c : c[i] \in ToSet(records)
  BY <1>3 DEF FirstOnes, ToSet
<1>10. \A r \in ToSet(records) : r.ref.name \in Keys(disks)
  <2>1. SUFFICES ASSUME NEW i \in DOMAIN records PROVE records[i].ref.name \in Keys(disks)
    BY DEF ToSet
  <2>2. PICK m \in DOMAIN c : \E j \in DOMAIN records : name[j] = name[i] /\ c[m] = records[j]
    BY <1>3 DEF FirstOnes
  <2>3. m \in DOMAIN disks /\ disks[m].key = records[i].ref.name
    BY <1>2, <1>6, <1>7, <2>2
  <2>4. QED
    BY <2>3 DEF Keys
<1>11. QED
  <2>1. \A i \in DOMAIN disks : \E r \in ToSet(records) :
          /\ disks[i].key = r.ref.name /\ disks[i].israid = r.israid
          /\ disks[i].virtual = r.virtual /\ disks[i].array = r.array
    BY <1>6, <1>7, <1>9
  <2>2. QED
    BY <1>1, <1>6, <1>7, <1>8, <1>10, <2>1

LEMMA LogicalDiskFields ==
  ASSUME NEW name, NEW status, NEW members, NEW size
  PROVE  /\ LogicalDisk(name, status, members, size).key = name
         /\ LogicalDisk(name, status, members, size).israid
         /\ LogicalDisk(name, status, members, size).array = None
         /\ LogicalDisk(name, status, members, size).status = status
         /\ LogicalDisk(name, status, members, size).members = members
         /\ name \in Devices /\ status \in STRING \cup {"unknown"} /\ members \subseteq Devices /\ size \in Nat
              => LogicalDisk(name, status, members, size) \in Disks
  BY DEF LogicalDisk, Disks

\* What MdMgmt and the filesystems add are arrays that no disk is yet.
LEMMA AugmentedByMd ==
  ASSUME NEW disks \in Seq(Disks), Unique(disks), NEW records \in Seq(ArrayRecords)
  PROVE  LET all == AugmentDisksWithMdDevices(disks, records) IN
         /\ all \in Seq(Disks) /\ Unique(all)
         /\ \A i \in DOMAIN disks : i \in DOMAIN all /\ all[i] = disks[i]
         /\ \A i \in DOMAIN all :
              \/ i \in DOMAIN disks /\ all[i] = disks[i]
              \/ \E r \in ToSet(records) : /\ all[i] = LogicalDisk(r.ref.name, r.state, r.members, r.size)
                                          /\ r.ref.name \in MdDevices \ Keys(disks)
         /\ \A r \in ToSet(records) : r.ref.name \in MdDevices => r.ref.name \in Keys(all)
<1> DEFINE new == {i \in DOMAIN records : records[i].ref.name \in MdDevices \ Keys(disks)}
           w == At(records, new)
           name == [i \in DOMAIN w |-> w[i].ref.name]
           c == At(w, FirstPlaces(name))
           g == [i \in DOMAIN c |-> LogicalDisk(c[i].ref.name, c[i].state, c[i].members, c[i].size)]
           t == SubSeq(g, 1, Len(c))
<1>1. AugmentDisksWithMdDevices(disks, records) = disks \o t
  BY DEF AugmentDisksWithMdDevices, Each, Distinct, Where, NormalizeDeviceReference
<1>0. new \subseteq DOMAIN records /\ \A i \in DOMAIN records :
        i \in new <=> records[i].ref.name \in MdDevices \ Keys(disks)
  OBVIOUS
<1> HIDE DEF new
<1>2. w \in Seq(ArrayRecords) /\ Picks(records, new, w)
  <2>1. new \subseteq DOMAIN records
    BY <1>0
  <2>2. QED
    BY <2>1, Picked
<1>3. \A m \in DOMAIN w : w[m] \in ToSet(records) /\ w[m].ref.name \in MdDevices \ Keys(disks)
  BY <1>0, <1>2 DEF ToSet, Picks
<1>4. \A r \in ToSet(records) : r.ref.name \in MdDevices \ Keys(disks) =>
        \E m \in DOMAIN w : w[m] = r
  BY <1>0, <1>2 DEF ToSet, Picks
<1> HIDE DEF w
<1>5. DOMAIN name = DOMAIN w /\ \A i \in DOMAIN w : name[i] = w[i].ref.name
  OBVIOUS
<1> HIDE DEF name
<1>6. c \in Seq(ArrayRecords) /\ FirstOnes(w, name, c)
  BY <1>2, <1>5, DistinctOfSeq
<1> HIDE DEF c
<1>7. \A i \in DOMAIN c : c[i] \in ArrayRecords
  BY <1>6, ElementOfSeq, LenProperties
<1>8. \A i \in DOMAIN c : c[i] \in ToSet(records) /\ c[i].ref.name \in MdDevices \ Keys(disks)
  BY <1>3, <1>6 DEF FirstOnes
<1>9. \A i \in DOMAIN c : g[i] = LogicalDisk(c[i].ref.name, c[i].state, c[i].members, c[i].size)
  OBVIOUS
<1>10. \A i \in DOMAIN c : g[i] \in Disks
  BY <1>7, <1>9 DEF ArrayRecords, Disks, References, LogicalDisk
<1> HIDE DEF g
<1>11. /\ t \in Seq(Disks) /\ DOMAIN t = DOMAIN c
       /\ \A i \in DOMAIN c : t[i] = g[i]
  <2>1. c \in Seq(ArrayRecords)
    BY <1>6
  <2>2. QED
    BY <2>1, <1>10, EachOfSeq
<1> HIDE DEF t
<1>12. \A i \in DOMAIN c : t[i].key = c[i].ref.name
  <2>1. \A i \in DOMAIN c : t[i] = LogicalDisk(c[i].ref.name, c[i].state, c[i].members, c[i].size)
    BY <1>9, <1>11
  <2>2. QED
    BY <2>1, LogicalDiskFields
<1>13. Unique(t)
  <2>1. SUFFICES ASSUME NEW m \in DOMAIN t, NEW n \in DOMAIN t, m # n
                 PROVE  t[m].key # t[n].key
    BY DEF Unique
  <2>2. PICK i \in DOMAIN w, j \in DOMAIN w :
          name[i] # name[j] /\ c[m] = w[i] /\ c[n] = w[j]
    BY <1>6, <1>11, <2>1 DEF FirstOnes
  <2>3. c[m].ref.name = name[i] /\ c[n].ref.name = name[j]
    BY <1>5, <2>2
  <2>4. QED
    BY <1>11, <1>12, <2>2, <2>3
<1>14. \A j \in DOMAIN t : t[j].key \notin Keys(disks)
  BY <1>8, <1>11, <1>12
<1>15. /\ disks \o t \in Seq(Disks) /\ Unique(disks \o t) /\ Keys(disks \o t) = Keys(disks) \cup Keys(t)
       /\ \A i \in DOMAIN (disks \o t) :
            \/ i \in DOMAIN disks /\ (disks \o t)[i] = disks[i]
            \/ \E j \in DOMAIN t : (disks \o t)[i] = t[j]
       /\ \A i \in DOMAIN disks : i \in DOMAIN (disks \o t) /\ (disks \o t)[i] = disks[i]
  BY <1>11, <1>13, <1>14, UniqueConcat
<1> DEFINE all == disks \o t
<1> HIDE DEF all
<1>16. ASSUME NEW i \in DOMAIN all
       PROVE  \/ i \in DOMAIN disks /\ all[i] = disks[i]
              \/ \E r \in ToSet(records) : /\ all[i] = LogicalDisk(r.ref.name, r.state, r.members, r.size)
                                          /\ r.ref.name \in MdDevices \ Keys(disks)
  <2>1. CASE i \in DOMAIN disks /\ all[i] = disks[i]
    BY <2>1
  <2>2. CASE \E j \in DOMAIN t : all[i] = t[j]
    BY <2>2, <1>8, <1>9, <1>11
  <2>3. QED
    BY <2>1, <2>2, <1>15 DEF all
<1>17. ASSUME NEW r \in ToSet(records), r.ref.name \in MdDevices
       PROVE  r.ref.name \in Keys(all)
  <2>1. CASE r.ref.name \in Keys(disks)
    BY <2>1, <1>15 DEF all
  <2>2. CASE r.ref.name \notin Keys(disks)
    <3>1. PICK i \in DOMAIN w : w[i] = r
      BY <1>4, <1>17, <2>2
    <3>2. PICK m \in DOMAIN c : \E j \in DOMAIN w : name[j] = name[i] /\ c[m] = w[j]
      BY <1>6 DEF FirstOnes
    <3>3. m \in DOMAIN t /\ t[m].key = r.ref.name
      BY <3>1, <3>2, <1>5, <1>11, <1>12
    <3>4. r.ref.name \in Keys(t)
      BY <3>3 DEF Keys
    <3>5. QED
      BY <3>4, <1>15 DEF all
  <2>3. QED
    BY <2>1, <2>2
<1>18. all \in Seq(Disks) /\ Unique(all) /\ \A i \in DOMAIN disks : i \in DOMAIN all /\ all[i] = disks[i]
  BY <1>15 DEF all
<1>19. AugmentDisksWithMdDevices(disks, records) = all
  BY <1>1 DEF all
<1> HIDE DEF all
<1>20. QED
  BY <1>16, <1>17, <1>18, <1>19
LEMMA LogicalStorageReference ==
  ASSUME NEW r \in FilesystemRecords
  PROVE  FindLogicalStorageReference(r) \in MdDevices \cup {None}
<1> DEFINE found == {i \in DOMAIN r.refs : r.refs[i].name \in MdDevices}
<1>1. r.refs \in Seq(References)
  BY DEF FilesystemRecords
<1>2. found \subseteq Nat
  BY <1>1, LenProperties
<1>3. FindLogicalStorageReference(r) = IF found = {} THEN None ELSE r.refs[Least(found)].name
  BY DEF FindLogicalStorageReference, NormalizeDeviceReference
<1>4. \A i \in found : r.refs[i].name \in MdDevices
  OBVIOUS
<1> HIDE DEF found
<1>5. found # {} => Least(found) \in found
  BY <1>2, LeastProperties
<1>6. QED
  BY <1>3, <1>4, <1>5

\* What the filesystems add are arrays that are no disks and that MdMgmt omits.
LEMMA AugmentedByFilesystems ==
  ASSUME NEW disks \in Seq(Disks), Unique(disks), NEW records \in Seq(FilesystemRecords)
  PROVE  LET all == AugmentDisksWithLogicalStorage(disks, records) IN
         /\ all \in Seq(Disks) /\ Unique(all)
         /\ \A i \in DOMAIN disks : i \in DOMAIN all /\ all[i] = disks[i]
         /\ \A i \in DOMAIN all :
              \/ i \in DOMAIN disks /\ all[i] = disks[i]
              \/ \E r \in ToSet(records) : /\ all[i] = LogicalDisk(FindLogicalStorageReference(r), "unknown", {}, r.size)
                                          /\ FindLogicalStorageReference(r) \notin Keys(disks) \cup {None}
         /\ \A r \in ToSet(records) : FindLogicalStorageReference(r) # None => FindLogicalStorageReference(r) \in Keys(all)
<1> DEFINE new == {i \in DOMAIN records : FindLogicalStorageReference(records[i]) \notin Keys(disks) \cup {None}}
           w == At(records, new)
           name == [i \in DOMAIN w |-> FindLogicalStorageReference(w[i])]
           c == At(w, FirstPlaces(name))
           g == [i \in DOMAIN c |-> LogicalDisk(FindLogicalStorageReference(c[i]), "unknown", {}, c[i].size)]
           t == SubSeq(g, 1, Len(c))
<1>1. AugmentDisksWithLogicalStorage(disks, records) = disks \o t
  BY DEF AugmentDisksWithLogicalStorage, Each, Distinct, Where
<1>0. new \subseteq DOMAIN records /\ \A i \in DOMAIN records :
        i \in new <=> FindLogicalStorageReference(records[i]) \notin Keys(disks) \cup {None}
  OBVIOUS
<1> HIDE DEF new
<1>2. w \in Seq(FilesystemRecords) /\ Picks(records, new, w)
  <2>1. new \subseteq DOMAIN records
    BY <1>0
  <2>2. QED
    BY <2>1, Picked
<1>3. \A m \in DOMAIN w : w[m] \in ToSet(records) /\ FindLogicalStorageReference(w[m]) \notin Keys(disks) \cup {None}
  BY <1>0, <1>2 DEF ToSet, Picks
<1>4. \A r \in ToSet(records) : FindLogicalStorageReference(r) \notin Keys(disks) \cup {None} =>
        \E m \in DOMAIN w : w[m] = r
  BY <1>0, <1>2 DEF ToSet, Picks
<1> HIDE DEF w
<1>5. DOMAIN name = DOMAIN w /\ \A i \in DOMAIN w : name[i] = FindLogicalStorageReference(w[i])
  OBVIOUS
<1> HIDE DEF name
<1>6. c \in Seq(FilesystemRecords) /\ FirstOnes(w, name, c)
  BY <1>2, <1>5, DistinctOfSeq
<1> HIDE DEF c
<1>7. \A i \in DOMAIN c : c[i] \in FilesystemRecords
  BY <1>6, ElementOfSeq, LenProperties
<1>8. \A i \in DOMAIN c : c[i] \in ToSet(records) /\ FindLogicalStorageReference(c[i]) \notin Keys(disks) \cup {None}
  BY <1>3, <1>6 DEF FirstOnes
<1>9. \A i \in DOMAIN c : g[i] = LogicalDisk(FindLogicalStorageReference(c[i]), "unknown", {}, c[i].size)
  OBVIOUS
<1>10. \A i \in DOMAIN c : g[i] \in Disks
  <2>1. SUFFICES ASSUME NEW i \in DOMAIN c
                 PROVE  g[i] \in Disks
    OBVIOUS
  <2>2. FindLogicalStorageReference(c[i]) \in Devices
    BY <1>7, <1>8, LogicalStorageReference, DevicesAssumption
  <2>3. c[i].size \in Nat
    BY <1>7 DEF FilesystemRecords
  <2>4. QED
    <3>1. "unknown" \in STRING \cup {"unknown"} /\ {} \subseteq Devices
      OBVIOUS
    <3>2. LogicalDisk(FindLogicalStorageReference(c[i]), "unknown", {}, c[i].size) \in Disks
      BY <2>2, <2>3, <3>1, LogicalDiskFields
    <3>3. QED
      BY <1>9, <3>2
<1> HIDE DEF g
<1>11. /\ t \in Seq(Disks) /\ DOMAIN t = DOMAIN c
       /\ \A i \in DOMAIN c : t[i] = g[i]
  <2>1. c \in Seq(FilesystemRecords)
    BY <1>6
  <2>2. QED
    BY <2>1, <1>10, EachOfSeq
<1> HIDE DEF t
<1>12. \A i \in DOMAIN c : t[i].key = FindLogicalStorageReference(c[i])
  <2>1. \A i \in DOMAIN c : t[i] = LogicalDisk(FindLogicalStorageReference(c[i]), "unknown", {}, c[i].size)
    BY <1>9, <1>11
  <2>2. QED
    BY <2>1, LogicalDiskFields
<1>13. Unique(t)
  <2>1. SUFFICES ASSUME NEW m \in DOMAIN t, NEW n \in DOMAIN t, m # n
                 PROVE  t[m].key # t[n].key
    BY DEF Unique
  <2>2. PICK i \in DOMAIN w, j \in DOMAIN w :
          name[i] # name[j] /\ c[m] = w[i] /\ c[n] = w[j]
    BY <1>6, <1>11, <2>1 DEF FirstOnes
  <2>3. FindLogicalStorageReference(c[m]) = name[i] /\ FindLogicalStorageReference(c[n]) = name[j]
    BY <1>5, <2>2
  <2>4. QED
    BY <1>11, <1>12, <2>2, <2>3
<1>14. \A j \in DOMAIN t : t[j].key \notin Keys(disks)
  BY <1>8, <1>11, <1>12
<1>15. /\ disks \o t \in Seq(Disks) /\ Unique(disks \o t) /\ Keys(disks \o t) = Keys(disks) \cup Keys(t)
       /\ \A i \in DOMAIN (disks \o t) :
            \/ i \in DOMAIN disks /\ (disks \o t)[i] = disks[i]
            \/ \E j \in DOMAIN t : (disks \o t)[i] = t[j]
       /\ \A i \in DOMAIN disks : i \in DOMAIN (disks \o t) /\ (disks \o t)[i] = disks[i]
  BY <1>11, <1>13, <1>14, UniqueConcat
<1> DEFINE all == disks \o t
<1> HIDE DEF all
<1>16. ASSUME NEW i \in DOMAIN all
       PROVE  \/ i \in DOMAIN disks /\ all[i] = disks[i]
              \/ \E r \in ToSet(records) : /\ all[i] = LogicalDisk(FindLogicalStorageReference(r), "unknown", {}, r.size)
                                          /\ FindLogicalStorageReference(r) \notin Keys(disks) \cup {None}
  <2>1. CASE i \in DOMAIN disks /\ all[i] = disks[i]
    BY <2>1
  <2>2. CASE \E j \in DOMAIN t : all[i] = t[j]
    BY <2>2, <1>8, <1>9, <1>11
  <2>3. QED
    BY <2>1, <2>2, <1>15 DEF all
<1>17. ASSUME NEW r \in ToSet(records), FindLogicalStorageReference(r) # None
       PROVE  FindLogicalStorageReference(r) \in Keys(all)
  <2>1. CASE FindLogicalStorageReference(r) \in Keys(disks)
    BY <2>1, <1>15 DEF all
  <2>2. CASE FindLogicalStorageReference(r) \notin Keys(disks)
    <3>1. PICK i \in DOMAIN w : w[i] = r
      BY <1>4, <1>17, <2>2
    <3>2. PICK m \in DOMAIN c : \E j \in DOMAIN w : name[j] = name[i] /\ c[m] = w[j]
      BY <1>6 DEF FirstOnes
    <3>3. m \in DOMAIN t /\ t[m].key = FindLogicalStorageReference(r)
      BY <3>1, <3>2, <1>5, <1>11, <1>12
    <3>4. FindLogicalStorageReference(r) \in Keys(t)
      BY <3>3 DEF Keys
    <3>5. QED
      BY <3>4, <1>15 DEF all
  <2>3. QED
    BY <2>1, <2>2
<1>18. all \in Seq(Disks) /\ Unique(all) /\ \A i \in DOMAIN disks : i \in DOMAIN all /\ all[i] = disks[i]
  BY <1>15 DEF all
<1>19. AugmentDisksWithLogicalStorage(disks, records) = all
  BY <1>1 DEF all
<1> HIDE DEF all
<1>20. QED
  BY <1>16, <1>17, <1>18, <1>19

\* Where the disks of a poll come from.
FromDiskList(a, d) == \E j \in DOMAIN NormalizeDisks(a.disks) : d = NormalizeDisks(a.disks)[j]

FromMd(a, d) ==
  \E r \in ToSet(a.md) :
    /\ d = LogicalDisk(r.ref.name, r.state, r.members, r.size)
    /\ r.ref.name \in MdDevices

FromFilesystem(a, d) ==
  \E r \in ToSet(a.fs) :
    /\ d = LogicalDisk(FindLogicalStorageReference(r), "unknown", {}, r.size)
    /\ FindLogicalStorageReference(r) # None
    /\ \A array \in ToSet(a.md) :
         array.ref.name \in MdDevices => FindLogicalStorageReference(r) # array.ref.name

LEMMA NormalizedStorage ==
  ASSUME NEW a, IsAnswer(a)
  PROVE  /\ NormalizeStorage(a) \in Seq(Disks) /\ Unique(NormalizeStorage(a))
         /\ \A i \in DOMAIN NormalizeStorage(a) :
              \/ FromDiskList(a, NormalizeStorage(a)[i])
              \/ FromMd(a, NormalizeStorage(a)[i])
              \/ FromFilesystem(a, NormalizeStorage(a)[i])
         /\ \A r \in ToSet(a.fs) : FindLogicalStorageReference(r) # None =>
              FindLogicalStorageReference(r) \in Keys(NormalizeStorage(a))
         /\ \A r \in ToSet(a.md) : r.ref.name \in MdDevices => r.ref.name \in Keys(NormalizeStorage(a))
         /\ \A i \in DOMAIN NormalizeDisks(a.disks) :
              /\ i \in DOMAIN NormalizeStorage(a)
              /\ NormalizeStorage(a)[i] = NormalizeDisks(a.disks)[i]
<1> DEFINE disks == NormalizeDisks(a.disks)
           md == AugmentDisksWithMdDevices(disks, a.md)
           all == AugmentDisksWithLogicalStorage(md, a.fs)
<1>1. NormalizeStorage(a) = all
  BY DEF NormalizeStorage
<1>2. a.disks \in Seq(DiskRecords) /\ a.md \in Seq(ArrayRecords) /\ a.fs \in Seq(FilesystemRecords)
  BY DEF IsAnswer
<1>3. disks \in Seq(Disks) /\ Unique(disks)
  BY <1>2, NormalizedDisks
<1>4. \A d : FromDiskList(a, d) <=> \E j \in DOMAIN disks : d = disks[j]
  BY DEF FromDiskList
<1> HIDE DEF disks
<1>5. /\ md \in Seq(Disks) /\ Unique(md)
      /\ \A i \in DOMAIN disks : i \in DOMAIN md /\ md[i] = disks[i]
      /\ \A i \in DOMAIN md :
              \/ i \in DOMAIN disks /\ md[i] = disks[i]
              \/ \E r \in ToSet(a.md) : /\ md[i] = LogicalDisk(r.ref.name, r.state, r.members, r.size)
                                        /\ r.ref.name \in MdDevices \ Keys(disks)
      /\ \A r \in ToSet(a.md) : r.ref.name \in MdDevices => r.ref.name \in Keys(md)
  BY <1>2, <1>3, AugmentedByMd
<1> HIDE DEF md
<1>6. /\ all \in Seq(Disks) /\ Unique(all)
      /\ \A i \in DOMAIN md : i \in DOMAIN all /\ all[i] = md[i]
      /\ \A i \in DOMAIN all :
              \/ i \in DOMAIN md /\ all[i] = md[i]
              \/ \E r \in ToSet(a.fs) : /\ all[i] = LogicalDisk(FindLogicalStorageReference(r), "unknown", {}, r.size)
                                        /\ FindLogicalStorageReference(r) \notin Keys(md) \cup {None}
      /\ \A r \in ToSet(a.fs) : FindLogicalStorageReference(r) # None =>
           FindLogicalStorageReference(r) \in Keys(all)
  BY <1>2, <1>5, AugmentedByFilesystems
<1> HIDE DEF all
<1>7. ASSUME NEW i \in DOMAIN md
      PROVE  FromDiskList(a, md[i]) \/ FromMd(a, md[i])
  BY <1>4, <1>5 DEF FromMd
<1>8. ASSUME NEW i \in DOMAIN all
      PROVE  FromDiskList(a, all[i]) \/ FromMd(a, all[i]) \/ FromFilesystem(a, all[i])
  <2>1. CASE i \in DOMAIN md /\ all[i] = md[i]
    BY <2>1, <1>7
  <2>2. CASE \E r \in ToSet(a.fs) : /\ all[i] = LogicalDisk(FindLogicalStorageReference(r), "unknown", {}, r.size)
                                    /\ FindLogicalStorageReference(r) \notin Keys(md) \cup {None}
    <3>1. PICK r \in ToSet(a.fs) : /\ all[i] = LogicalDisk(FindLogicalStorageReference(r), "unknown", {}, r.size)
                                   /\ FindLogicalStorageReference(r) \notin Keys(md) \cup {None}
      BY <2>2
    <3>2. \A array \in ToSet(a.md) :
            array.ref.name \in MdDevices => FindLogicalStorageReference(r) # array.ref.name
      BY <1>5, <3>1
    <3>3. QED
      BY <3>1, <3>2 DEF FromFilesystem
  <2>3. QED
    BY <1>6, <2>1, <2>2
<1>9. \A r \in ToSet(a.md) : r.ref.name \in MdDevices => r.ref.name \in Keys(all)
  BY <1>5, <1>6 DEF Keys
<1>10. \A i \in DOMAIN disks : i \in DOMAIN all /\ all[i] = disks[i]
  BY <1>5, <1>6
<1>11. QED
  BY <1>1, <1>6, <1>8, <1>9, <1>10 DEF disks

Raids == [key : MdDevices, health : STRING \cup {"clean", "unknown"}, members : SUBSET Devices]

LEMMA ArrayOfDisk ==
  ASSUME NEW d \in Disks
  PROVE  ExtractRaidDevice(d) \in MdDevices \cup {None}
  BY DEF ExtractRaidDevice, Disks

\* One record per array, made of a disk that is part of it.
LEMMA NormalizedRaids ==
  ASSUME NEW disks \in Seq(Disks)
  PROVE  /\ NormalizeRaids(disks) \in Seq(Raids) /\ Unique(NormalizeRaids(disks))
         /\ \A m \in DOMAIN NormalizeRaids(disks) : \E i \in DOMAIN disks :
              /\ InArray(disks[i])
              /\ NormalizeRaids(disks)[m].key = ExtractRaidDevice(disks[i])
              /\ NormalizeRaids(disks)[m].health = RaidHealthFromDisk(disks[i])
         /\ \A i \in DOMAIN disks :
              InArray(disks[i]) => ExtractRaidDevice(disks[i]) \in Keys(NormalizeRaids(disks))
<1> DEFINE in == {i \in DOMAIN disks : InArray(disks[i])}
           parts == At(disks, in)
           name == [i \in DOMAIN parts |-> ExtractRaidDevice(parts[i])]
           c == At(parts, FirstPlaces(name))
           g == [i \in DOMAIN c |-> Raid(c[i], parts)]
           raids == SubSeq(g, 1, Len(c))
<1>1. NormalizeRaids(disks) = raids
  BY DEF NormalizeRaids, Each, Distinct, Where
<1>2. in \subseteq DOMAIN disks /\ \A i \in DOMAIN disks : i \in in <=> InArray(disks[i])
  OBVIOUS
<1> HIDE DEF in
<1>3. parts \in Seq(Disks) /\ Picks(disks, in, parts)
  BY <1>2, Picked
<1>4. DOMAIN name = DOMAIN parts /\ \A i \in DOMAIN parts : name[i] = ExtractRaidDevice(parts[i])
  OBVIOUS
<1> HIDE DEF parts
<1> HIDE DEF name
<1>5. c \in Seq(Disks) /\ FirstOnes(parts, name, c)
  BY <1>3, <1>4, DistinctOfSeq
<1> HIDE DEF c
<1>6. \A i \in DOMAIN parts : parts[i] \in Disks
  BY <1>3, ElementOfSeq, LenProperties
<1>7. \A i \in DOMAIN c : \E j \in DOMAIN disks : c[i] = disks[j] /\ InArray(disks[j])
  BY <1>2, <1>3, <1>5 DEF FirstOnes, Picks
<1>8. \A i \in DOMAIN c : c[i] \in Disks
  BY <1>5, ElementOfSeq, LenProperties
<1>9. ASSUME NEW d \in Disks, InArray(d)
      PROVE  Raid(d, parts) \in Raids
  <2> DEFINE of == {i \in DOMAIN parts : ExtractRaidDevice(parts[i]) = ExtractRaidDevice(d)}
             Members(x) == IF x.members # {} THEN x.members ELSE {x.key}
  <2>1. \A i \in DOMAIN parts : Members(parts[i]) \subseteq Devices
    BY <1>6 DEF Disks
  <2>2. UNION {Members(parts[i]) : i \in of} \subseteq Devices
    BY <2>1
  <2>3. ExtractRaidDevice(d) \in MdDevices
    BY <1>9, ArrayOfDisk DEF InArray
  <2>4. RaidHealthFromDisk(d) \in STRING \cup {"clean", "unknown"}
    BY DEF RaidHealthFromDisk, Disks
  <2>5. Raid(d, parts) = [key |-> ExtractRaidDevice(d), health |-> RaidHealthFromDisk(d),
                          members |-> UNION {Members(parts[i]) : i \in of}]
    BY DEF Raid
  <2>6. QED
    BY <2>2, <2>3, <2>4, <2>5 DEF Raids
<1>10. \A i \in DOMAIN c : g[i] \in Raids
  BY <1>7, <1>8, <1>9
<1>11. \A d : /\ Raid(d, parts).key = ExtractRaidDevice(d)
              /\ Raid(d, parts).health = RaidHealthFromDisk(d)
  BY DEF Raid
<1>12. \A i \in DOMAIN c : /\ g[i].key = ExtractRaidDevice(c[i])
                           /\ g[i].health = RaidHealthFromDisk(c[i])
  BY <1>11
<1> HIDE DEF g
<1>13. /\ raids \in Seq(Raids) /\ DOMAIN raids = DOMAIN c
       /\ \A i \in DOMAIN c : raids[i] = g[i]
  <2>1. c \in Seq(Disks)
    BY <1>5
  <2>2. QED
    BY <2>1, <1>10, EachOfSeq
<1> HIDE DEF raids
<1>14. Unique(raids)
  <2>1. SUFFICES ASSUME NEW m \in DOMAIN raids, NEW n \in DOMAIN raids, m # n
                 PROVE  raids[m].key # raids[n].key
    BY DEF Unique
  <2>2. PICK i \in DOMAIN parts, j \in DOMAIN parts :
          name[i] # name[j] /\ c[m] = parts[i] /\ c[n] = parts[j]
    BY <1>5, <1>13, <2>1 DEF FirstOnes
  <2>3. ExtractRaidDevice(c[m]) = name[i] /\ ExtractRaidDevice(c[n]) = name[j]
    BY <1>4, <2>2
  <2>4. QED
    BY <1>12, <1>13, <2>2, <2>3
<1>15. ASSUME NEW m \in DOMAIN raids
       PROVE  \E i \in DOMAIN disks :
                /\ InArray(disks[i])
                /\ raids[m].key = ExtractRaidDevice(disks[i])
                /\ raids[m].health = RaidHealthFromDisk(disks[i])
  <2>1. PICK j \in DOMAIN disks : c[m] = disks[j] /\ InArray(disks[j])
    BY <1>7, <1>13
  <2>2. QED
    BY <2>1, <1>12, <1>13
<1>16. ASSUME NEW i \in DOMAIN disks, InArray(disks[i])
       PROVE  ExtractRaidDevice(disks[i]) \in Keys(raids)
  <2>1. PICK n \in DOMAIN parts : parts[n] = disks[i]
    BY <1>2, <1>3, <1>16 DEF Picks
  <2>2. PICK m \in DOMAIN c : \E j \in DOMAIN parts : name[j] = name[n] /\ c[m] = parts[j]
    BY <1>5 DEF FirstOnes
  <2>3. m \in DOMAIN raids /\ raids[m].key = ExtractRaidDevice(disks[i])
    BY <1>4, <1>12, <1>13, <2>1, <2>2
  <2>4. QED
    BY <2>3 DEF Keys
<1>17. QED
  BY <1>1, <1>13, <1>14, <1>15, <1>16

\* Arrays that MdMgmt calls degraded, in the inventory of one poll.
LEMMA DegradedArrays ==
  ASSUME NEW a, IsAnswer(a), KeepsNamesApart(a), NEW i \in DOMAIN a.md,
         NEW m \in DOMAIN NormalizeRaids(NormalizeStorage(a)),
         NormalizeRaids(NormalizeStorage(a))[m].key = a.md[i].ref.name,
         a.md[i].state = "degraded",
         \A j \in DOMAIN NormalizeDisks(a.disks) :
           InArray(NormalizeDisks(a.disks)[j])
             => ExtractRaidDevice(NormalizeDisks(a.disks)[j]) # a.md[i].ref.name
  PROVE  NormalizeRaids(NormalizeStorage(a))[m].health = "degraded"
<1> DEFINE disks == NormalizeStorage(a)
           raids == NormalizeRaids(disks)
           name == a.md[i].ref.name
<1>1. /\ disks \in Seq(Disks)
      /\ \A k \in DOMAIN disks : \/ FromDiskList(a, disks[k]) \/ FromMd(a, disks[k])
                                 \/ FromFilesystem(a, disks[k])
  BY NormalizedStorage
<1> HIDE DEF disks
<1>2. PICK k \in DOMAIN disks : /\ InArray(disks[k]) /\ raids[m].key = ExtractRaidDevice(disks[k])
                                /\ raids[m].health = RaidHealthFromDisk(disks[k])
  BY <1>1, NormalizedRaids DEF disks
<1>3. ExtractRaidDevice(disks[k]) = name /\ name \in MdDevices
  <2>1. disks[k] \in Disks
    BY <1>1, ElementOfSeq, LenProperties
  <2>2. QED
    BY <1>2, <2>1, ArrayOfDisk DEF InArray, disks
<1>4. ~ FromDiskList(a, disks[k])
  BY <1>2, <1>3 DEF FromDiskList
<1>5. \A x, status, members, size :
        x \in MdDevices => ExtractRaidDevice(LogicalDisk(x, status, members, size)) = x
  BY LogicalDiskFields DEF ExtractRaidDevice
<1>6. ~ FromFilesystem(a, disks[k])
  <2>1. SUFFICES ASSUME FromFilesystem(a, disks[k]) PROVE FALSE
    OBVIOUS
  <2>2. PICK r \in ToSet(a.fs) :
          /\ disks[k] = LogicalDisk(FindLogicalStorageReference(r), "unknown", {}, r.size)
          /\ FindLogicalStorageReference(r) # None
          /\ \A array \in ToSet(a.md) :
               array.ref.name \in MdDevices => FindLogicalStorageReference(r) # array.ref.name
    BY <2>1 DEF FromFilesystem
  <2>3. r \in FilesystemRecords
    BY SeqMembers DEF IsAnswer
  <2>4. FindLogicalStorageReference(r) \in MdDevices
    BY <2>2, <2>3, LogicalStorageReference
  <2>5. FindLogicalStorageReference(r) = name
    BY <1>3, <1>5, <2>2, <2>4
  <2>6. a.md[i] \in ToSet(a.md)
    BY DEF ToSet
  <2>7. QED
    BY <1>3, <2>2, <2>5, <2>6
<1>7. FromMd(a, disks[k])
  BY <1>1, <1>4, <1>6
<1>8. PICK r \in ToSet(a.md) : /\ disks[k] = LogicalDisk(r.ref.name, r.state, r.members, r.size)
                               /\ r.ref.name \in MdDevices
  BY <1>7 DEF FromMd
<1>9. r.ref.name = name
  BY <1>3, <1>5, <1>8
<1>10. PICK j \in DOMAIN a.md : r = a.md[j]
  BY DEF ToSet
<1>11. r = a.md[i]
  BY <1>9, <1>10 DEF KeepsNamesApart
<1>12. disks[k].status = "degraded"
  BY <1>8, <1>11, LogicalDiskFields
<1>13. QED
  BY <1>2, <1>12 DEF RaidHealthFromDisk, disks

Interfaces == [key : STRING, wol : BOOLEAN]

LEMMA NormalizedNetwork ==
  ASSUME NEW records \in Seq(InterfaceRecords)
  PROVE  /\ NormalizeNetwork(records) \in Seq(Interfaces)
         /\ \A r \in ToSet(records) : r.type # "loopback" => r.uuid \in Keys(NormalizeNetwork(records))
<1> DEFINE real == {i \in DOMAIN records : records[i].type # "loopback"}
           w == At(records, real)
           uuid == [i \in DOMAIN w |-> w[i].uuid]
           c == At(w, FirstPlaces(uuid))
           g == [i \in DOMAIN c |-> [key |-> c[i].uuid, wol |-> c[i].wol]]
           networks == SubSeq(g, 1, Len(c))
<1>1. NormalizeNetwork(records) = networks
  BY DEF NormalizeNetwork, Each, Distinct, Where
<1>2. real \subseteq DOMAIN records /\ \A i \in DOMAIN records : records[i].type # "loopback" => i \in real
  OBVIOUS
<1> HIDE DEF real
<1>3. w \in Seq(InterfaceRecords) /\ Picks(records, real, w)
  BY <1>2, Picked
<1>4. DOMAIN uuid = DOMAIN w /\ \A i \in DOMAIN w : uuid[i] = w[i].uuid
  OBVIOUS
<1> HIDE DEF w
<1> HIDE DEF uuid
<1>5. c \in Seq(InterfaceRecords) /\ FirstOnes(w, uuid, c)
  <2>1. w \in Seq(InterfaceRecords)
    BY <1>3
  <2>2. QED
    BY <2>1, <1>4, DistinctOfSeq
<1> HIDE DEF c
<1>6. \A i \in DOMAIN c : c[i] \in InterfaceRecords
  BY <1>5, ElementOfSeq, LenProperties
<1>7. \A i \in DOMAIN c : g[i] \in Interfaces
  BY <1>6 DEF Interfaces, InterfaceRecords
<1>8. \A i \in DOMAIN c : g[i].key = c[i].uuid
  OBVIOUS
<1> HIDE DEF g
<1>9. /\ networks \in Seq(Interfaces) /\ DOMAIN networks = DOMAIN c
      /\ \A i \in DOMAIN c : networks[i] = g[i]
  <2>1. c \in Seq(InterfaceRecords)
    BY <1>5
  <2>2. QED
    BY <2>1, <1>7, EachOfSeq
<1> HIDE DEF networks
<1>10. \A r \in ToSet(records) : r.type # "loopback" => r.uuid \in Keys(networks)
  <2>1. SUFFICES ASSUME NEW i \in DOMAIN records, records[i].type # "loopback"
                 PROVE  records[i].uuid \in Keys(networks)
    BY DEF ToSet
  <2>2. PICK n \in DOMAIN w : w[n] = records[i]
    BY <1>2, <1>3, <2>1 DEF Picks
  <2>3. PICK m \in DOMAIN c : \E j \in DOMAIN w : uuid[j] = uuid[n] /\ c[m] = w[j]
    BY <1>5 DEF FirstOnes
  <2>4. m \in DOMAIN networks /\ networks[m].key = records[i].uuid
    BY <1>4, <1>8, <1>9, <2>2, <2>3
  <2>5. QED
    BY <2>4 DEF Keys
<1>11. QED
  BY <1>1, <1>9, <1>10

\* The pools are some of the records that OMV lists.
LEMMA NormalizedPools ==
  ASSUME NEW records \in Seq(PoolRecords)
  PROVE  /\ NormalizeZfsPools(records) \in Seq(PoolRecords)
         /\ \A m \in DOMAIN NormalizeZfsPools(records) :
              \E i \in DOMAIN records : NormalizeZfsPools(records)[m] = records[i]
         /\ records # <<>> => NormalizeZfsPools(records) # <<>>
<1> DEFINE Below(r, other) == other.mount # <<>> /\ IsStrictPrefix(other.mount, r.mount)
           top == {i \in DOMAIN records : \A j \in DOMAIN records : ~Below(records[i], records[j])}
           pools == At(records, top)
<1>1. NormalizeZfsPools(records) = pools
  BY DEF NormalizeZfsPools, Where
<1>2. top \subseteq DOMAIN records /\ \A i \in DOMAIN records :
        (\A j \in DOMAIN records : ~Below(records[i], records[j])) => i \in top
  OBVIOUS
<1> HIDE DEF top
<1>3. pools \in Seq(PoolRecords) /\ Picks(records, top, pools)
  BY <1>2, Picked
<1> HIDE DEF pools
<1>4. \A m \in DOMAIN pools : \E i \in DOMAIN records : pools[m] = records[i]
  BY <1>2, <1>3 DEF Picks
<1>5. ASSUME records # <<>> PROVE pools # <<>>
  <2> DEFINE lengths == {Len(records[i].mount) : i \in DOMAIN records}
  <2>1. Len(records) \in Nat /\ DOMAIN records = 1 .. Len(records) /\ 1 \in DOMAIN records
    BY <1>5, LenProperties, EmptySeq
  <2>2. \A i \in DOMAIN records : records[i].mount \in Seq(STRING)
    <3>1. \A i \in 1 .. Len(records) : records[i] \in PoolRecords
      BY ElementOfSeq
    <3>2. QED
      BY <2>1, <3>1 DEF PoolRecords
  <2>3. \A i \in DOMAIN records : Len(records[i].mount) \in Nat
    BY <2>2, LenProperties
  <2>4. lengths \subseteq Nat /\ lengths # {}
    BY <2>1, <2>3
  <2>5. PICK n \in lengths : \A m \in lengths : n <= m
    BY <2>4, LeastExists
  <2>6. PICK i \in DOMAIN records : Len(records[i].mount) = n
    BY <2>5
  <2>7. ASSUME NEW j \in DOMAIN records PROVE ~ Below(records[i], records[j])
    <3> DEFINE short == records[j].mount
               long == records[i].mount
    <3>1. short \in Seq(STRING) /\ long \in Seq(STRING) /\ Len(long) <= Len(short)
      BY <2>2, <2>5, <2>6
    <3>2. ASSUME IsPrefix(short, long) PROVE short = long
      <4>1. Len(short) = Len(long)
        BY <3>1, <3>2, LenProperties DEF IsPrefix
      <4>2. \A k \in 1 .. Len(short) : short[k] = long[k]
        BY <3>2 DEF IsPrefix
      <4>3. QED
        BY <3>1, <4>1, <4>2, SeqEqual
    <3>3. QED
      BY <3>2 DEF IsStrictPrefix
  <2>8. \E m \in DOMAIN pools : pools[m] = records[i]
    BY <1>2, <1>3, <2>7 DEF Picks
  <2>9. QED
    BY <2>8
<1>6. QED
  BY <1>1, <1>3, <1>4, <1>5

-----------------------------------------------------------------------------
(* What is served comes from one poll.                                     *)

\* A loaded entry shows what the last poll made of its answers, through the
\* selection that is stored.
Served ==
  Loaded => /\ source = NormalizeInventory(polled, options)
            /\ data = FilterDataBySelection(source, options)

ServedInv == answers \in Appliances /\ polled \in Appliances /\ Served

LEMMA PollServes ==
  ASSUME ServedInv, PollSucceeds, UNCHANGED <<answers, options>>
  PROVE  ServedInv'
  BY DEF ServedInv, Served, PollSucceeds, Loaded

LEMMA InitServed == Init => ServedInv
  BY DEF Init, ServedInv, Served, Loaded

LEMMA NextServed == ServedInv /\ [Next]_vars => ServedInv'
<1> SUFFICES ASSUME ServedInv, [Next]_vars PROVE ServedInv'
  OBVIOUS
<1>1. CASE ApplianceChanges
  BY <1>1 DEF ApplianceChanges, ServedInv, Served, Loaded
<1>2. CASE Setup
  BY <1>2, PollServes DEF Setup
<1>3. CASE Poll
  BY <1>3, PollServes DEF Poll
<1>4. CASE SaveForm
  <2>1. /\ UNCHANGED <<answers, polled, source, data>>
        /\ entry' = IF options' = options THEN entry ELSE "loading"
    BY <1>4 DEF SaveForm
  <2>2. QED
    BY <2>1 DEF ServedInv, Served, Loaded
<1>5. CASE UNCHANGED vars
  BY <1>5 DEF vars, ServedInv, Served, Loaded
<1>6. QED
  BY <1>1, <1>2, <1>3, <1>4, <1>5 DEF Next

THEOREM ServedAlways == Spec => []ServedInv
  BY InitServed, NextServed, PTL DEF Spec

-----------------------------------------------------------------------------
(* DegradedIsTold.                                                         *)

LEMMA SourceFields ==
  ASSUME NEW a, NEW o
  PROVE  /\ NormalizeInventory(a, o).raid = NormalizeRaids(NormalizeStorage(a))
         /\ NormalizeInventory(a, o).networks = NormalizeNetwork(a.networks)
         /\ NormalizeInventory(a, o).pools = NormalizeZfsPools(a.pools)
         /\ NormalizeInventory(a, o).fs = NormalizeFilesystems(a.fs, NormalizeStorage(a))
         /\ NormalizeInventory(a, o).known = Keys(NormalizeStorage(a))
         /\ NormalizeInventory(a, o).disk =
              ApplyStorageMetrics(NormalizeStorage(a), NormalizeFilesystems(a.fs, NormalizeStorage(a)))
  BY DEF NormalizeInventory

\* No array that MdMgmt calls degraded is shown as clean.
LEMMA ServedDegraded == ServedInv => DegradedIsTold
<1>1. SUFFICES ASSUME ServedInv, Loaded,
                      NEW i \in DOMAIN polled.md, NEW r \in ToSet(source.raid),
                      r.key = polled.md[i].ref.name, polled.md[i].state = "degraded",
                      r.key \notin {ExtractRaidDevice(d) :
                                      d \in ToSet(Where(NormalizeDisks(polled.disks), InArray))}
               PROVE  r.health = "degraded"
  BY DEF DegradedIsTold
<1> DEFINE disks == NormalizeDisks(polled.disks)
           in == {j \in DOMAIN disks : InArray(disks[j])}
<1>2. IsAnswer(polled) /\ KeepsNamesApart(polled)
  BY <1>1, AppliancesAssumption DEF ServedInv
<1>3. disks \in Seq(Disks)
  BY <1>2, NormalizedDisks DEF IsAnswer
<1>4. Where(disks, InArray) = At(disks, in)
  BY DEF Where
<1>5. in \subseteq DOMAIN disks /\ \A j \in DOMAIN disks : InArray(disks[j]) => j \in in
  OBVIOUS
<1>6. r.key \notin {ExtractRaidDevice(d) : d \in ToSet(At(disks, in))}
  BY <1>1, <1>4
<1> HIDE DEF in
<1>7. Picks(disks, in, At(disks, in))
  BY <1>3, <1>5, Picked
<1>8. \A j \in DOMAIN disks : InArray(disks[j]) => ExtractRaidDevice(disks[j]) # r.key
  <2>1. SUFFICES ASSUME NEW j \in DOMAIN disks, InArray(disks[j])
                 PROVE  disks[j] \in ToSet(At(disks, in))
    BY <1>6
  <2>2. PICK m \in DOMAIN At(disks, in) : At(disks, in)[m] = disks[j]
    BY <1>5, <1>7, <2>1 DEF Picks
  <2>3. QED
    BY <2>2 DEF ToSet
<1>9. source.raid = NormalizeRaids(NormalizeStorage(polled))
  BY <1>1, SourceFields DEF ServedInv, Served
<1>10. PICK m \in DOMAIN NormalizeRaids(NormalizeStorage(polled)) :
         r = NormalizeRaids(NormalizeStorage(polled))[m]
  BY <1>1, <1>9 DEF ToSet
<1>11. QED
  BY <1>1, <1>2, <1>8, <1>10, DegradedArrays

THEOREM DegradedArraysAreTold == Spec => []DegradedIsTold
  BY ServedAlways, ServedDegraded, PTL

-----------------------------------------------------------------------------
(* CreatedIsExpected.                                                      *)

\* The clean-up's list, for what is shown of one poll.
LEMMA CreatedAsExpected ==
  ASSUME NEW a, IsAnswer(a), NEW o, NEW cron
  PROVE  LET d == FilterDataBySelection(NormalizeInventory(a, o), o)
         IN  /\ Expected(d, cron) \subseteq {e.id : e \in Created(d, cron)}
             /\ \A e \in Created(d, cron) : /\ e.id \in Expected(d, cron) \/ e.id[1] = "tempmon"
                                            /\ e.device \in ExpectedDevices(d)
<1> DEFINE s == NormalizeInventory(a, o)
           d == FilterDataBySelection(s, o)
<1>1. s = [f \in Parts |-> s[f]]
  BY InventoryParts
<1>2. /\ s.networks = NormalizeNetwork(a.networks)
      /\ s.raid = NormalizeRaids(NormalizeStorage(a))
      /\ s.pools = NormalizeZfsPools(a.pools)
  BY SourceFields
<1>3. /\ s.networks \in Seq(Interfaces) /\ s.raid \in Seq(Raids) /\ s.pools \in Seq(PoolRecords)
  <2>1. NormalizeNetwork(a.networks) \in Seq(Interfaces)
    BY NormalizedNetwork DEF IsAnswer
  <2>2. NormalizeStorage(a) \in Seq(Disks)
    BY NormalizedStorage
  <2>3. NormalizeRaids(NormalizeStorage(a)) \in Seq(Raids)
    BY <2>2, NormalizedRaids
  <2>4. NormalizeZfsPools(a.pools) \in Seq(PoolRecords)
    BY NormalizedPools DEF IsAnswer
  <2>5. QED
    BY <1>2, <2>1, <2>3, <2>4
<1> HIDE DEF s
<1>4. /\ d.networks = At(s.networks, Shown(s.networks, "networks", o))
      /\ d.raid = At(s.raid, Shown(s.raid, "raids", o))
      /\ d.pools = At(s.pools, Shown(s.pools, "pools", o))
  <2>1. IsFiltered(s, o, d)
    BY <1>1, Filtered
  <2>2. QED
    BY <2>1 DEF IsFiltered
<1> HIDE DEF d
<1>5. /\ Shown(s.networks, "networks", o) \subseteq DOMAIN s.networks
      /\ Shown(s.raid, "raids", o) \subseteq DOMAIN s.raid
      /\ Shown(s.pools, "pools", o) \subseteq DOMAIN s.pools
  BY DEF Shown
<1>6. /\ DOMAIN d.networks \subseteq Nat /\ DOMAIN d.raid \subseteq Nat /\ DOMAIN d.pools \subseteq Nat
  <2>1. DOMAIN d.networks \subseteq Nat
    <3>1. s.networks \in Seq(Interfaces) /\ Shown(s.networks, "networks", o) \subseteq DOMAIN s.networks
      BY <1>3, <1>5
    <3>2. DOMAIN At(s.networks, Shown(s.networks, "networks", o)) \subseteq Nat
      BY <3>1, AtOfSeq
    <3>3. QED
      BY <1>4, <3>2
  <2>2. DOMAIN d.raid \subseteq Nat
    <3>1. s.raid \in Seq(Raids) /\ Shown(s.raid, "raids", o) \subseteq DOMAIN s.raid
      BY <1>3, <1>5
    <3>2. DOMAIN At(s.raid, Shown(s.raid, "raids", o)) \subseteq Nat
      BY <3>1, AtOfSeq
    <3>3. QED
      BY <1>4, <3>2
  <2>3. DOMAIN d.pools \subseteq Nat
    <3>1. s.pools \in Seq(PoolRecords) /\ Shown(s.pools, "pools", o) \subseteq DOMAIN s.pools
      BY <1>3, <1>5
    <3>2. DOMAIN At(s.pools, Shown(s.pools, "pools", o)) \subseteq Nat
      BY <3>1, AtOfSeq
    <3>3. QED
      BY <1>4, <3>2
  <2>4. QED
    BY <2>1, <2>2, <2>3
<1>7. \A x \in Expected(d, cron) : \E e \in Created(d, cron) : e.id = x
  BY <1>6, ExpectedCreated
<1>8. \A e \in Created(d, cron) : /\ e.id \in Expected(d, cron) \/ e.id[1] = "tempmon"
                                  /\ e.device \in ExpectedDevices(d)
  BY IdsExpected, DevicesExpected
<1>9. Expected(d, cron) \subseteq {e.id : e \in Created(d, cron)}
  BY <1>7
<1>10. QED
  BY <1>8, <1>9 DEF d, s

LEMMA ServedExpected == ServedInv => CreatedIsExpected
<1>1. SUFFICES ASSUME ServedInv, Loaded
               PROVE  /\ Expected(data, CronSelection) \subseteq {e.id : e \in Created(data, CronSelection)}
                      /\ \A e \in Created(data, CronSelection) :
                           /\ e.id \in Expected(data, CronSelection) \/ e.id[1] = "tempmon"
                           /\ e.device \in ExpectedDevices(data)
  BY DEF CreatedIsExpected
<1>2. IsAnswer(polled)
  BY <1>1, AppliancesAssumption DEF ServedInv
<1>3. data = FilterDataBySelection(NormalizeInventory(polled, options), options)
  BY <1>1 DEF ServedInv, Served
<1>4. QED
  BY <1>2, <1>3, CreatedAsExpected

THEOREM CleanUpExpectsWhatIsCreated == Spec => []CreatedIsExpected
  BY ServedAlways, ServedExpected, PTL

-----------------------------------------------------------------------------
(* Filesystems and what they say of the disks.                             *)

Filesystems == [key : STRING, type : STRING, size : Nat, disk : Devices \cup {None}]

\* Different records of w come from different places.
Apart(s, S, w) ==
  \A m, n \in DOMAIN w : m # n => \E i, j \in S : i # j /\ w[m] = s[i] /\ w[n] = s[j]

LEMMA PickedApart ==
  ASSUME NEW T, NEW s \in Seq(T), NEW S, S \subseteq DOMAIN s
  PROVE  Apart(s, S, At(s, S))
<1> DEFINE w == At(s, S)
<1>1. \A m, n \in DOMAIN w : m # n => \E i, j \in S : i # j /\ w[m] = s[i] /\ w[n] = s[j]
  BY AtOfSeq
<1> HIDE DEF w
<1>2. Apart(s, S, w)
  BY <1>1 DEF Apart
<1>3. QED
  BY <1>2 DEF w

LEMMA LeastOfPlaces ==
  ASSUME NEW T, NEW s \in Seq(T), NEW S, S \subseteq DOMAIN s, S # {}
  PROVE  Least(S) \in S
  BY LenProperties, LeastProperties

LEMMA FilesystemDisk ==
  ASSUME NEW r \in FilesystemRecords, NEW disks \in Seq(Disks)
  PROVE  MapFilesystemToDisk(r, disks) \in Devices \cup {None}
<1> DEFINE names == {NormalizeDeviceReference(r.refs[i]) : i \in DOMAIN r.refs}
           named == {i \in DOMAIN disks : disks[i].key \in names}
           parents == {WithoutPartition[n] : n \in {m \in names : WithoutPartition[m] # m}}
                        \cap Keys(disks)
           exact == {i \in DOMAIN disks : Distance(disks[i].size, r.size) <= 1}
           close == {i \in DOMAIN disks : /\ disks[i].size >= r.size
                                          /\ 100 * (disks[i].size - r.size) <= 8 * disks[i].size}
<1>1. \A i \in DOMAIN disks : disks[i].key \in Devices
  <2>1. \A i \in DOMAIN disks : disks[i] \in Disks
    BY ElementOfSeq, LenProperties
  <2>2. QED
    BY <2>1 DEF Disks
<1>2. Keys(disks) \subseteq Devices
  BY <1>1 DEF Keys
<1>3. \A S : S \subseteq DOMAIN disks /\ S # {} => disks[Least(S)].key \in Devices
  BY <1>1, LeastOfPlaces
<1>4. \A S : Cardinality(S) = 1 => S # {}
  <2>1. Cardinality({}) = 0
    BY FS_EmptySet
  <2>2. \A S : S = {} => Cardinality(S) = 0
    BY <2>1, Zenon
  <2>3. QED
    BY <2>2
<1>5. MatchDiskBySize(r.size, disks) \in Devices \cup {None}
  <2>1. exact \subseteq DOMAIN disks /\ close \subseteq DOMAIN disks
    OBVIOUS
  <2>2. MatchDiskBySize(r.size, disks) =
          IF r.size = 0 THEN None
          ELSE IF Cardinality(exact) = 1 THEN disks[Least(exact)].key
          ELSE IF Cardinality(close) = 1 THEN disks[Least(close)].key
          ELSE None
    BY DEF MatchDiskBySize
  <2> HIDE DEF exact, close
  <2>3. QED
    BY <1>3, <1>4, <2>1, <2>2
<1>6. MapFilesystemToDisk(r, disks) =
        IF named # {} THEN disks[Least(named)].key
        ELSE IF parents # {} THEN CHOOSE p \in parents : TRUE
        ELSE IF r.type \in VirtualTypes THEN None
        ELSE MatchDiskBySize(r.size, disks)
  BY DEF MapFilesystemToDisk
<1>7. named \subseteq DOMAIN disks /\ parents \subseteq Devices
  BY <1>2
<1> HIDE DEF named, parents
<1>8. parents # {} => (CHOOSE p \in parents : TRUE) \in parents
  OBVIOUS
<1>9. QED
  BY <1>3, <1>5, <1>6, <1>7, <1>8

\* One record per filesystem that is no swap.
LEMMA NormalizedFilesystems ==
  ASSUME NEW records \in Seq(FilesystemRecords), NEW disks \in Seq(Disks),
         \A i, j \in DOMAIN records : records[i].uuid = records[j].uuid => i = j
  PROVE  /\ NormalizeFilesystems(records, disks) \in Seq(Filesystems)
         /\ Unique(NormalizeFilesystems(records, disks))
         /\ \A i \in DOMAIN NormalizeFilesystems(records, disks) : \E r \in ToSet(records) :
              /\ NormalizeFilesystems(records, disks)[i].key = r.uuid
              /\ NormalizeFilesystems(records, disks)[i].disk = MapFilesystemToDisk(r, disks)
         /\ \A r \in ToSet(records) : r.type # "swap" => \E i \in DOMAIN NormalizeFilesystems(records, disks) :
              /\ NormalizeFilesystems(records, disks)[i].key = r.uuid
              /\ NormalizeFilesystems(records, disks)[i].type = r.type
<1> DEFINE in == {i \in DOMAIN records : records[i].type # "swap"}
           w == At(records, in)
           g == [i \in DOMAIN w |-> [key |-> w[i].uuid, type |-> w[i].type, size |-> w[i].size,
                                     disk |-> MapFilesystemToDisk(w[i], disks)]]
           fs == SubSeq(g, 1, Len(w))
<1>1. NormalizeFilesystems(records, disks) = fs
  BY DEF NormalizeFilesystems, Each, Where
<1>2. in \subseteq DOMAIN records /\ \A i \in DOMAIN records : records[i].type # "swap" => i \in in
  OBVIOUS
<1> HIDE DEF in
<1>3. w \in Seq(FilesystemRecords) /\ Apart(records, in, w) /\ Picks(records, in, w)
  BY <1>2, Picked, PickedApart
<1> HIDE DEF w
<1>4. \A i \in DOMAIN w : w[i] \in FilesystemRecords
  BY <1>3, ElementOfSeq, LenProperties
<1>5. \A i \in DOMAIN w : MapFilesystemToDisk(w[i], disks) \in Devices \cup {None}
  BY <1>4, FilesystemDisk
<1>6. \A i \in DOMAIN w : g[i] \in Filesystems
  BY <1>4, <1>5 DEF Filesystems, FilesystemRecords
<1>7. \A i \in DOMAIN w : /\ g[i].key = w[i].uuid /\ g[i].type = w[i].type
                          /\ g[i].disk = MapFilesystemToDisk(w[i], disks)
  OBVIOUS
<1> HIDE DEF g
<1>8. /\ fs \in Seq(Filesystems) /\ DOMAIN fs = DOMAIN w
      /\ \A i \in DOMAIN w : fs[i] = g[i]
  <2>1. w \in Seq(FilesystemRecords)
    BY <1>3
  <2>2. QED
    BY <2>1, <1>6, EachOfSeq
<1> HIDE DEF fs
<1>9. Unique(fs)
  <2>1. SUFFICES ASSUME NEW m \in DOMAIN fs, NEW n \in DOMAIN fs, m # n
                 PROVE  fs[m].key # fs[n].key
    BY DEF Unique
  <2>2. PICK i \in in, j \in in : i # j /\ w[m] = records[i] /\ w[n] = records[j]
    BY <1>3, <1>8, <2>1 DEF Apart
  <2>3. fs[m].key = records[i].uuid /\ fs[n].key = records[j].uuid
    BY <1>7, <1>8, <2>2
  <2>4. QED
    BY <1>2, <2>2, <2>3
<1>10. \A i \in DOMAIN fs : \E r \in ToSet(records) :
         fs[i].key = r.uuid /\ fs[i].disk = MapFilesystemToDisk(r, disks)
  <2>1. \A i \in DOMAIN w : w[i] \in ToSet(records)
    BY <1>2, <1>3 DEF Picks, ToSet
  <2>2. QED
    BY <1>7, <1>8, <2>1
<1>11. \A r \in ToSet(records) : r.type # "swap" =>
         \E i \in DOMAIN fs : fs[i].key = r.uuid /\ fs[i].type = r.type
  <2>1. SUFFICES ASSUME NEW n \in DOMAIN records, records[n].type # "swap"
                 PROVE  \E i \in DOMAIN fs : fs[i].key = records[n].uuid /\ fs[i].type = records[n].type
    BY DEF ToSet
  <2>2. PICK m \in DOMAIN w : w[m] = records[n]
    BY <1>2, <1>3, <2>1 DEF Picks
  <2>3. QED
    BY <1>7, <1>8, <2>2
<1>12. QED
  BY <1>1, <1>8, <1>9, <1>10, <1>11

\* The same disks, with metrics.
LEMMA MeasuredDisks ==
  ASSUME NEW disks \in Seq(Disks), Unique(disks), NEW fs
  PROVE  \E T : /\ ApplyStorageMetrics(disks, fs) \in Seq(T)
                /\ Unique(ApplyStorageMetrics(disks, fs))
                /\ \A i \in DOMAIN ApplyStorageMetrics(disks, fs) :
                     /\ i \in DOMAIN disks
                     /\ ApplyStorageMetrics(disks, fs)[i].key = disks[i].key
                     /\ ApplyStorageMetrics(disks, fs)[i].virtual = disks[i].virtual
                     /\ ApplyStorageMetrics(disks, fs)[i].israid = disks[i].israid
                     /\ ApplyStorageMetrics(disks, fs)[i].logical = disks[i].logical
                /\ DOMAIN ApplyStorageMetrics(disks, fs) = DOMAIN disks
<1> DEFINE Best(d) == BestStorageCandidate(d.key, fs)
           Measures(d) == [key |-> d.key, israid |-> d.israid, logical |-> d.logical,
                           virtual |-> d.virtual, status |-> d.status, array |-> d.array,
                           members |-> d.members, size |-> d.size, values |-> d.values,
                           source |-> Best(d).source, used |-> Best(d).used]
           g == [i \in DOMAIN disks |-> Measures(disks[i])]
           T == {g[i] : i \in DOMAIN disks}
           all == SubSeq(g, 1, Len(disks))
<1>1. ApplyStorageMetrics(disks, fs) = all
  BY DEF ApplyStorageMetrics, Each
<1>2. \A i \in DOMAIN disks : /\ g[i].key = disks[i].key
                              /\ g[i].virtual = disks[i].virtual
                              /\ g[i].israid = disks[i].israid
                              /\ g[i].logical = disks[i].logical
  OBVIOUS
<1>3. \A i \in DOMAIN disks : g[i] \in T
  OBVIOUS
<1> HIDE DEF T
<1> HIDE DEF g
<1>4. all \in Seq(T) /\ DOMAIN all = DOMAIN disks /\ \A i \in DOMAIN disks : all[i] = g[i]
  BY <1>3, EachOfSeq
<1> HIDE DEF all
<1>5. Unique(all)
  BY <1>2, <1>4 DEF Unique
<1>6. QED
  BY <1>1, <1>2, <1>4, <1>5

\* What the selection lets through of disks with keys of their own.
LEMMA FilteredDisks ==
  ASSUME NEW T, NEW disks \in Seq(T), Unique(disks), NEW o
  PROVE  Unique(FilterDisks(disks, o))
<1> DEFINE in == {i \in DOMAIN disks :
                    Passes(disks[i].key, SelectedValues(o,
                      IF disks[i].israid \/ disks[i].logical THEN "raids" ELSE "disks"))}
<1>1. FilterDisks(disks, o) = At(disks, in)
  BY DEF FilterDisks, Where
<1>2. in \subseteq DOMAIN disks
  OBVIOUS
<1> HIDE DEF in
<1>3. QED
  BY <1>1, <1>2, UniqueAt

-----------------------------------------------------------------------------
(* Containers: every normalizer keeps their number and all but the project. *)

Containers ==
  [key : Names, project : Names, inspect : Names, running : BOOLEAN,
   mounts : Seq(STRING), values : SUBSET ContainerValues, owner : Names]

\* The containers s are those that OMV lists, in its order.
AsListed(a, s) ==
  /\ DOMAIN s = DOMAIN a.containers
  /\ \A i \in DOMAIN s : /\ s[i].key = a.containers[i].name
                         /\ s[i].owner = a.containers[i].owner
                         /\ s[i].running = a.containers[i].running
                         /\ s[i].mounts = a.containers[i].mounts
                         /\ s[i].values = a.containers[i].values

LEMMA NormalizedCompose ==
  ASSUME NEW a, a.containers \in Seq(ContainerRecords)
  PROVE  LET s == NormalizeCompose(a.containers)
         IN  /\ s \in Seq(Containers) /\ AsListed(a, s)
             /\ \A i \in DOMAIN s : /\ s[i].project = a.containers[i].label
                                    /\ s[i].inspect = a.containers[i].inspect
<1> DEFINE c == a.containers
           g == [i \in DOMAIN c |-> [key |-> c[i].name, project |-> c[i].label,
                                     inspect |-> c[i].inspect, running |-> c[i].running,
                                     mounts |-> c[i].mounts, values |-> c[i].values,
                                     owner |-> c[i].owner]]
           s == SubSeq(g, 1, Len(c))
<1>1. NormalizeCompose(a.containers) = s
  BY DEF NormalizeCompose, Each
<1>2. \A i \in DOMAIN c : c[i] \in ContainerRecords
  BY ElementOfSeq, LenProperties
<1>3. \A i \in DOMAIN c : g[i] \in Containers
  BY <1>2 DEF Containers, ContainerRecords
<1>4. \A i \in DOMAIN c : /\ g[i].key = c[i].name /\ g[i].owner = c[i].owner
                          /\ g[i].running = c[i].running /\ g[i].mounts = c[i].mounts
                          /\ g[i].values = c[i].values /\ g[i].project = c[i].label
                          /\ g[i].inspect = c[i].inspect
  OBVIOUS
<1> HIDE DEF g
<1>5. s \in Seq(Containers) /\ DOMAIN s = DOMAIN c /\ \A i \in DOMAIN c : s[i] = g[i]
  BY <1>3, EachOfSeq
<1> HIDE DEF s
<1>6. AsListed(a, s)
  BY <1>4, <1>5 DEF AsListed
<1>7. QED
  BY <1>1, <1>4, <1>5, <1>6

\* What docker inspect adds.
LEMMA MergedCompose ==
  ASSUME NEW a, NEW s \in Seq(Containers), AsListed(a, s), NEW containers, NEW projects
  PROVE  LET t == MergeComposeInspect(s, containers, projects)
         IN  /\ t \in Seq(Containers) /\ AsListed(a, t)
             /\ \A i \in DOMAIN t :
                  t[i].project = IF /\ ComposeSelected(s[i], containers, projects)
                                    /\ s[i].project = NoProject
                                 THEN s[i].inspect ELSE s[i].project
<1> DEFINE Known(c) == IF c.project # NoProject THEN c.project ELSE c.inspect
           Merges(c) == IF ComposeSelected(c, containers, projects)
                        THEN [c EXCEPT !.project = Known(c)] ELSE c
           g == [i \in DOMAIN s |-> Merges(s[i])]
           t == SubSeq(g, 1, Len(s))
<1>1. MergeComposeInspect(s, containers, projects) = t
  BY DEF MergeComposeInspect, Each
<1>2. \A i \in DOMAIN s : s[i] \in Containers
  BY ElementOfSeq, LenProperties
<1>3. ASSUME NEW c \in Containers
      PROVE  /\ Merges(c) \in Containers /\ Merges(c).key = c.key /\ Merges(c).owner = c.owner
             /\ Merges(c).running = c.running /\ Merges(c).mounts = c.mounts
             /\ Merges(c).values = c.values
             /\ Merges(c).project = IF /\ ComposeSelected(c, containers, projects)
                                       /\ c.project = NoProject
                                    THEN c.inspect ELSE c.project
  BY DEF Containers
<1>4. \A i \in DOMAIN s : g[i] = Merges(s[i])
  OBVIOUS
<1> HIDE DEF Merges
<1> HIDE DEF g
<1>5. \A i \in DOMAIN s : g[i] \in Containers
  BY <1>2, <1>3, <1>4
<1>6. t \in Seq(Containers) /\ DOMAIN t = DOMAIN s /\ \A i \in DOMAIN s : t[i] = g[i]
  BY <1>5, EachOfSeq
<1> HIDE DEF t
<1>7. \A i \in DOMAIN s :
        /\ t[i].key = s[i].key /\ t[i].owner = s[i].owner
        /\ t[i].running = s[i].running /\ t[i].mounts = s[i].mounts
        /\ t[i].values = s[i].values
        /\ t[i].project = IF /\ ComposeSelected(s[i], containers, projects)
                             /\ s[i].project = NoProject
                          THEN s[i].inspect ELSE s[i].project
  BY <1>2, <1>3, <1>4, <1>6
<1>8. AsListed(a, t)
  BY <1>6, <1>7 DEF AsListed
<1>9. QED
  BY <1>1, <1>6, <1>7, <1>8

\* What the names of the containers add.
LEMMA LinkedCompose ==
  ASSUME NEW a, NEW s \in Seq(Containers), AsListed(a, s), NEW projects
  PROVE  LET t == LinkComposeProjects(s, projects)
         IN  /\ \E T : t \in Seq(T)
             /\ AsListed(a, t)
             /\ \A i \in DOMAIN t :
                  t[i].project = IF s[i].project \in Keys(projects) THEN s[i].project
                                 ELSE MatchComposeProject(s[i].key, projects)
<1> DEFINE Links(c) == IF c.project \in Keys(projects) THEN c
                       ELSE [c EXCEPT !.project = MatchComposeProject(c.key, projects)]
           g == [i \in DOMAIN s |-> Links(s[i])]
           T == {g[i] : i \in DOMAIN s}
           t == SubSeq(g, 1, Len(s))
<1>1. LinkComposeProjects(s, projects) = t
  BY DEF LinkComposeProjects, Each
<1>2. \A i \in DOMAIN s : s[i] \in Containers
  BY ElementOfSeq, LenProperties
<1>3. ASSUME NEW c \in Containers
      PROVE  /\ Links(c).key = c.key /\ Links(c).owner = c.owner
             /\ Links(c).running = c.running /\ Links(c).mounts = c.mounts
             /\ Links(c).values = c.values
             /\ Links(c).project = IF c.project \in Keys(projects) THEN c.project
                                   ELSE MatchComposeProject(c.key, projects)
  BY DEF Containers
<1>4. \A i \in DOMAIN s : g[i] = Links(s[i])
  OBVIOUS
<1>5. \A i \in DOMAIN s : g[i] \in T
  OBVIOUS
<1> HIDE DEF Links
<1> HIDE DEF g
<1> HIDE DEF T
<1>6. t \in Seq(T) /\ DOMAIN t = DOMAIN s /\ \A i \in DOMAIN s : t[i] = g[i]
  BY <1>5, EachOfSeq
<1> HIDE DEF t
<1>7. \A i \in DOMAIN s :
        /\ t[i].key = s[i].key /\ t[i].owner = s[i].owner
        /\ t[i].running = s[i].running /\ t[i].mounts = s[i].mounts
        /\ t[i].values = s[i].values
        /\ t[i].project = IF s[i].project \in Keys(projects) THEN s[i].project
                          ELSE MatchComposeProject(s[i].key, projects)
  BY <1>2, <1>3, <1>4, <1>6
<1>8. AsListed(a, t)
  BY <1>6, <1>7 DEF AsListed
<1>9. QED
  BY <1>1, <1>6, <1>7, <1>8

\* A finite set, listed.
LEMMA SetToSeqProperties ==
  ASSUME NEW S, IsFiniteSet(S)
  PROVE  /\ SetToSeq(S) \in Seq(S)
         /\ \A i, j \in DOMAIN SetToSeq(S) : SetToSeq(S)[i] = SetToSeq(S)[j] => i = j
<1> DEFINE n == Cardinality(S)
<1>1. n \in Nat /\ ExistsBijection(1 .. n, S)
  BY FS_CardinalityType
<1>2. PICK b \in Bijection(1 .. n, S) : TRUE
  BY <1>1 DEF ExistsBijection
<1>3. b \in [1 .. n -> S] /\ IsInjective(b)
  BY <1>2 DEF Bijection, Injection, IsInjective
<1>4. SetToSeq(S) = CHOOSE f \in [1 .. n -> S] : IsInjective(f)
  BY DEF SetToSeq
<1>5. SetToSeq(S) \in [1 .. n -> S] /\ IsInjective(SetToSeq(S))
  BY <1>3, <1>4
<1>6. SetToSeq(S) \in Seq(S)
  BY <1>1, <1>5, SeqDef
<1>7. QED
  BY <1>5, <1>6 DEF IsInjective

\* Every element of the set is listed.
LEMMA SetToSeqListsAll ==
  ASSUME NEW S, IsFiniteSet(S)
  PROVE  \A x \in S : \E i \in DOMAIN SetToSeq(S) : SetToSeq(S)[i] = x
<1> DEFINE n == Cardinality(S)
           f == SetToSeq(S)
<1>1. n \in Nat /\ ExistsBijection(1 .. n, S)
  BY FS_CardinalityType
<1>2. PICK b \in Bijection(1 .. n, S) : TRUE
  BY <1>1 DEF ExistsBijection
<1>3. b \in [1 .. n -> S] /\ IsInjective(b)
  BY <1>2 DEF Bijection, Injection, IsInjective
<1>4. f = CHOOSE g \in [1 .. n -> S] : IsInjective(g)
  BY DEF SetToSeq
<1>5. f \in [1 .. n -> S] /\ IsInjective(f)
  BY <1>3, <1>4
<1> HIDE DEF f
<1>6. f \in Injection(1 .. n, S)
  BY <1>5 DEF Injection, IsInjective
<1>7. IsFiniteSet(1 .. n) /\ Cardinality(1 .. n) = n
  BY <1>1, FS_Interval
<1>8. f \in Surjection(1 .. n, S)
  BY <1>6, <1>7, FS_Injection
<1>9. \A x \in S : \E i \in DOMAIN f : f[i] = x
  BY <1>5, <1>8 DEF Surjection
<1>10. QED
  BY <1>9 DEF f

-----------------------------------------------------------------------------
(* Projects.                                                               *)

NamedProjects(compose) == {compose[i].project : i \in DOMAIN compose} \ {NoProject}

ProjectRecord(files, compose, p) ==
  [key |-> p, uuid |-> p \in files, counts |-> ComposeProjectCounts(compose, p)]

LEMMA NamedProjectsFinite ==
  ASSUME NEW T, NEW compose \in Seq(T)
  PROVE  IsFiniteSet(NamedProjects(compose))
<1> DEFINE all == {compose[i].project : i \in DOMAIN compose}
           f == [i \in DOMAIN compose |-> compose[i].project]
<1>1. IsFiniteSet(DOMAIN compose)
  BY LenProperties, FS_Interval
<1>2. f \in Surjection(DOMAIN compose, all)
  BY DEF Surjection
<1>3. IsFiniteSet(all)
  BY <1>1, <1>2, FS_Surjection
<1>4. NamedProjects(compose) \in SUBSET all
  BY DEF NamedProjects
<1>5. QED
  BY <1>3, <1>4, FS_Subset

LEMMA NormalizedProjects ==
  ASSUME NEW files, IsFiniteSet(files), NEW T, NEW compose \in Seq(T)
  PROVE  LET s == NormalizeComposeProjects(files, compose)
         IN  /\ \E U : s \in Seq(U)
             /\ Unique(s)
             /\ Keys(s) = files \cup NamedProjects(compose)
             /\ \A i \in DOMAIN s : s[i] = ProjectRecord(files, compose, s[i].key)
<1> DEFINE S == files \cup NamedProjects(compose)
           c == SetToSeq(S)
           g == [i \in DOMAIN c |-> ProjectRecord(files, compose, c[i])]
           U == {g[i] : i \in DOMAIN c}
           s == SubSeq(g, 1, Len(c))
<1>1. NormalizeComposeProjects(files, compose) = s
  BY DEF NormalizeComposeProjects, NamedProjects, ProjectRecord, Each
<1>2. IsFiniteSet(S)
  BY NamedProjectsFinite, FS_Union
<1> HIDE DEF S
<1>3. /\ c \in Seq(S)
      /\ \A i, j \in DOMAIN c : c[i] = c[j] => i = j
      /\ \A x \in S : \E i \in DOMAIN c : c[i] = x
  BY <1>2, SetToSeqProperties, SetToSeqListsAll
<1> HIDE DEF c
<1>4. \A i \in DOMAIN c : c[i] \in S
  BY <1>3, ElementOfSeq, LenProperties
<1>5. \A i \in DOMAIN c : g[i] = ProjectRecord(files, compose, c[i]) /\ g[i] \in U
  OBVIOUS
<1> HIDE DEF g
<1> HIDE DEF U
<1>6. s \in Seq(U) /\ DOMAIN s = DOMAIN c /\ \A i \in DOMAIN c : s[i] = g[i]
  <2>1. c \in Seq(S)
    BY <1>3
  <2>2. QED
    BY <2>1, <1>5, EachOfSeq
<1> HIDE DEF s
<1>7. \A p : ProjectRecord(files, compose, p).key = p
  BY DEF ProjectRecord
<1>8. \A i \in DOMAIN s : s[i].key = c[i] /\ s[i] = ProjectRecord(files, compose, s[i].key)
  BY <1>5, <1>6, <1>7
<1>9. Unique(s)
  BY <1>3, <1>6, <1>8 DEF Unique
<1>10. Keys(s) = S
  BY <1>3, <1>4, <1>6, <1>8 DEF Keys
<1>11. QED
  BY <1>1, <1>6, <1>8, <1>9, <1>10 DEF S

\* The projects that are shown, with the totals of the containers that are.
LEMMA FilteredProjects ==
  ASSUME NEW T, NEW projects \in Seq(T), Unique(projects), NEW compose, NEW o,
         \A i \in DOMAIN projects :
           projects[i] = [key |-> projects[i].key, uuid |-> projects[i].uuid,
                          counts |-> projects[i].counts]
  PROVE  LET t == FilterProjects(projects, compose, o)
         IN  /\ Unique(t)
             /\ \A m \in DOMAIN t :
                  /\ t[m].counts = ComposeProjectCounts(compose, t[m].key)
                  /\ t[m].key \in Keys(projects)
                  /\ Passes(t[m].key, SelectedValues(o, "projects"))
             /\ \A i \in DOMAIN projects : Passes(projects[i].key, SelectedValues(o, "projects")) =>
                  \E m \in DOMAIN t : t[m].key = projects[i].key /\ t[m].uuid = projects[i].uuid
<1> DEFINE in == {i \in DOMAIN projects : Passes(projects[i].key, SelectedValues(o, "projects"))}
           w == At(projects, in)
           Counted(p) == [p EXCEPT !.counts = ComposeProjectCounts(compose, p.key)]
           g == [i \in DOMAIN w |-> Counted(w[i])]
           U == {g[i] : i \in DOMAIN w}
           t == SubSeq(g, 1, Len(w))
<1>1. FilterProjects(projects, compose, o) = t
  BY DEF FilterProjects, Each, Where
<1>2. in \subseteq DOMAIN projects /\ \A i \in DOMAIN projects :
        i \in in <=> Passes(projects[i].key, SelectedValues(o, "projects"))
  OBVIOUS
<1> HIDE DEF in
<1>3. w \in Seq(T) /\ Picks(projects, in, w) /\ Unique(w)
  BY <1>2, Picked, UniqueAt
<1> HIDE DEF w
<1>4. \A i \in DOMAIN w : /\ \E j \in DOMAIN projects : w[i] = projects[j]
                          /\ Passes(w[i].key, SelectedValues(o, "projects"))
  BY <1>2, <1>3 DEF Picks
<1>5. ASSUME NEW key, NEW uuid, NEW counts, NEW p, p = [key |-> key, uuid |-> uuid, counts |-> counts]
      PROVE  /\ Counted(p).key = p.key /\ Counted(p).uuid = p.uuid
             /\ Counted(p).counts = ComposeProjectCounts(compose, p.key)
  BY <1>5
<1>6. \A i \in DOMAIN w : g[i] = Counted(w[i]) /\ g[i] \in U
  OBVIOUS
<1> HIDE DEF Counted
<1> HIDE DEF g
<1> HIDE DEF U
<1>7. \A i \in DOMAIN w : /\ Counted(w[i]).key = w[i].key
                          /\ Counted(w[i]).uuid = w[i].uuid
                          /\ Counted(w[i]).counts = ComposeProjectCounts(compose, w[i].key)
  BY <1>4, <1>5
<1>8. t \in Seq(U) /\ DOMAIN t = DOMAIN w /\ \A i \in DOMAIN w : t[i] = g[i]
  <2>1. w \in Seq(T)
    BY <1>3
  <2>2. QED
    BY <2>1, <1>6, EachOfSeq
<1> HIDE DEF t
<1>9. \A i \in DOMAIN w : /\ t[i].key = w[i].key
                          /\ t[i].uuid = w[i].uuid
                          /\ t[i].counts = ComposeProjectCounts(compose, w[i].key)
  BY <1>6, <1>7, <1>8
<1>10. Unique(t)
  BY <1>3, <1>8, <1>9 DEF Unique
<1>11. \A m \in DOMAIN t : /\ t[m].key \in Keys(projects)
                           /\ Passes(t[m].key, SelectedValues(o, "projects"))
  BY <1>4, <1>8, <1>9 DEF Keys
<1>12. ASSUME NEW i \in DOMAIN projects, Passes(projects[i].key, SelectedValues(o, "projects"))
       PROVE  \E m \in DOMAIN t : t[m].key = projects[i].key /\ t[m].uuid = projects[i].uuid
  <2>1. PICK m \in DOMAIN w : w[m] = projects[i]
    BY <1>2, <1>3, <1>12 DEF Picks
  <2>2. QED
    BY <1>8, <1>9, <2>1
<1>13. QED
  BY <1>1, <1>8, <1>9, <1>10, <1>11, <1>12

-----------------------------------------------------------------------------
(* Datasets and volumes.                                                   *)

LEMMA NormalizedDatasets ==
  ASSUME NEW records \in Seq(DatasetRecords),
         \A i, j \in {k \in DOMAIN records : records[k].type \in {"Filesystem", "Volume"}} :
           records[i].path = records[j].path => i = j
  PROVE  /\ \E T : NormalizeZfsDatasets(records) \in Seq(T)
         /\ Unique(NormalizeZfsDatasets(records))
         /\ \A m \in DOMAIN NormalizeZfsDatasets(records) :
              /\ NormalizeZfsDatasets(records)[m].pool = Head(NormalizeZfsDatasets(records)[m].key)
              /\ Len(NormalizeZfsDatasets(records)[m].key) > 1
         /\ \A r \in ToSet(records) : r.type \in {"Filesystem", "Volume"} /\ Len(r.path) > 1 =>
              r.path \in Keys(NormalizeZfsDatasets(records))
<1> DEFINE in == {i \in DOMAIN records : /\ records[i].type \in {"Filesystem", "Volume"}
                                         /\ Len(records[i].path) > 1}
           w == At(records, in)
           g == [i \in DOMAIN w |-> [key |-> w[i].path, pool |-> Head(w[i].path)]]
           T == {g[i] : i \in DOMAIN w}
           sets == SubSeq(g, 1, Len(w))
<1>1. NormalizeZfsDatasets(records) = sets
  BY DEF NormalizeZfsDatasets, Each, Where
<1>2. /\ in \subseteq DOMAIN records
      /\ \A i, j \in in : records[i].path = records[j].path => i = j
      /\ \A i \in DOMAIN records :
           i \in in <=> records[i].type \in {"Filesystem", "Volume"} /\ Len(records[i].path) > 1
  OBVIOUS
<1> HIDE DEF in
<1>3. w \in Seq(DatasetRecords) /\ Apart(records, in, w) /\ Picks(records, in, w)
  BY <1>2, Picked, PickedApart
<1> HIDE DEF w
<1>4. \A i \in DOMAIN w : g[i].key = w[i].path /\ g[i].pool = Head(w[i].path) /\ g[i] \in T
  OBVIOUS
<1> HIDE DEF g
<1> HIDE DEF T
<1>5. sets \in Seq(T) /\ DOMAIN sets = DOMAIN w /\ \A i \in DOMAIN w : sets[i] = g[i]
  <2>1. w \in Seq(DatasetRecords)
    BY <1>3
  <2>2. QED
    BY <2>1, <1>4, EachOfSeq
<1> HIDE DEF sets
<1>6. Unique(sets)
  <2>1. SUFFICES ASSUME NEW m \in DOMAIN sets, NEW n \in DOMAIN sets, m # n
                 PROVE  sets[m].key # sets[n].key
    BY DEF Unique
  <2>2. PICK i \in in, j \in in : i # j /\ w[m] = records[i] /\ w[n] = records[j]
    BY <1>3, <1>5, <2>1 DEF Apart
  <2>3. sets[m].key = records[i].path /\ sets[n].key = records[j].path
    BY <1>4, <1>5, <2>2
  <2>4. QED
    BY <1>2, <2>2, <2>3
<1>7. \A m \in DOMAIN sets : sets[m].pool = Head(sets[m].key) /\ Len(sets[m].key) > 1
  <2>1. \A m \in DOMAIN w : Len(w[m].path) > 1
    BY <1>2, <1>3 DEF Picks
  <2>2. QED
    BY <1>4, <1>5, <2>1
<1>8. \A r \in ToSet(records) : r.type \in {"Filesystem", "Volume"} /\ Len(r.path) > 1 => r.path \in Keys(sets)
  <2>1. SUFFICES ASSUME NEW i \in DOMAIN records, records[i].type \in {"Filesystem", "Volume"},
                        Len(records[i].path) > 1
                 PROVE  records[i].path \in Keys(sets)
    BY DEF ToSet
  <2>2. PICK m \in DOMAIN w : w[m] = records[i]
    BY <1>2, <1>3, <2>1 DEF Picks
  <2>3. m \in DOMAIN sets /\ sets[m].key = records[i].path
    BY <1>4, <1>5, <2>2
  <2>4. QED
    BY <2>3 DEF Keys
<1>9. QED
  BY <1>1, <1>5, <1>6, <1>7, <1>8

\* The key of a volume begins with its container's.
IsVolume(v) == \E name : v = [key |-> <<v.container, name>>, container |-> v.container]

LEMMA ComposeVolumeIsVolume ==
  ASSUME NEW c, NEW name
  PROVE  IsVolume(ComposeVolume(c, name))
<1> DEFINE v == ComposeVolume(c, name)
<1>1. v = [key |-> <<c.key, name>>, container |-> c.key]
  BY DEF ComposeVolume
<1> HIDE DEF v
<1>2. v.container = c.key
  BY <1>1
<1>3. v = [key |-> <<v.container, name>>, container |-> v.container]
  BY <1>1, <1>2
<1>4. IsVolume(v)
  BY <1>3 DEF IsVolume
<1>5. QED
  BY <1>4 DEF v

MountPlaces(compose) == UNION {{<<i, j>> : j \in DOMAIN compose[i].mounts} : i \in DOMAIN compose}

LEMMA MountPlacesFinite ==
  ASSUME NEW T, NEW compose \in Seq(T), \A i \in DOMAIN compose : compose[i].mounts \in Seq(STRING)
  PROVE  IsFiniteSet(MountPlaces(compose))
<1> DEFINE Of(i) == {<<i, j>> : j \in DOMAIN compose[i].mounts}
           all == {Of(i) : i \in DOMAIN compose}
           f == [i \in DOMAIN compose |-> Of(i)]
<1>1. ASSUME NEW i \in DOMAIN compose
      PROVE  IsFiniteSet(Of(i))
  <2> DEFINE places == DOMAIN compose[i].mounts
             h == [j \in places |-> <<i, j>>]
  <2>1. compose[i].mounts \in Seq(STRING)
    OBVIOUS
  <2>2. IsFiniteSet(places)
    <3>1. Len(compose[i].mounts) \in Nat /\ places = 1 .. Len(compose[i].mounts)
      BY <2>1, LenProperties
    <3>2. QED
      BY <3>1, FS_Interval
  <2>3. h \in Surjection(places, Of(i))
    BY DEF Surjection
  <2>4. QED
    BY <2>2, <2>3, FS_Surjection
<1>2. IsFiniteSet(DOMAIN compose)
  BY LenProperties, FS_Interval
<1>3. f \in Surjection(DOMAIN compose, all)
  BY DEF Surjection
<1>4. IsFiniteSet(all)
  BY <1>2, <1>3, FS_Surjection
<1>5. \A S \in all : IsFiniteSet(S)
  BY <1>1
<1>6. IsFiniteSet(UNION all)
  BY <1>4, <1>5, FS_UNION
<1>7. QED
  BY <1>6 DEF MountPlaces

\* Sequences of volumes.
Volumes(s) == (\E T : s \in Seq(T)) /\ \A i \in DOMAIN s : IsVolume(s[i])

LEMMA MountVolumes ==
  ASSUME NEW T, NEW compose \in Seq(T), \A i \in DOMAIN compose : compose[i].mounts \in Seq(STRING)
  PROVE  Volumes(NormalizeComposeMountVolumes(compose))
<1> DEFINE S == MountPlaces(compose)
           c == SetToSeq(S)
           g == [i \in DOMAIN c |-> ComposeVolume(compose[c[i][1]], compose[c[i][1]].mounts[c[i][2]])]
           U == {g[i] : i \in DOMAIN c}
           s == SubSeq(g, 1, Len(c))
<1>1. NormalizeComposeMountVolumes(compose) = s
  BY DEF NormalizeComposeMountVolumes, MountPlaces, Each
<1>2. IsFiniteSet(S)
  BY MountPlacesFinite
<1> HIDE DEF S
<1>3. c \in Seq(S)
  BY <1>2, SetToSeqProperties
<1> HIDE DEF c
<1>4. \A i \in DOMAIN c : g[i] \in U /\ IsVolume(g[i])
  BY ComposeVolumeIsVolume
<1> HIDE DEF g
<1> HIDE DEF U
<1>5. s \in Seq(U) /\ DOMAIN s = DOMAIN c /\ \A i \in DOMAIN c : s[i] = g[i]
  BY <1>3, <1>4, EachOfSeq
<1> HIDE DEF s
<1>6. QED
  BY <1>1, <1>4, <1>5 DEF Volumes

LEMMA VolumesAt ==
  ASSUME NEW s, Volumes(s), NEW S, S \subseteq DOMAIN s
  PROVE  Volumes(At(s, S))
<1>1. PICK T : s \in Seq(T)
  BY DEF Volumes
<1> DEFINE w == At(s, S)
<1>2. w \in Seq(T) /\ Picks(s, S, w)
  BY <1>1, Picked
<1> HIDE DEF w
<1>3. Volumes(w)
  BY <1>2 DEF Volumes, Picks
<1>4. QED
  BY <1>3 DEF w

LEMMA VolumesConcat ==
  ASSUME NEW s, NEW t, Volumes(s), Volumes(t)
  PROVE  Volumes(s \o t)
<1>1. PICK T : s \in Seq(T)
  BY DEF Volumes
<1>2. PICK U : t \in Seq(U)
  BY DEF Volumes
<1>3. s \in Seq(T \cup U) /\ t \in Seq(T \cup U)
  BY <1>1, <1>2, SeqMonotonic
<1>4. /\ s \o t \in Seq(T \cup U) /\ Len(s \o t) = Len(s) + Len(t)
      /\ \A i \in 1 .. Len(s) + Len(t) :
           (s \o t)[i] = IF i <= Len(s) THEN s[i] ELSE t[i - Len(s)]
  BY <1>3, ConcatProperties
<1>5. /\ Len(s) \in Nat /\ DOMAIN s = 1 .. Len(s) /\ Len(t) \in Nat /\ DOMAIN t = 1 .. Len(t)
      /\ DOMAIN (s \o t) = 1 .. Len(s) + Len(t)
  BY <1>3, <1>4, LenProperties
<1>6. ASSUME NEW i \in DOMAIN (s \o t)
      PROVE  IsVolume((s \o t)[i])
  <2>1. CASE i <= Len(s)
    <3>1. i \in DOMAIN s /\ (s \o t)[i] = s[i]
      BY <1>4, <1>5, <2>1
    <3>2. QED
      BY <3>1 DEF Volumes
  <2>2. CASE ~(i <= Len(s))
    <3>1. i - Len(s) \in DOMAIN t /\ (s \o t)[i] = t[i - Len(s)]
      BY <1>4, <1>5, <2>2
    <3>2. QED
      BY <3>1 DEF Volumes
  <2>3. QED
    BY <2>1, <2>2
<1>7. QED
  BY <1>4, <1>6 DEF Volumes

LEMMA NormalizedVolumes ==
  ASSUME NEW native \in Seq(STRING), NEW T, NEW compose \in Seq(T),
         \A i \in DOMAIN compose : compose[i].mounts \in Seq(STRING)
  PROVE  Volumes(NormalizeComposeVolumes(native, compose))
<1> DEFINE mounts == NormalizeComposeMountVolumes(compose)
           By(name) == {i \in DOMAIN compose : name \in ToSet(compose[i].mounts)}
           mounted == {i \in DOMAIN native : By(native[i]) # {}}
           w == At(native, mounted)
           g == [i \in DOMAIN w |-> ComposeVolume(compose[Least(By(w[i]))], w[i])]
           U == {g[i] : i \in DOMAIN w}
           listed == SubSeq(g, 1, Len(w))
           new == {i \in DOMAIN mounts : mounts[i].key \notin Keys(listed)}
<1>1. NormalizeComposeVolumes(native, compose) = listed \o At(mounts, new)
  BY DEF NormalizeComposeVolumes, Each, Where
<1>2. mounted \subseteq DOMAIN native
  OBVIOUS
<1> HIDE DEF mounted
<1>3. w \in Seq(STRING)
  BY <1>2, Picked
<1> HIDE DEF w
<1>4. \A i \in DOMAIN w : g[i] \in U /\ IsVolume(g[i])
  BY ComposeVolumeIsVolume
<1> HIDE DEF g
<1> HIDE DEF U
<1>5. listed \in Seq(U) /\ DOMAIN listed = DOMAIN w /\ \A i \in DOMAIN w : listed[i] = g[i]
  BY <1>3, <1>4, EachOfSeq
<1>6. new \subseteq DOMAIN mounts
  OBVIOUS
<1> HIDE DEF new
<1> HIDE DEF listed
<1>7. Volumes(listed)
  BY <1>4, <1>5 DEF Volumes
<1>8. Volumes(mounts)
  BY MountVolumes
<1> HIDE DEF mounts
<1>9. Volumes(At(mounts, new))
  BY <1>6, <1>8, VolumesAt
<1>10. QED
  BY <1>1, <1>7, <1>9, VolumesConcat

-----------------------------------------------------------------------------
(* What the platforms get to see of one poll.                              *)

Merged(a, o) ==
  MergeComposeInspect(NormalizeCompose(a.containers),
    SelectedValues(o, "containers"), SelectedValues(o, "projects"))

ProjectsOf(a, o) == NormalizeComposeProjects(a.files, Merged(a, o))

Linked(a, o) == LinkComposeProjects(Merged(a, o), ProjectsOf(a, o))

LEMMA SourceCompose ==
  ASSUME NEW a, NEW o
  PROVE  /\ NormalizeInventory(a, o).projects = ProjectsOf(a, o)
         /\ NormalizeInventory(a, o).compose = Linked(a, o)
         /\ NormalizeInventory(a, o).volumes = NormalizeComposeVolumes(a.volumes, Linked(a, o))
         /\ NormalizeInventory(a, o).datasets =
              IF NormalizeZfsPools(a.pools) = <<>> THEN <<>> ELSE NormalizeZfsDatasets(a.datasets)
  BY DEF NormalizeInventory, Merged, ProjectsOf, Linked

LEMMA ComposeOfPoll ==
  ASSUME NEW a, IsAnswer(a), NEW o
  PROVE  /\ Merged(a, o) \in Seq(Containers) /\ AsListed(a, Merged(a, o))
         /\ \E T : Linked(a, o) \in Seq(T)
         /\ AsListed(a, Linked(a, o))
<1> DEFINE c == NormalizeCompose(a.containers)
<1>1. c \in Seq(Containers) /\ AsListed(a, c)
  BY NormalizedCompose DEF IsAnswer
<1> HIDE DEF c
<1>2. Merged(a, o) \in Seq(Containers) /\ AsListed(a, Merged(a, o))
  BY <1>1, MergedCompose DEF Merged, c
<1>3. (\E T : Linked(a, o) \in Seq(T)) /\ AsListed(a, Linked(a, o))
  BY <1>2, LinkedCompose DEF Linked
<1>4. QED
  BY <1>2, <1>3

\* Everything has a key of its own, except for pools and what only a first one
\* of a key makes entities of.
Shape(d) ==
  /\ Unique(d.disk) /\ Unique(PlainOnes(d)) /\ Unique(d.projects)
  /\ Unique(d.compose) /\ Unique(d.datasets)
  /\ \A i \in DOMAIN d.compose : d.compose[i].values \subseteq ContainerValues
  /\ \A i \in DOMAIN d.pools : d.pools[i].values \subseteq PoolValues
  /\ \A i \in DOMAIN d.volumes : IsVolume(d.volumes[i])
  /\ DOMAIN d.networks \subseteq Nat /\ DOMAIN d.raid \subseteq Nat /\ DOMAIN d.pools \subseteq Nat

LEMMA ShapeOfPoll ==
  ASSUME NEW a, IsAnswer(a), KeepsNamesApart(a), NEW o
  PROVE  Shape(FilterDataBySelection(NormalizeInventory(a, o), o))
<1> DEFINE s == NormalizeInventory(a, o)
           d == FilterDataBySelection(s, o)
           disks == NormalizeStorage(a)
<1>1. s = [f \in Parts |-> s[f]]
  BY InventoryParts
<1>2. /\ s.networks = NormalizeNetwork(a.networks)
      /\ s.raid = NormalizeRaids(disks)
      /\ s.pools = NormalizeZfsPools(a.pools)
      /\ s.fs = NormalizeFilesystems(a.fs, disks)
      /\ s.disk = ApplyStorageMetrics(disks, NormalizeFilesystems(a.fs, disks))
  BY SourceFields
<1>3. /\ s.projects = ProjectsOf(a, o)
      /\ s.compose = Linked(a, o)
      /\ s.volumes = NormalizeComposeVolumes(a.volumes, Linked(a, o))
      /\ s.datasets = IF NormalizeZfsPools(a.pools) = <<>> THEN <<>>
                      ELSE NormalizeZfsDatasets(a.datasets)
  BY SourceCompose
<1> HIDE DEF s
<1>4. IsFiltered(s, o, d)
  BY <1>1, Filtered
<1> HIDE DEF d
<1>5. disks \in Seq(Disks) /\ Unique(disks)
  BY NormalizedStorage
<1> HIDE DEF disks
<1>6. Unique(d.disk)
  <2>1. PICK T : s.disk \in Seq(T) /\ Unique(s.disk)
    BY <1>2, <1>5, MeasuredDisks
  <2>2. Unique(FilterDisks(s.disk, o))
    BY <2>1, FilteredDisks
  <2>3. QED
    BY <1>4, <2>2 DEF IsFiltered
<1>7. Unique(PlainOnes(d))
  <2> DEFINE shown == Shown(s.fs, "filesystems", o)
             plain == {i \in DOMAIN d.fs : Plain(d.fs[i])}
  <2>1. s.fs \in Seq(Filesystems) /\ Unique(s.fs)
    <3>1. /\ a.fs \in Seq(FilesystemRecords)
          /\ \A i, j \in DOMAIN a.fs : a.fs[i].uuid = a.fs[j].uuid => i = j
      BY DEF IsAnswer, KeepsNamesApart
    <3>2. QED
      BY <1>2, <1>5, <3>1, NormalizedFilesystems
  <2>2. shown \subseteq DOMAIN s.fs
    BY DEF Shown
  <2> HIDE DEF shown
  <2>3. At(s.fs, shown) \in Seq(Filesystems) /\ Unique(At(s.fs, shown))
    BY <2>1, <2>2, Picked, UniqueAt
  <2>4. d.fs = At(s.fs, shown)
    BY <1>4 DEF IsFiltered, shown
  <2>5. plain \subseteq DOMAIN d.fs
    OBVIOUS
  <2>6. PlainOnes(d) = At(d.fs, plain)
    BY DEF PlainOnes, Where
  <2> HIDE DEF plain
  <2>7. QED
    BY <2>3, <2>4, <2>5, <2>6, UniqueAt
<1>8. (\E T : s.compose \in Seq(T)) /\ AsListed(a, s.compose)
  BY <1>3, ComposeOfPoll
<1>9. Unique(s.compose)
  BY <1>8 DEF Unique, AsListed, KeepsNamesApart
<1>10. \A i \in DOMAIN s.compose : /\ s.compose[i].values \subseteq ContainerValues
                                   /\ s.compose[i].mounts \in Seq(STRING)
  <2>1. \A i \in DOMAIN a.containers : a.containers[i] \in ContainerRecords
    <3>1. a.containers \in Seq(ContainerRecords)
      BY DEF IsAnswer
    <3>2. QED
      BY <3>1, ElementOfSeq, LenProperties
  <2>2. \A i \in DOMAIN a.containers : /\ a.containers[i].values \subseteq ContainerValues
                                       /\ a.containers[i].mounts \in Seq(STRING)
    BY <2>1 DEF ContainerRecords
  <2>3. QED
    BY <1>8, <2>2 DEF AsListed
<1>11. Unique(d.compose) /\ \A i \in DOMAIN d.compose : d.compose[i].values \subseteq ContainerValues
  <2> DEFINE in == {i \in DOMAIN s.compose :
                      ComposeSelected(s.compose[i], SelectedValues(o, "containers"),
                                      SelectedValues(o, "projects"))}
  <2>1. d.compose = At(s.compose, in)
    BY <1>4 DEF IsFiltered, FilterCompose, Where
  <2>2. in \subseteq DOMAIN s.compose
    OBVIOUS
  <2> HIDE DEF in
  <2>3. PICK T : s.compose \in Seq(T)
    BY <1>8
  <2>4. Unique(d.compose) /\ Picks(s.compose, in, d.compose)
    BY <1>9, <2>1, <2>2, <2>3, Picked, UniqueAt
  <2>5. QED
    BY <1>10, <2>2, <2>4 DEF Picks
<1>12. Unique(d.projects)
  <2>1. IsFiniteSet(a.files)
    BY DEF IsAnswer
  <2>2. Merged(a, o) \in Seq(Containers)
    BY ComposeOfPoll
  <2>3. /\ \E U : s.projects \in Seq(U)
        /\ Unique(s.projects)
        /\ \A i \in DOMAIN s.projects : s.projects[i] = ProjectRecord(a.files, Merged(a, o), s.projects[i].key)
    BY <1>3, <2>1, <2>2, NormalizedProjects DEF ProjectsOf
  <2>4. PICK U : s.projects \in Seq(U)
    BY <2>3
  <2>5. \A i \in DOMAIN s.projects :
          s.projects[i] = [key |-> s.projects[i].key, uuid |-> s.projects[i].uuid,
                           counts |-> s.projects[i].counts]
    <3>1. SUFFICES ASSUME NEW i \in DOMAIN s.projects
                   PROVE  s.projects[i] = [key |-> s.projects[i].key, uuid |-> s.projects[i].uuid,
                                           counts |-> s.projects[i].counts]
      OBVIOUS
    <3>2. PICK p : s.projects[i] = ProjectRecord(a.files, Merged(a, o), p)
      BY <2>3
    <3>3. QED
      BY <3>2 DEF ProjectRecord
  <2>6. Unique(FilterProjects(s.projects, d.compose, o))
    BY <2>3, <2>4, <2>5, FilteredProjects
  <2>7. QED
    BY <1>4, <2>6 DEF IsFiltered
<1>13. Unique(d.datasets)
  <2>1. CASE NormalizeZfsPools(a.pools) = <<>>
    <3>1. s.datasets \in Seq({}) /\ Unique(s.datasets)
      BY <1>3, <2>1 DEF Unique
    <3>2. QED
      BY <1>4, <3>1, UniqueAt DEF IsFiltered, OfShownPools
  <2>2. CASE NormalizeZfsPools(a.pools) # <<>>
    <3>1. s.datasets = NormalizeZfsDatasets(a.datasets)
      BY <1>3, <2>2
    <3>2. (\E T : s.datasets \in Seq(T)) /\ Unique(s.datasets)
      <4>1. /\ a.datasets \in Seq(DatasetRecords)
            /\ \A i, j \in {k \in DOMAIN a.datasets : a.datasets[k].type \in {"Filesystem", "Volume"}} :
                 a.datasets[i].path = a.datasets[j].path => i = j
        BY DEF IsAnswer, KeepsNamesApart
      <4>2. QED
        BY <3>1, <4>1, NormalizedDatasets
    <3>3. OfShownPools(s.datasets, o) \subseteq DOMAIN s.datasets
      BY DEF OfShownPools
    <3>4. Unique(At(s.datasets, OfShownPools(s.datasets, o)))
      BY <3>2, <3>3, UniqueAt
    <3>5. QED
      BY <1>4, <3>4 DEF IsFiltered
  <2>3. QED
    BY <2>1, <2>2
<1>14. DOMAIN d.networks \subseteq Nat
  <2>1. s.networks \in Seq(Interfaces) /\ Shown(s.networks, "networks", o) \subseteq DOMAIN s.networks
    BY <1>2, NormalizedNetwork DEF IsAnswer, Shown
  <2>2. DOMAIN At(s.networks, Shown(s.networks, "networks", o)) \subseteq Nat
    BY <2>1, AtOfSeq
  <2>3. QED
    BY <1>4, <2>2 DEF IsFiltered
<1>15. DOMAIN d.raid \subseteq Nat
  <2>1. s.raid \in Seq(Raids) /\ Shown(s.raid, "raids", o) \subseteq DOMAIN s.raid
    BY <1>2, <1>5, NormalizedRaids DEF Shown
  <2>2. DOMAIN At(s.raid, Shown(s.raid, "raids", o)) \subseteq Nat
    BY <2>1, AtOfSeq
  <2>3. QED
    BY <1>4, <2>2 DEF IsFiltered
<1>16. DOMAIN d.pools \subseteq Nat /\ \A i \in DOMAIN d.pools : d.pools[i].values \subseteq PoolValues
  <2> DEFINE shown == Shown(s.pools, "pools", o)
  <2>1. s.pools \in Seq(PoolRecords) /\ shown \subseteq DOMAIN s.pools
    BY <1>2, NormalizedPools DEF IsAnswer, Shown
  <2> HIDE DEF shown
  <2>2. DOMAIN At(s.pools, shown) \subseteq Nat /\ At(s.pools, shown) \in Seq(PoolRecords)
    BY <2>1, AtOfSeq
  <2>3. d.pools = At(s.pools, shown)
    BY <1>4 DEF IsFiltered, shown
  <2>4. \A i \in DOMAIN d.pools : d.pools[i] \in PoolRecords
    BY <2>2, <2>3, ElementOfSeq, LenProperties
  <2>5. QED
    BY <2>2, <2>3, <2>4 DEF PoolRecords
<1>17. \A i \in DOMAIN d.volumes : IsVolume(d.volumes[i])
  <2>1. a.volumes \in Seq(STRING)
    BY DEF IsAnswer
  <2>2. PICK T : s.compose \in Seq(T)
    BY <1>8
  <2>3. Volumes(s.volumes)
    BY <1>3, <1>10, <2>1, <2>2, NormalizedVolumes
  <2>4. OfShownContainers(s.volumes, d.compose) \subseteq DOMAIN s.volumes
    BY DEF OfShownContainers
  <2>5. Volumes(d.volumes)
    BY <1>4, <2>3, <2>4, VolumesAt DEF IsFiltered
  <2>6. QED
    BY <2>5 DEF Volumes
<1>18. Shape(d)
  BY <1>6, <1>7, <1>11, <1>12, <1>13, <1>14, <1>15, <1>16, <1>17 DEF Shape
<1>19. QED
  BY <1>18 DEF d, s

-----------------------------------------------------------------------------
(* NoDuplicateEntities: the kinds of entities are apart, and an entity is   *)
(* determined by its kind and the key of its record.                        *)

DiskClass ==
  {"disk_temperature", "disk_used", "disk_total", "disk_smart_status", "disk_wear",
   "disk_bad_sectors"}
ProjectClass == {"compose_project", "compose_button"}
ContainerClass == ContainerKinds \cup ContainerValues
VolumeClass == {"container_volume_size"}
PoolClass == {"zfs_pool"} \cup PoolValues
ScrubClass == {"scrub_active", "scrub"}
MachineClass == {"vm_state", "vm_running", "vm_restart", "vm_switch"}
KeyClass == {"tempmon", "service", "rsync_enabled", "rsync_run", "cron_run", "wol"}

\* The class of an id.
Class(x) ==
  IF Len(x) = 1 THEN "hub"
  ELSE IF x[1] \in DiskClass THEN "disk"
  ELSE IF x[1] \in ProjectClass THEN "project"
  ELSE IF x[1] \in ContainerClass THEN "container"
  ELSE IF x[1] \in PoolClass THEN "pool"
  ELSE IF x[1] \in ScrubClass THEN "scrub"
  ELSE IF x[1] \in MachineClass THEN "vm"
  ELSE IF x[1] \in KeyClass THEN "key"
  ELSE x[1]

OfHubClass(e) == \E kind : e = HubEntity(kind)
OfDisk(d, e) ==
  \E i \in DOMAIN d.disk : \E kind \in DiskClass :
    From(d.disk, i, kind, DiskDevice(d.disk[i].key), e)
OfProject(d, e) ==
  \E i \in DOMAIN d.projects : \E kind \in ProjectClass :
    From(d.projects, i, kind, ProjectDevice(d.projects[i].key), e)
OfContainer(d, e) ==
  \E i \in DOMAIN d.compose : \E kind \in ContainerClass :
    From(d.compose, i, kind, ContainerDevice(d.compose[i].key), e)
OfVolume(d, e) ==
  \E i \in DOMAIN d.volumes :
    From(d.volumes, i, "container_volume_size", ContainerDevice(d.volumes[i].container), e)
OfPool(d, e) ==
  \E i \in DOMAIN d.pools : \E kind \in PoolClass :
    /\ From(d.pools, i, kind, PoolDevice(d.pools[i].key), e)
    /\ kind \in PoolSensors(d.pools[i]) /\ FirstWithValue(d.pools, i, kind)
OfScrub(d, e) ==
  \E i \in DOMAIN d.pools : \E kind \in ScrubClass :
    From(d.pools, i, kind, PoolDevice(d.pools[i].key), e) /\ FirstOfKey(d.pools, i)
OfMachine(e) == \E key : \E kind \in MachineClass : e = Entity(kind, key, VmDevice(key), 1)
OfKey(e) == \E key : \E kind \in KeyClass : e = Entity(kind, key, Hub, 1)
OfFilesystem(d, e) ==
  \E i \in DOMAIN PlainOnes(d) :
    From(PlainOnes(d), i, "filesystem", FilesystemDevice(d, PlainOnes(d)[i]), e)
OfNetwork(d, e) ==
  \E i \in DOMAIN d.networks :
    From(d.networks, i, "network", Hub, e) /\ FirstOfKey(d.networks, i)
OfRaid(d, e) ==
  \E i \in DOMAIN d.raid :
    From(d.raid, i, "raid", RaidDevice(d, d.raid[i]), e) /\ FirstOfKey(d.raid, i)
OfDataset(d, e) ==
  \E i \in DOMAIN d.datasets :
    From(d.datasets, i, "zfs_dataset", DatasetDevice(d.datasets[i].key), e)

Classified(d, e) ==
  \/ OfHubClass(e) \/ OfDisk(d, e) \/ OfProject(d, e) \/ OfContainer(d, e) \/ OfVolume(d, e)
  \/ OfPool(d, e) \/ OfScrub(d, e) \/ OfMachine(e) \/ OfKey(e) \/ OfFilesystem(d, e)
  \/ OfNetwork(d, e) \/ OfRaid(d, e) \/ OfDataset(d, e)

LEMMA StorageClassified ==
  ASSUME NEW d, Shape(d), NEW e, StorageEntity(d, e)
  PROVE  Classified(d, e)
<1>1. \A i \in DOMAIN d.pools : PoolSensors(d.pools[i]) \subseteq PoolClass
  BY DEF Shape, PoolSensors, PoolClass
<1>2. CASE \E i \in DOMAIN PlainOnes(d) : \E kind \in FilesystemSensors :
             From(PlainOnes(d), i, kind, FilesystemDevice(d, PlainOnes(d)[i]), e)
  BY <1>2 DEF Classified, OfFilesystem, FilesystemSensors
<1>3. CASE \E i \in DOMAIN d.networks : \E kind \in NetworkSensors :
             From(d.networks, i, kind, Hub, e) /\ FirstOfKey(d.networks, i)
  BY <1>3 DEF Classified, OfNetwork, NetworkSensors
<1>4. CASE \E i \in DOMAIN d.raid : \E kind \in RaidSensors :
             From(d.raid, i, kind, RaidDevice(d, d.raid[i]), e) /\ FirstOfKey(d.raid, i)
  BY <1>4 DEF Classified, OfRaid, RaidSensors
<1>5. CASE \E i \in DOMAIN d.pools : \E kind \in PoolSensors(d.pools[i]) :
             From(d.pools, i, kind, PoolDevice(d.pools[i].key), e) /\ FirstWithValue(d.pools, i, kind)
  BY <1>1, <1>5 DEF Classified, OfPool
<1>6. CASE \E key \in Measured(d) : \E kind \in TempmonSensors : e = Entity(kind, key, Hub, 1)
  BY <1>6 DEF Classified, OfKey, KeyClass, TempmonSensors
<1>7. CASE \E key \in d.vms : \E kind \in VmSensors : e = Entity(kind, key, VmDevice(key), 1)
  BY <1>7 DEF Classified, OfMachine, MachineClass, VmSensors
<1>8. CASE \E i \in DOMAIN d.datasets : \E kind \in DatasetSensors :
             From(d.datasets, i, kind, DatasetDevice(d.datasets[i].key), e)
  BY <1>8 DEF Classified, OfDataset, DatasetSensors
<1>9. QED
  BY <1>2, <1>3, <1>4, <1>5, <1>6, <1>7, <1>8 DEF StorageEntity

LEMMA SensorClassified ==
  ASSUME NEW d, Shape(d), NEW e, SensorEntity(d, e)
  PROVE  Classified(d, e)
<1>1. CASE \E kind : e = HubEntity(kind)
  BY <1>1 DEF Classified, OfHubClass
<1>2. CASE \E i \in DOMAIN d.projects : \E kind \in ProjectSensors :
             From(d.projects, i, kind, ProjectDevice(d.projects[i].key), e)
  BY <1>2 DEF Classified, OfProject, ProjectClass, ProjectSensors
<1>3. CASE \E i \in DOMAIN d.compose : \E kind \in ContainerSensors(d.compose[i]) :
             From(d.compose, i, kind, ContainerDevice(d.compose[i].key), e)
  <2>1. \A i \in DOMAIN d.compose : ContainerSensors(d.compose[i]) \subseteq ContainerClass
    BY DEF Shape, ContainerSensors, ContainerClass, ContainerKinds
  <2>2. QED
    BY <1>3, <2>1 DEF Classified, OfContainer
<1>4. CASE \E i \in DOMAIN d.volumes : \E kind \in VolumeSensors :
             From(d.volumes, i, kind, ContainerDevice(d.volumes[i].container), e)
  BY <1>4 DEF Classified, OfVolume, VolumeSensors
<1>5. CASE \E i \in DOMAIN d.disk : \E kind \in DiskKinds(d, d.disk[i]) :
             From(d.disk, i, kind, DiskDevice(d.disk[i].key), e)
  <2>1. \A x : DiskKinds(d, x) \subseteq DiskClass
    BY DEF DiskKinds, DiskClass, Temperature, DiskMetrics, UsedSensors, TotalSensors, Smart
  <2>2. QED
    BY <1>5, <2>1 DEF Classified, OfDisk
<1>6. CASE StorageEntity(d, e)
  BY <1>6, StorageClassified
<1>7. QED
  BY <1>1, <1>2, <1>3, <1>4, <1>5, <1>6 DEF SensorEntity

LEMMA BinaryClassified ==
  ASSUME NEW d, NEW e, BinaryEntity(d, e)
  PROVE  Classified(d, e)
<1>1. CASE \E kind : e = HubEntity(kind)
  BY <1>1 DEF Classified, OfHubClass
<1>2. CASE \E key \in d.services : e = Entity("service", key, Hub, 1)
  BY <1>2 DEF Classified, OfKey, KeyClass
<1>3. CASE \E i \in DOMAIN d.disk : \E kind \in Problems(d.disk[i]) :
             From(d.disk, i, kind, DiskDevice(d.disk[i].key), e)
  BY <1>3 DEF Classified, OfDisk, DiskClass, Problems
<1>4. CASE \E key \in d.vms : e = Entity("vm_running", key, VmDevice(key), 1)
  BY <1>4 DEF Classified, OfMachine, MachineClass
<1>5. CASE \E key \in d.rsync : e = Entity("rsync_enabled", key, Hub, 1)
  BY <1>5 DEF Classified, OfKey, KeyClass
<1>6. CASE \E i \in DOMAIN d.pools :
             From(d.pools, i, "scrub_active", PoolDevice(d.pools[i].key), e) /\ FirstOfKey(d.pools, i)
  BY <1>6 DEF Classified, OfScrub, ScrubClass
<1>7. QED
  BY <1>1, <1>2, <1>3, <1>4, <1>5, <1>6 DEF BinaryEntity

LEMMA ButtonClassified ==
  ASSUME NEW d, NEW cron, NEW e, ButtonEntity(d, cron, e)
  PROVE  Classified(d, e)
<1>1. CASE \E kind : e = HubEntity(kind)
  BY <1>1 DEF Classified, OfHubClass
<1>2. CASE \E i \in DOMAIN d.projects :
             From(d.projects, i, "compose_button", ProjectDevice(d.projects[i].key), e)
  BY <1>2 DEF Classified, OfProject, ProjectClass
<1>3. CASE \E i \in DOMAIN d.compose :
             From(d.compose, i, "container_restart", ContainerDevice(d.compose[i].key), e)
  BY <1>3 DEF Classified, OfContainer, ContainerClass, ContainerKinds
<1>4. CASE \E key : e = Entity("vm_restart", key, VmDevice(key), 1)
  BY <1>4 DEF Classified, OfMachine, MachineClass
<1>5. CASE \E key : \E kind \in {"rsync_run", "cron_run", "wol"} : e = Entity(kind, key, Hub, 1)
  BY <1>5 DEF Classified, OfKey, KeyClass
<1>6. CASE \E i \in DOMAIN d.pools :
             From(d.pools, i, "scrub", PoolDevice(d.pools[i].key), e) /\ FirstOfKey(d.pools, i)
  BY <1>6 DEF Classified, OfScrub, ScrubClass
<1>7. QED
  BY <1>1, <1>2, <1>3, <1>4, <1>5, <1>6 DEF ButtonEntity

LEMMA SwitchClassified ==
  ASSUME NEW d, NEW e, SwitchEntity(d, e)
  PROVE  Classified(d, e)
<1>1. CASE \E i \in DOMAIN d.compose :
             From(d.compose, i, "container_switch", ContainerDevice(d.compose[i].key), e)
  BY <1>1 DEF Classified, OfContainer, ContainerClass, ContainerKinds
<1>2. CASE \E key \in d.vms : e = Entity("vm_switch", key, VmDevice(key), 1)
  BY <1>2 DEF Classified, OfMachine, MachineClass
<1>3. QED
  BY <1>1, <1>2 DEF SwitchEntity

LEMMA CreatedClassified ==
  ASSUME NEW d, Shape(d), NEW cron, NEW e \in Created(d, cron)
  PROVE  Classified(d, e)
  BY CreatedMembers, SensorClassified, BinaryClassified, ButtonClassified, SwitchClassified
     DEF CreatedEntity

\* The class of an entity's id.
LEMMA Classes ==
  ASSUME NEW kind, NEW key
  PROVE  /\ Class(<<kind>>) = "hub"
         /\ kind \in DiskClass => Class(<<kind, key>>) = "disk"
         /\ kind \in ProjectClass => Class(<<kind, key>>) = "project"
         /\ kind \in ContainerClass => Class(<<kind, key>>) = "container"
         /\ kind \in PoolClass => Class(<<kind, key>>) = "pool"
         /\ kind \in ScrubClass => Class(<<kind, key>>) = "scrub"
         /\ kind \in MachineClass => Class(<<kind, key>>) = "vm"
         /\ kind \in KeyClass => Class(<<kind, key>>) = "key"
         /\ kind \in {"container_volume_size", "filesystem", "network", "raid", "zfs_dataset"}
              => Class(<<kind, key>>) = kind
<1>1. /\ Len(<<kind>>) = 1 /\ Len(<<kind, key>>) = 2 /\ <<kind, key>>[1] = kind
  OBVIOUS
<1>2. QED
  BY <1>1 DEF Class, DiskClass, ProjectClass, ContainerClass, ContainerKinds, ContainerValues,
              PoolClass, PoolValues, ScrubClass, MachineClass, KeyClass

LEMMA ClassOfId ==
  ASSUME NEW d, NEW e
  PROVE  /\ OfHubClass(e) => Class(e.id) = "hub"
         /\ OfDisk(d, e) => Class(e.id) = "disk"
         /\ OfProject(d, e) => Class(e.id) = "project"
         /\ OfContainer(d, e) => Class(e.id) = "container"
         /\ OfVolume(d, e) => Class(e.id) = "container_volume_size"
         /\ OfPool(d, e) => Class(e.id) = "pool"
         /\ OfScrub(d, e) => Class(e.id) = "scrub"
         /\ OfMachine(e) => Class(e.id) = "vm"
         /\ OfKey(e) => Class(e.id) = "key"
         /\ OfFilesystem(d, e) => Class(e.id) = "filesystem"
         /\ OfNetwork(d, e) => Class(e.id) = "network"
         /\ OfRaid(d, e) => Class(e.id) = "raid"
         /\ OfDataset(d, e) => Class(e.id) = "zfs_dataset"
<1>1. OfHubClass(e) => Class(e.id) = "hub"
  <2>1. OfHubClass(e) => \E kind : e.id = <<kind>>
    BY EntityFields DEF OfHubClass
  <2>2. QED
    BY <2>1, Classes
<1>2. ASSUME OfDisk(d, e) PROVE Class(e.id) = "disk"
  <2>1. PICK kind \in DiskClass : \E key : e.id = <<kind, key>>
    BY <1>2, EntityFields DEF From, OfDisk
  <2>2. PICK key : e.id = <<kind, key>>
    BY <2>1
  <2>3. Class(<<kind, key>>) = "disk"
    BY Classes
  <2>4. QED
    BY <2>2, <2>3
<1>3. ASSUME OfProject(d, e) PROVE Class(e.id) = "project"
  <2>1. PICK kind \in ProjectClass : \E key : e.id = <<kind, key>>
    BY <1>3, EntityFields DEF From, OfProject
  <2>2. PICK key : e.id = <<kind, key>>
    BY <2>1
  <2>3. Class(<<kind, key>>) = "project"
    BY Classes
  <2>4. QED
    BY <2>2, <2>3
<1>4. ASSUME OfContainer(d, e) PROVE Class(e.id) = "container"
  <2>1. PICK kind \in ContainerClass : \E key : e.id = <<kind, key>>
    BY <1>4, EntityFields DEF From, OfContainer
  <2>2. PICK key : e.id = <<kind, key>>
    BY <2>1
  <2>3. Class(<<kind, key>>) = "container"
    BY Classes
  <2>4. QED
    BY <2>2, <2>3
<1>5. ASSUME OfVolume(d, e) PROVE Class(e.id) = "container_volume_size"
  <2>1. PICK key : e.id = <<"container_volume_size", key>>
    BY <1>5, EntityFields DEF From, OfVolume
  <2>2. Class(<<"container_volume_size", key>>) = "container_volume_size"
    BY Classes
  <2>3. QED
    BY <2>1, <2>2
<1>6. ASSUME OfPool(d, e) PROVE Class(e.id) = "pool"
  <2>1. PICK kind \in PoolClass : \E key : e.id = <<kind, key>>
    BY <1>6, EntityFields DEF From, OfPool
  <2>2. PICK key : e.id = <<kind, key>>
    BY <2>1
  <2>3. Class(<<kind, key>>) = "pool"
    BY Classes
  <2>4. QED
    BY <2>2, <2>3
<1>7. ASSUME OfScrub(d, e) PROVE Class(e.id) = "scrub"
  <2>1. PICK kind \in ScrubClass : \E key : e.id = <<kind, key>>
    BY <1>7, EntityFields DEF From, OfScrub
  <2>2. PICK key : e.id = <<kind, key>>
    BY <2>1
  <2>3. Class(<<kind, key>>) = "scrub"
    BY Classes
  <2>4. QED
    BY <2>2, <2>3
<1>8. ASSUME OfMachine(e) PROVE Class(e.id) = "vm"
  <2>1. PICK kind \in MachineClass : \E key : e.id = <<kind, key>>
    BY <1>8, EntityFields DEF From, OfMachine
  <2>2. PICK key : e.id = <<kind, key>>
    BY <2>1
  <2>3. Class(<<kind, key>>) = "vm"
    BY Classes
  <2>4. QED
    BY <2>2, <2>3
<1>9. ASSUME OfKey(e) PROVE Class(e.id) = "key"
  <2>1. PICK kind \in KeyClass : \E key : e.id = <<kind, key>>
    BY <1>9, EntityFields DEF From, OfKey
  <2>2. PICK key : e.id = <<kind, key>>
    BY <2>1
  <2>3. Class(<<kind, key>>) = "key"
    BY Classes
  <2>4. QED
    BY <2>2, <2>3
<1>10. ASSUME OfFilesystem(d, e) PROVE Class(e.id) = "filesystem"
  <2>1. PICK key : e.id = <<"filesystem", key>>
    BY <1>10, EntityFields DEF From, OfFilesystem
  <2>2. Class(<<"filesystem", key>>) = "filesystem"
    BY Classes
  <2>3. QED
    BY <2>1, <2>2
<1>11. ASSUME OfNetwork(d, e) PROVE Class(e.id) = "network"
  <2>1. PICK key : e.id = <<"network", key>>
    BY <1>11, EntityFields DEF From, OfNetwork
  <2>2. Class(<<"network", key>>) = "network"
    BY Classes
  <2>3. QED
    BY <2>1, <2>2
<1>12. ASSUME OfRaid(d, e) PROVE Class(e.id) = "raid"
  <2>1. PICK key : e.id = <<"raid", key>>
    BY <1>12, EntityFields DEF From, OfRaid
  <2>2. Class(<<"raid", key>>) = "raid"
    BY Classes
  <2>3. QED
    BY <2>1, <2>2
<1>13. ASSUME OfDataset(d, e) PROVE Class(e.id) = "zfs_dataset"
  <2>1. PICK key : e.id = <<"zfs_dataset", key>>
    BY <1>13, EntityFields DEF From, OfDataset
  <2>2. Class(<<"zfs_dataset", key>>) = "zfs_dataset"
    BY Classes
  <2>3. QED
    BY <2>1, <2>2
<1>14. QED
  BY <1>1, <1>2, <1>3, <1>4, <1>5, <1>6, <1>7, <1>8, <1>9, <1>10, <1>11, <1>12, <1>13

\* Records with keys of their own make entities with ids of their own.
LEMMA RowsApart ==
  ASSUME NEW s, NEW i \in DOMAIN s, NEW j \in DOMAIN s, NEW k, NEW l, NEW v, NEW w, NEW e, NEW f,
         From(s, i, k, v, e), From(s, j, l, w, f), e.id = f.id,
         s[i].key = s[j].key => i = j, i = j => v = w
  PROVE  e = f
<1>1. e.id = <<k, s[i].key>> /\ f.id = <<l, s[j].key>>
  BY EntityFields DEF From
<1>2. <<k, s[i].key>> = <<l, s[j].key>>
  BY <1>1
<1>3. k = l /\ s[i].key = s[j].key
  BY <1>2
<1>4. QED
  BY <1>3 DEF From

\* An entity is determined by its id, unless it is of a volume; the entities of
\* a volume all have the same device.
LEMMA Determined ==
  ASSUME NEW d, Shape(d), NEW e, NEW f, Classified(d, e), Classified(d, f), e.id = f.id
  PROVE  \/ e = f
         \/ e.id[1] = "container_volume_size" /\ e.device = f.device
<1>1. CASE OfHubClass(e) /\ OfHubClass(f)
  <2>1. PICK k : e = HubEntity(k)
    BY <1>1 DEF OfHubClass
  <2>2. PICK l : f = HubEntity(l)
    BY <1>1 DEF OfHubClass
  <2>3. <<k>> = <<l>>
    BY <2>1, <2>2, EntityFields
  <2>4. QED
    BY <2>1, <2>2, <2>3
<1>2. CASE OfDisk(d, e) /\ OfDisk(d, f)
  <2>1. PICK i \in DOMAIN d.disk, k \in DiskClass :
          From(d.disk, i, k, DiskDevice(d.disk[i].key), e)
    BY <1>2 DEF OfDisk
  <2>2. PICK j \in DOMAIN d.disk, l \in DiskClass :
          From(d.disk, j, l, DiskDevice(d.disk[j].key), f)
    BY <1>2 DEF OfDisk
  <2>3. d.disk[i].key = d.disk[j].key => i = j
    BY DEF Shape, Unique
  <2>4. QED
    BY <2>1, <2>2, <2>3, RowsApart
<1>3. CASE OfProject(d, e) /\ OfProject(d, f)
  <2>1. PICK i \in DOMAIN d.projects, k \in ProjectClass :
          From(d.projects, i, k, ProjectDevice(d.projects[i].key), e)
    BY <1>3 DEF OfProject
  <2>2. PICK j \in DOMAIN d.projects, l \in ProjectClass :
          From(d.projects, j, l, ProjectDevice(d.projects[j].key), f)
    BY <1>3 DEF OfProject
  <2>3. d.projects[i].key = d.projects[j].key => i = j
    BY DEF Shape, Unique
  <2>4. QED
    BY <2>1, <2>2, <2>3, RowsApart
<1>4. CASE OfContainer(d, e) /\ OfContainer(d, f)
  <2>1. PICK i \in DOMAIN d.compose, k \in ContainerClass :
          From(d.compose, i, k, ContainerDevice(d.compose[i].key), e)
    BY <1>4 DEF OfContainer
  <2>2. PICK j \in DOMAIN d.compose, l \in ContainerClass :
          From(d.compose, j, l, ContainerDevice(d.compose[j].key), f)
    BY <1>4 DEF OfContainer
  <2>3. d.compose[i].key = d.compose[j].key => i = j
    BY DEF Shape, Unique
  <2>4. QED
    BY <2>1, <2>2, <2>3, RowsApart
<1>5. CASE OfFilesystem(d, e) /\ OfFilesystem(d, f)
  <2>1. PICK i \in DOMAIN PlainOnes(d) :
          From(PlainOnes(d), i, "filesystem", FilesystemDevice(d, PlainOnes(d)[i]), e)
    BY <1>5 DEF OfFilesystem
  <2>2. PICK j \in DOMAIN PlainOnes(d) :
          From(PlainOnes(d), j, "filesystem", FilesystemDevice(d, PlainOnes(d)[j]), f)
    BY <1>5 DEF OfFilesystem
  <2>3. PlainOnes(d)[i].key = PlainOnes(d)[j].key => i = j
    BY DEF Shape, Unique
  <2>4. QED
    BY <2>1, <2>2, <2>3, RowsApart
<1>6. CASE OfDataset(d, e) /\ OfDataset(d, f)
  <2>1. PICK i \in DOMAIN d.datasets :
          From(d.datasets, i, "zfs_dataset", DatasetDevice(d.datasets[i].key), e)
    BY <1>6 DEF OfDataset
  <2>2. PICK j \in DOMAIN d.datasets :
          From(d.datasets, j, "zfs_dataset", DatasetDevice(d.datasets[j].key), f)
    BY <1>6 DEF OfDataset
  <2>3. d.datasets[i].key = d.datasets[j].key => i = j
    BY DEF Shape, Unique
  <2>4. QED
    BY <2>1, <2>2, <2>3, RowsApart
<1>7. CASE OfNetwork(d, e) /\ OfNetwork(d, f)
  <2>1. PICK i \in DOMAIN d.networks :
          From(d.networks, i, "network", Hub, e) /\ FirstOfKey(d.networks, i)
    BY <1>7 DEF OfNetwork
  <2>2. PICK j \in DOMAIN d.networks :
          From(d.networks, j, "network", Hub, f) /\ FirstOfKey(d.networks, j)
    BY <1>7 DEF OfNetwork
  <2>3. i \in Nat /\ j \in Nat
    BY DEF Shape
  <2>4. d.networks[i].key = d.networks[j].key => i = j
    BY <2>1, <2>2, <2>3 DEF FirstOfKey
  <2>5. QED
    BY <2>1, <2>2, <2>4, RowsApart
<1>8. CASE OfRaid(d, e) /\ OfRaid(d, f)
  <2>1. PICK i \in DOMAIN d.raid :
          From(d.raid, i, "raid", RaidDevice(d, d.raid[i]), e) /\ FirstOfKey(d.raid, i)
    BY <1>8 DEF OfRaid
  <2>2. PICK j \in DOMAIN d.raid :
          From(d.raid, j, "raid", RaidDevice(d, d.raid[j]), f) /\ FirstOfKey(d.raid, j)
    BY <1>8 DEF OfRaid
  <2>3. i \in Nat /\ j \in Nat
    BY DEF Shape
  <2>4. d.raid[i].key = d.raid[j].key => i = j
    BY <2>1, <2>2, <2>3 DEF FirstOfKey
  <2>5. QED
    BY <2>1, <2>2, <2>4, RowsApart
<1>9. CASE OfScrub(d, e) /\ OfScrub(d, f)
  <2>1. PICK i \in DOMAIN d.pools, k \in ScrubClass :
          From(d.pools, i, k, PoolDevice(d.pools[i].key), e) /\ FirstOfKey(d.pools, i)
    BY <1>9 DEF OfScrub
  <2>2. PICK j \in DOMAIN d.pools, l \in ScrubClass :
          From(d.pools, j, l, PoolDevice(d.pools[j].key), f) /\ FirstOfKey(d.pools, j)
    BY <1>9 DEF OfScrub
  <2>3. i \in Nat /\ j \in Nat
    BY DEF Shape
  <2>4. d.pools[i].key = d.pools[j].key => i = j
    BY <2>1, <2>2, <2>3 DEF FirstOfKey
  <2>5. QED
    BY <2>1, <2>2, <2>4, RowsApart
<1>10. CASE OfPool(d, e) /\ OfPool(d, f)
  <2>1. PICK i \in DOMAIN d.pools, k \in PoolClass :
          /\ From(d.pools, i, k, PoolDevice(d.pools[i].key), e)
          /\ k \in PoolSensors(d.pools[i]) /\ FirstWithValue(d.pools, i, k)
    BY <1>10 DEF OfPool
  <2>2. PICK j \in DOMAIN d.pools, l \in PoolClass :
          /\ From(d.pools, j, l, PoolDevice(d.pools[j].key), f)
          /\ l \in PoolSensors(d.pools[j]) /\ FirstWithValue(d.pools, j, l)
    BY <1>10 DEF OfPool
  <2>3. i \in Nat /\ j \in Nat
    BY DEF Shape
  <2>4. <<k, d.pools[i].key>> = <<l, d.pools[j].key>>
    BY <2>1, <2>2, EntityFields DEF From
  <2>5. d.pools[i].key = d.pools[j].key => i = j
    BY <2>1, <2>2, <2>3, <2>4 DEF FirstWithValue
  <2>6. QED
    BY <2>1, <2>2, <2>5, RowsApart
<1>11. CASE OfMachine(e) /\ OfMachine(f)
  <2>1. PICK x : \E k \in MachineClass : e = Entity(k, x, VmDevice(x), 1)
    BY <1>11 DEF OfMachine
  <2>2. PICK k : e = Entity(k, x, VmDevice(x), 1)
    BY <2>1
  <2>3. PICK y : \E l \in MachineClass : f = Entity(l, y, VmDevice(y), 1)
    BY <1>11 DEF OfMachine
  <2>4. PICK l : f = Entity(l, y, VmDevice(y), 1)
    BY <2>3
  <2>5. <<k, x>> = <<l, y>>
    BY <2>2, <2>4, EntityFields
  <2>6. QED
    BY <2>2, <2>4, <2>5
<1>12. CASE OfKey(e) /\ OfKey(f)
  <2>1. PICK x : \E k \in KeyClass : e = Entity(k, x, Hub, 1)
    BY <1>12 DEF OfKey
  <2>2. PICK k : e = Entity(k, x, Hub, 1)
    BY <2>1
  <2>3. PICK y : \E l \in KeyClass : f = Entity(l, y, Hub, 1)
    BY <1>12 DEF OfKey
  <2>4. PICK l : f = Entity(l, y, Hub, 1)
    BY <2>3
  <2>5. <<k, x>> = <<l, y>>
    BY <2>2, <2>4, EntityFields
  <2>6. QED
    BY <2>2, <2>4, <2>5
<1>13. CASE OfVolume(d, e) /\ OfVolume(d, f)
  <2>1. PICK i \in DOMAIN d.volumes :
          From(d.volumes, i, "container_volume_size", ContainerDevice(d.volumes[i].container), e)
    BY <1>13 DEF OfVolume
  <2>2. PICK j \in DOMAIN d.volumes :
          From(d.volumes, j, "container_volume_size", ContainerDevice(d.volumes[j].container), f)
    BY <1>13 DEF OfVolume
  <2>3. IsVolume(d.volumes[i]) /\ IsVolume(d.volumes[j])
    BY DEF Shape
  <2>4. PICK x : d.volumes[i] = [key |-> <<d.volumes[i].container, x>>, container |-> d.volumes[i].container]
    BY <2>3 DEF IsVolume
  <2>5. PICK y : d.volumes[j] = [key |-> <<d.volumes[j].container, y>>, container |-> d.volumes[j].container]
    BY <2>3 DEF IsVolume
  <2>6. /\ e.id = <<"container_volume_size", d.volumes[i].key>>
        /\ f.id = <<"container_volume_size", d.volumes[j].key>>
        /\ e.device = ContainerDevice(d.volumes[i].container)
        /\ f.device = ContainerDevice(d.volumes[j].container)
    BY <2>1, <2>2, EntityFields DEF From
  <2>7. d.volumes[i].key = d.volumes[j].key
    <3>1. <<"container_volume_size", d.volumes[i].key>> = <<"container_volume_size", d.volumes[j].key>>
      BY <2>6
    <3>2. QED
      BY <3>1
  <2>8. d.volumes[i].container = d.volumes[j].container
    BY <2>4, <2>5, <2>7
  <2>9. e.id[1] = "container_volume_size"
    BY <2>6
  <2>10. QED
    BY <2>6, <2>8, <2>9
<1>14. QED
  BY <1>1, <1>2, <1>3, <1>4, <1>5, <1>6, <1>7, <1>8, <1>9, <1>10, <1>11, <1>12, <1>13,
     ClassOfId DEF Classified

\* No two entities have the same id.
LEMMA ServedOnce == ServedInv => NoDuplicateEntities
<1>1. SUFFICES ASSUME ServedInv, Loaded,
                      NEW e \in Created(data, CronSelection), NEW f \in Created(data, CronSelection),
                      e.id = f.id
               PROVE  e = f \/ e.id[1] = "container_volume_size"
  BY DEF NoDuplicateEntities
<1>2. IsAnswer(polled) /\ KeepsNamesApart(polled)
  BY <1>1, AppliancesAssumption DEF ServedInv
<1>3. data = FilterDataBySelection(NormalizeInventory(polled, options), options)
  BY <1>1 DEF ServedInv, Served
<1>4. Shape(data)
  BY <1>2, <1>3, ShapeOfPoll
<1>5. Classified(data, e) /\ Classified(data, f)
  BY <1>4, CreatedClassified
<1>6. QED
  BY <1>1, <1>4, <1>5, Determined

THEOREM EntitiesAreUnique == Spec => []NoDuplicateEntities
  BY ServedAlways, ServedOnce, PTL

-----------------------------------------------------------------------------
(* The registry.                                                           *)

OneOfEachId(entries) == \A e, f \in entries : e.id = f.id => e = f

LEMMA LegacyUnique ==
  ASSUME NEW a
  PROVE  OneOfEachId(LegacyEntries(a))
<1> DEFINE Old(e, name) ==
             /\ e = [id |-> e.id, device |-> ContainerDevice(name), custom |-> TRUE]
             /\ \/ \E kind \in ContainerKinds : e.id = <<kind, name>>
                \/ \E v : e.id = <<"container_volume_size", <<name, v>>>>
<1>1. ASSUME NEW e \in LegacyEntries(a)
      PROVE  \E name : Old(e, name)
  <2> DEFINE LegacyIds(c) ==
               {<<kind, DockerId(c.name)>> : kind \in ContainerKinds}
                 \cup {<<"container_volume_size", <<DockerId(c.name), v>>>> : v \in ToSet(c.mounts)}
  <2>1. PICK c \in ToSet(a.containers) : \E id \in LegacyIds(c) :
          e = [id |-> id, device |-> ContainerDevice(DockerId(c.name)), custom |-> TRUE]
    BY <1>1 DEF LegacyEntries
  <2>2. PICK id \in LegacyIds(c) :
          e = [id |-> id, device |-> ContainerDevice(DockerId(c.name)), custom |-> TRUE]
    BY <2>1
  <2>3. e.id = id
    BY <2>2
  <2>4. \/ \E kind \in ContainerKinds : id = <<kind, DockerId(c.name)>>
        \/ \E v : id = <<"container_volume_size", <<DockerId(c.name), v>>>>
    OBVIOUS
  <2>5. Old(e, DockerId(c.name))
    BY <2>2, <2>3, <2>4
  <2>6. QED
    BY <2>5
<1>2. ASSUME NEW e, NEW f, NEW m, NEW n, Old(e, m), Old(f, n), e.id = f.id
      PROVE  m = n
  <2>1. CASE (\E kind \in ContainerKinds : e.id = <<kind, m>>) /\ \E kind \in ContainerKinds : f.id = <<kind, n>>
    <3>1. PICK k : e.id = <<k, m>>
      BY <2>1
    <3>2. PICK l : f.id = <<l, n>>
      BY <2>1
    <3>3. <<k, m>> = <<l, n>>
      BY <1>2, <3>1, <3>2
    <3>4. QED
      BY <3>3
  <2>2. CASE (\E v : e.id = <<"container_volume_size", <<m, v>>>>) /\ \E v : f.id = <<"container_volume_size", <<n, v>>>>
    <3>1. PICK v : e.id = <<"container_volume_size", <<m, v>>>>
      BY <2>2
    <3>2. PICK w : f.id = <<"container_volume_size", <<n, w>>>>
      BY <2>2
    <3>3. <<"container_volume_size", <<m, v>>>> = <<"container_volume_size", <<n, w>>>>
      BY <1>2, <3>1, <3>2
    <3>4. <<m, v>> = <<n, w>>
      BY <3>3
    <3>5. QED
      BY <3>4
  <2>3. \A k, x, y : k \in ContainerKinds => <<k, x>> # <<"container_volume_size", y>>
    BY DEF ContainerKinds
  <2>4. QED
    BY <1>2, <2>1, <2>2, <2>3
<1>3. SUFFICES ASSUME NEW e \in LegacyEntries(a), NEW f \in LegacyEntries(a), e.id = f.id
               PROVE  e = f
  BY DEF OneOfEachId
<1>4. PICK m : Old(e, m)
  BY <1>1
<1>5. PICK n : Old(f, n)
  BY <1>1
<1>6. m = n
  BY <1>2, <1>3, <1>4, <1>5
<1>7. QED
  BY <1>3, <1>4, <1>5, <1>6

\* After a setup, the entries are those of the entities that are created.
LEMMA AddedUnique ==
  ASSUME NEW entries, NEW created, \A e \in entries : \E c \in created : c.id = e.id,
         \A b, c \in created : b.id = c.id => b.device = c.device
  PROVE  OneOfEachId(Added(entries, created))
<1> DEFINE ids == {c.id : c \in created}
           custom == {e.id : e \in {f \in entries : f.custom}}
           New(c) == [id |-> c.id, device |-> c.device, custom |-> c.id \in custom]
<1>1. Added(entries, created) = {e \in entries : e.id \notin ids} \cup {New(c) : c \in created}
  BY DEF Added
<1>2. \A e \in entries : e.id \in ids
  OBVIOUS
<1>3. \A e \in Added(entries, created) : \E c \in created : e = New(c)
  BY <1>1, <1>2
<1> HIDE DEF custom
<1>4. \A b, c \in created : New(b).id = New(c).id => New(b) = New(c)
  <2>1. SUFFICES ASSUME NEW b \in created, NEW c \in created, New(b).id = New(c).id
                 PROVE  New(b) = New(c)
    OBVIOUS
  <2>2. b.id = c.id
    BY <2>1
  <2>3. QED
    BY <2>2
<1> HIDE DEF New
<1>5. QED
  BY <1>3, <1>4 DEF OneOfEachId

LEMMA RegisteredUnique ==
  ASSUME NEW d, Shape(d), NEW cron
  PROVE  OneOfEachId(RegisteredBySetup(d, cron))
<1> DEFINE kept == CleanedUp(Migrated(registered, d), d, cron)
<1>1. \A e \in kept : e.id \in Expected(d, cron)
  BY DEF CleanedUp
<1> HIDE DEF kept
<1>2. \A e \in kept : \E c \in Created(d, cron) : c.id = e.id
  BY <1>1, ExpectedCreated DEF Shape
<1>3. \A b, c \in Created(d, cron) : b.id = c.id => b.device = c.device
  BY CreatedClassified, Determined
<1>4. OneOfEachId(Added(kept, Created(d, cron)))
  BY <1>2, <1>3, AddedUnique
<1>5. QED
  BY <1>4 DEF RegisteredBySetup, kept

-----------------------------------------------------------------------------
(* TypeOK.                                                                 *)

TypeInv ==
  /\ ServedInv
  /\ DOMAIN options \subseteq Fields
  /\ entry \in {"loading", "loaded"}
  /\ OneOfEachId(registered)
  /\ changes \in 0 .. MaxChanges /\ saves \in 0 .. MaxSaves

LEMMA InitType == Init => TypeInv
<1> SUFFICES ASSUME Init PROVE TypeInv
  OBVIOUS
<1>1. ServedInv
  BY InitServed
<1>2. DOMAIN options \subseteq Fields
  BY StoredAssumption DEF Init
<1>3. OneOfEachId(registered)
  <2>1. registered = {} \/ registered = LegacyEntries(answers)
    BY DEF Init
  <2>2. OneOfEachId({})
    BY DEF OneOfEachId
  <2>3. QED
    BY <2>1, <2>2, LegacyUnique
<1>4. QED
  BY <1>1, <1>2, <1>3, InventoryBounds DEF Init, TypeInv

LEMMA NextType == TypeInv /\ [Next]_vars => TypeInv'
<1> SUFFICES ASSUME TypeInv, [Next]_vars PROVE TypeInv'
  OBVIOUS
<1> USE InventoryBounds
<1>1. ServedInv'
  BY NextServed DEF TypeInv
<1>2. CASE ApplianceChanges
  BY <1>1, <1>2 DEF ApplianceChanges, TypeInv
<1>3. CASE Setup
  <2>1. Loaded'
    BY <1>3 DEF Setup, Loaded
  <2>2. Shape(data')
    BY <1>1, <2>1, AppliancesAssumption, ShapeOfPoll DEF ServedInv, Served
  <2>3. registered' = RegisteredBySetup(data', CronSelection)
    BY <1>3 DEF Setup
  <2>4. OneOfEachId(registered')
    BY <2>2, <2>3, RegisteredUnique
  <2>5. QED
    BY <1>1, <1>3, <2>4 DEF Setup, TypeInv
<1>4. CASE Poll
  <2>1. registered' \subseteq registered
    BY <1>4 DEF Poll, CleanedUp
  <2>2. OneOfEachId(registered')
    BY <2>1 DEF TypeInv, OneOfEachId
  <2>3. QED
    BY <1>1, <1>4, <2>2 DEF Poll, TypeInv
<1>5. CASE SaveForm
  <2> DEFINE shown == UntouchedForm(LiveInventory, options)
             offered == OfferedValues(LiveInventory, options)
  <2>1. DOMAIN shown = Fields
    BY DEF UntouchedForm
  <2>2. \/ options' = shown
        \/ \E f \in Fields : \E v \in offered[f] :
             options' = [shown EXCEPT ![f] = (@ \cup {v}) \ (@ \cap {v})]
    BY <1>5 DEF SaveForm
  <2> HIDE DEF shown
  <2> HIDE DEF offered
  <2>3. DOMAIN options' \subseteq Fields
    BY <2>1, <2>2
  <2>4. /\ entry' = IF options' = options THEN entry ELSE "loading"
        /\ saves < MaxSaves /\ saves' = saves + 1 /\ UNCHANGED <<registered, changes>>
    BY <1>5 DEF SaveForm
  <2>5. QED
    BY <1>1, <2>3, <2>4 DEF TypeInv
<1>6. CASE UNCHANGED vars
  BY <1>1, <1>6 DEF vars, TypeInv
<1>7. QED
  BY <1>2, <1>3, <1>4, <1>5, <1>6 DEF Next

LEMMA TypedServed == TypeInv => TypeOK
<1> SUFFICES ASSUME TypeInv PROVE TypeOK
  OBVIOUS
<1>1. Loaded => /\ \A r \in ToSet(source.raid) : r.key \in MdDevices /\ r.members \subseteq Devices
                /\ \A f \in ToSet(source.fs) : f.disk \in Devices \cup {None}
  <2>1. SUFFICES ASSUME Loaded
                 PROVE  /\ \A r \in ToSet(source.raid) : r.key \in MdDevices /\ r.members \subseteq Devices
                        /\ \A f \in ToSet(source.fs) : f.disk \in Devices \cup {None}
    OBVIOUS
  <2> DEFINE disks == NormalizeStorage(polled)
  <2>2. IsAnswer(polled) /\ KeepsNamesApart(polled)
    BY AppliancesAssumption DEF TypeInv, ServedInv
  <2>3. disks \in Seq(Disks)
    BY <2>2, NormalizedStorage
  <2>4. source.raid = NormalizeRaids(disks) /\ source.fs = NormalizeFilesystems(polled.fs, disks)
    BY <2>1, SourceFields DEF TypeInv, ServedInv, Served
  <2> HIDE DEF disks
  <2>5. source.raid \in Seq(Raids)
    BY <2>3, <2>4, NormalizedRaids
  <2>6. source.fs \in Seq(Filesystems)
    <3>1. /\ polled.fs \in Seq(FilesystemRecords)
          /\ \A i, j \in DOMAIN polled.fs : polled.fs[i].uuid = polled.fs[j].uuid => i = j
      BY <2>2 DEF IsAnswer, KeepsNamesApart
    <3>2. QED
      BY <2>3, <2>4, <3>1, NormalizedFilesystems
  <2>7. ToSet(source.raid) \subseteq Raids /\ ToSet(source.fs) \subseteq Filesystems
    BY <2>5, <2>6, SeqMembers
  <2>8. QED
    BY <2>7 DEF Raids, Filesystems
<1>2. QED
  BY <1>1 DEF TypeInv, ServedInv, OneOfEachId, TypeOK

THEOREM TypeCorrect == Spec => []TypeOK
  BY InitType, NextType, TypedServed, PTL DEF Spec

-----------------------------------------------------------------------------
(* CountsAddUp.                                                            *)

\* Nothing but its name could tell the container's project, and it does not.
Misleads(c, keys) ==
  /\ c.label = NoProject /\ c.inspect = NoProject
  /\ {p \in keys : IsPrefix(p, c.name)} # {c.owner} \cap keys

LEMMA MatchedProject ==
  ASSUME NEW name, NEW projects, NEW owner \in Names,
         {p \in Keys(projects) : IsPrefix(p, name)} = {owner} \cap Keys(projects)
  PROVE  MatchComposeProject(name, projects) = IF owner \in Keys(projects) THEN owner ELSE NoProject
<1> DEFINE begin == {p \in Keys(projects) : IsPrefix(p, name)}
<1>1. MatchComposeProject(name, projects) =
        IF begin = {} THEN NoProject ELSE CHOOSE p \in begin : \A q \in begin : IsPrefix(p, q)
  BY DEF MatchComposeProject
<1>2. IsPrefix(owner, owner)
  <2>1. Len(owner) \in Nat
    BY LenProperties DEF Names
  <2>2. QED
    BY <2>1 DEF IsPrefix
<1>3. begin = IF owner \in Keys(projects) THEN {owner} ELSE {}
  OBVIOUS
<1> HIDE DEF begin
<1>4. CASE owner \in Keys(projects)
  <2>1. begin = {owner}
    BY <1>3, <1>4
  <2>2. \E p \in begin : \A q \in begin : IsPrefix(p, q)
    BY <1>2, <2>1
  <2>3. (CHOOSE p \in begin : \A q \in begin : IsPrefix(p, q)) \in begin
    BY <2>2
  <2>4. QED
    BY <1>1, <1>4, <2>1, <2>3
<1>5. CASE owner \notin Keys(projects)
  BY <1>1, <1>3, <1>5
<1>6. QED
  BY <1>4, <1>5

\* A container that is shown counts for the project that runs it.
LEMMA OwnerCounts ==
  ASSUME NEW a, IsAnswer(a), TellsOwners(a), NEW o, NEW i \in DOMAIN a.containers,
         ComposeSelected(Linked(a, o)[i], SelectedValues(o, "containers"), SelectedValues(o, "projects")),
         ~ Misleads(a.containers[i], Keys(ProjectsOf(a, o))),
         NEW p \in Keys(ProjectsOf(a, o))
  PROVE  Linked(a, o)[i].project = p <=> a.containers[i].owner = p
<1> DEFINE c == a.containers[i]
           normal == NormalizeCompose(a.containers)
           merged == Merged(a, o)
           linked == Linked(a, o)
           keys == Keys(ProjectsOf(a, o))
           containers == SelectedValues(o, "containers")
           projects == SelectedValues(o, "projects")
<1>1. a.containers \in Seq(ContainerRecords) /\ IsFiniteSet(a.files)
  BY DEF IsAnswer
<1>2. c \in ContainerRecords
  BY <1>1, ElementOfSeq, LenProperties
<1>3. c.owner \in Names /\ c.label \in {c.owner, NoProject} /\ c.inspect \in {c.owner, NoProject}
  <2>1. c \in ToSet(a.containers)
    BY DEF ToSet
  <2>2. QED
    BY <1>2, <2>1 DEF ContainerRecords, TellsOwners
<1>4. /\ normal \in Seq(Containers) /\ AsListed(a, normal)
      /\ \A j \in DOMAIN normal : /\ normal[j].project = a.containers[j].label
                                  /\ normal[j].inspect = a.containers[j].inspect
  BY <1>1, NormalizedCompose
<1>5. /\ merged \in Seq(Containers) /\ AsListed(a, merged)
      /\ \A j \in DOMAIN merged :
           merged[j].project = IF /\ ComposeSelected(normal[j], containers, projects)
                                  /\ normal[j].project = NoProject
                               THEN normal[j].inspect ELSE normal[j].project
  BY <1>4, MergedCompose DEF Merged
<1>6. /\ AsListed(a, linked)
      /\ \A j \in DOMAIN linked :
           linked[j].project = IF merged[j].project \in keys THEN merged[j].project
                               ELSE MatchComposeProject(merged[j].key, ProjectsOf(a, o))
  BY <1>5, LinkedCompose DEF Linked
<1>7. keys = a.files \cup NamedProjects(merged)
  BY <1>1, <1>5, NormalizedProjects DEF ProjectsOf
<1>8. NoProject \notin keys
  BY <1>7 DEF NamedProjects, TellsOwners
<1>9. i \in DOMAIN normal /\ i \in DOMAIN merged /\ i \in DOMAIN linked
  BY <1>4, <1>5, <1>6 DEF AsListed
<1> HIDE DEF normal
<1> HIDE DEF merged
<1> HIDE DEF linked
<1> HIDE DEF keys
<1>10. normal[i].project = c.label /\ normal[i].inspect = c.inspect /\ normal[i].key = c.name
  BY <1>4, <1>9 DEF AsListed
<1>11. linked[i].key = c.name /\ merged[i].key = c.name
  BY <1>5, <1>6, <1>9 DEF AsListed
<1>12. ComposeSelected(linked[i], containers, projects)
  BY DEF linked
<1> HIDE DEF containers
<1> HIDE DEF projects
<1>13. c.label = NoProject => ComposeSelected(normal[i], containers, projects)
  BY <1>10, <1>11, <1>12 DEF ComposeSelected
<1>14. merged[i].project = IF c.label = NoProject THEN c.inspect ELSE c.label
  BY <1>5, <1>9, <1>10, <1>13
<1>15. CASE merged[i].project # NoProject
  <2>1. merged[i].project = c.owner
    BY <1>3, <1>14, <1>15
  <2>2. c.owner \in keys
    BY <1>7, <1>9, <1>15, <2>1 DEF NamedProjects
  <2>3. linked[i].project = c.owner
    BY <1>6, <1>9, <2>1, <2>2
  <2>4. QED
    BY <2>3 DEF linked
<1>16. CASE merged[i].project = NoProject
  <2>1. c.label = NoProject /\ c.inspect = NoProject
    BY <1>14, <1>16
  <2>2. {q \in keys : IsPrefix(q, c.name)} = {c.owner} \cap keys
    BY <2>1 DEF Misleads, keys
  <2>3. MatchComposeProject(c.name, ProjectsOf(a, o)) = IF c.owner \in keys THEN c.owner ELSE NoProject
    BY <1>3, <2>2, MatchedProject DEF keys
  <2>4. linked[i].project = IF c.owner \in keys THEN c.owner ELSE NoProject
    BY <1>6, <1>8, <1>9, <1>11, <1>16, <2>3
  <2>5. p \in keys
    BY DEF keys
  <2>6. linked[i].project = p <=> c.owner = p
    BY <1>8, <2>4, <2>5
  <2>7. QED
    BY <2>6 DEF linked
<1>17. QED
  BY <1>15, <1>16

\* The containers that are shown are containers of the list that pass the
\* selection.
LEMMA ShownContainers ==
  ASSUME NEW a, IsAnswer(a), NEW o
  PROVE  LET shown == FilterCompose(Linked(a, o), o)
         IN  \A m \in DOMAIN shown : \E i \in DOMAIN a.containers :
               /\ shown[m] = Linked(a, o)[i]
               /\ shown[m].owner = a.containers[i].owner
               /\ ComposeSelected(Linked(a, o)[i], SelectedValues(o, "containers"),
                                  SelectedValues(o, "projects"))
<1> DEFINE linked == Linked(a, o)
           in == {i \in DOMAIN linked : ComposeSelected(linked[i], SelectedValues(o, "containers"),
                                                        SelectedValues(o, "projects"))}
           shown == At(linked, in)
<1>1. FilterCompose(linked, o) = shown
  BY DEF FilterCompose, Where
<1>2. AsListed(a, linked)
  BY ComposeOfPoll
<1>3. PICK T : linked \in Seq(T)
  BY ComposeOfPoll
<1> HIDE DEF linked
<1>4. in \subseteq DOMAIN linked
  OBVIOUS
<1>5. \A i \in in : i \in DOMAIN linked /\
        ComposeSelected(linked[i], SelectedValues(o, "containers"), SelectedValues(o, "projects"))
  OBVIOUS
<1> HIDE DEF in
<1>6. Picks(linked, in, shown)
  BY <1>3, <1>4, Picked
<1> HIDE DEF shown
<1>7. \A m \in DOMAIN shown : \E i \in in : shown[m] = linked[i]
  BY <1>6 DEF Picks
<1>8. \A m \in DOMAIN shown : \E i \in DOMAIN a.containers :
        /\ shown[m] = linked[i]
        /\ shown[m].owner = a.containers[i].owner
        /\ ComposeSelected(linked[i], SelectedValues(o, "containers"), SelectedValues(o, "projects"))
  BY <1>2, <1>5, <1>7 DEF AsListed
<1>9. QED
  BY <1>1, <1>8 DEF linked

\* The totals that a project is shown with.
LEMMA ShownProjects ==
  ASSUME NEW a, IsAnswer(a), NEW o, NEW compose
  PROVE  LET t == FilterProjects(ProjectsOf(a, o), compose, o)
         IN  \A m \in DOMAIN t : /\ t[m].counts = ComposeProjectCounts(compose, t[m].key)
                                 /\ t[m].key \in Keys(ProjectsOf(a, o))
<1> DEFINE projects == ProjectsOf(a, o)
<1>1. Merged(a, o) \in Seq(Containers) /\ IsFiniteSet(a.files)
  BY ComposeOfPoll DEF IsAnswer
<1>2. /\ \E U : projects \in Seq(U)
      /\ Unique(projects)
      /\ \A i \in DOMAIN projects :
           projects[i] = ProjectRecord(a.files, Merged(a, o), projects[i].key)
  BY <1>1, NormalizedProjects DEF ProjectsOf
<1> HIDE DEF projects
<1>3. \A i \in DOMAIN projects :
        projects[i] = [key |-> projects[i].key, uuid |-> projects[i].uuid,
                       counts |-> projects[i].counts]
  BY <1>2 DEF ProjectRecord
<1>4. QED
  BY <1>2, <1>3, FilteredProjects DEF projects

LEMMA ServedCounts == ServedInv => CountsAddUp
<1> DEFINE shown == data.compose
           Own(p) == {i \in DOMAIN shown : shown[i].owner = p.key}
           keys == Keys(ProjectsOf(polled, options))
<1>1. SUFFICES ASSUME ServedInv, Loaded,
                      \A c \in ToSet(polled.containers) : ~ Misleads(c, Keys(source.projects)),
                      NEW p \in ToSet(data.projects)
               PROVE  p.counts = [total |-> Cardinality(Own(p)),
                                  running |-> Cardinality({i \in Own(p) : shown[i].running})]
  BY DEF CountsAddUp, Misleads
<1>2. IsAnswer(polled) /\ TellsOwners(polled)
  BY <1>1, AppliancesAssumption DEF ServedInv
<1>3. source = NormalizeInventory(polled, options) /\ data = FilterDataBySelection(source, options)
  BY <1>1 DEF ServedInv, Served
<1>4. source.projects = ProjectsOf(polled, options) /\ source.compose = Linked(polled, options)
  BY <1>3, SourceCompose
<1>5. IsFiltered(source, options, data)
  <2>1. source = [f \in Parts |-> source[f]]
    BY <1>3, InventoryParts
  <2>2. QED
    BY <1>3, <2>1, Filtered
<1>6. shown = FilterCompose(Linked(polled, options), options)
  BY <1>4, <1>5 DEF IsFiltered
<1>7. data.projects = FilterProjects(ProjectsOf(polled, options), shown, options)
  BY <1>4, <1>5 DEF IsFiltered
<1> HIDE DEF shown
<1>8. p.counts = ComposeProjectCounts(shown, p.key) /\ p.key \in keys
  BY <1>1, <1>2, <1>7, ShownProjects DEF ToSet
<1>9. ASSUME NEW m \in DOMAIN shown
      PROVE  shown[m].project = p.key <=> shown[m].owner = p.key
  <2>1. PICK i \in DOMAIN polled.containers :
          /\ shown[m] = Linked(polled, options)[i]
          /\ shown[m].owner = polled.containers[i].owner
          /\ ComposeSelected(Linked(polled, options)[i], SelectedValues(options, "containers"),
                             SelectedValues(options, "projects"))
    BY <1>2, <1>6, ShownContainers
  <2>2. ~ Misleads(polled.containers[i], keys)
    BY <1>1, <1>4 DEF ToSet
  <2>3. Linked(polled, options)[i].project = p.key <=> polled.containers[i].owner = p.key
    BY <1>2, <1>8, <2>1, <2>2, OwnerCounts
  <2>4. QED
    BY <2>1, <2>3
<1>10. {m \in DOMAIN shown : shown[m].project = p.key} = Own(p)
  BY <1>9
<1>11. QED
  BY <1>8, <1>10 DEF ComposeProjectCounts

\* The totals of the projects are right, however many containers and projects
\* there are and whatever is selected of them.
THEOREM TotalsAreRight == Spec => []CountsAddUp
  BY ServedAlways, ServedCounts, PTL

-----------------------------------------------------------------------------
(* MembersStayBare.                                                        *)

\* What stands for storage in an answer: disks, arrays, and what filesystems
\* reveal.
StorageNames(a) ==
  {d.ref.name : d \in ToSet(a.disks)} \cup {m.ref.name : m \in ToSet(a.md)}
    \cup ({FindLogicalStorageReference(r) : r \in ToSet(a.fs)} \ {None})

LEMMA KeysAreStorage ==
  ASSUME NEW a, IsAnswer(a)
  PROVE  \A i \in DOMAIN NormalizeStorage(a) : NormalizeStorage(a)[i].key \in StorageNames(a)
<1> DEFINE all == NormalizeStorage(a)
<1>1. SUFFICES ASSUME NEW i \in DOMAIN all
               PROVE  all[i].key \in StorageNames(a)
  OBVIOUS
<1>2. FromDiskList(a, all[i]) \/ FromMd(a, all[i]) \/ FromFilesystem(a, all[i])
  BY NormalizedStorage
<1> HIDE DEF all
<1>3. CASE FromDiskList(a, all[i])
  <2>1. PICK j \in DOMAIN NormalizeDisks(a.disks) : all[i] = NormalizeDisks(a.disks)[j]
    BY <1>3 DEF FromDiskList
  <2>2. PICK r \in ToSet(a.disks) : NormalizeDisks(a.disks)[j].key = r.ref.name
    BY NormalizedDisks DEF IsAnswer
  <2>3. QED
    BY <2>1, <2>2 DEF StorageNames
<1>4. CASE FromMd(a, all[i])
  <2>1. PICK r \in ToSet(a.md) : all[i] = LogicalDisk(r.ref.name, r.state, r.members, r.size)
    BY <1>4 DEF FromMd
  <2>2. all[i].key = r.ref.name
    BY <2>1, LogicalDiskFields
  <2>3. QED
    BY <2>2 DEF StorageNames
<1>5. CASE FromFilesystem(a, all[i])
  <2>1. PICK r \in ToSet(a.fs) :
          /\ all[i] = LogicalDisk(FindLogicalStorageReference(r), "unknown", {}, r.size)
          /\ FindLogicalStorageReference(r) # None
    BY <1>5 DEF FromFilesystem
  <2>2. all[i].key = FindLogicalStorageReference(r)
    BY <2>1, LogicalDiskFields
  <2>3. QED
    BY <2>1, <2>2 DEF StorageNames
<1>6. QED
  BY <1>2, <1>3, <1>4, <1>5

\* The array that a filesystem is on is one of its references.
LEMMA ReferenceIsNamed ==
  ASSUME NEW r \in FilesystemRecords, FindLogicalStorageReference(r) # None
  PROVE  \E i \in DOMAIN r.refs : r.refs[i].name = FindLogicalStorageReference(r)
<1> DEFINE found == {i \in DOMAIN r.refs : r.refs[i].name \in MdDevices}
<1>1. r.refs \in Seq(References)
  BY DEF FilesystemRecords
<1>2. found \subseteq Nat /\ found \subseteq DOMAIN r.refs
  BY <1>1, LenProperties
<1>3. FindLogicalStorageReference(r) = IF found = {} THEN None ELSE r.refs[Least(found)].name
  BY DEF FindLogicalStorageReference, NormalizeDeviceReference
<1> HIDE DEF found
<1>4. found # {}
  BY <1>3
<1>5. Least(found) \in found
  BY <1>2, <1>4, LeastProperties
<1>6. QED
  BY <1>2, <1>3, <1>4, <1>5

\* A filesystem on an array goes to the array, not to a disk of its size.
LEMMA FilesystemOnArray ==
  ASSUME NEW a, IsAnswer(a), NamesOneStorage(a), NEW r \in ToSet(a.fs),
         FindLogicalStorageReference(r) # None
  PROVE  MapFilesystemToDisk(r, NormalizeStorage(a)) = FindLogicalStorageReference(r)
<1> DEFINE disks == NormalizeStorage(a)
           on == FindLogicalStorageReference(r)
           names == {NormalizeDeviceReference(r.refs[i]) : i \in DOMAIN r.refs}
           named == {i \in DOMAIN disks : disks[i].key \in names}
<1>1. r \in FilesystemRecords
  <2>1. a.fs \in Seq(FilesystemRecords)
    BY DEF IsAnswer
  <2>2. QED
    BY <2>1, ElementOfSeq, LenProperties DEF ToSet
<1>2. named # {} => MapFilesystemToDisk(r, disks) = disks[Least(named)].key
  BY DEF MapFilesystemToDisk
<1>3. disks \in Seq(Disks) /\ on \in Keys(disks)
  BY NormalizedStorage
<1>4. \A i \in DOMAIN disks : disks[i].key \in StorageNames(a)
  BY KeysAreStorage
<1>5. on \in names
  BY <1>1, ReferenceIsNamed DEF NormalizeDeviceReference
<1>6. \A n \in names : n \in StorageNames(a) => n = on
  BY DEF NamesOneStorage, StorageNames, NormalizeDeviceReference
<1> HIDE DEF disks
<1> HIDE DEF names
<1>7. named # {}
  BY <1>3, <1>5 DEF Keys
<1>8. named \subseteq DOMAIN disks
  OBVIOUS
<1>9. \A i \in named : i \in DOMAIN disks /\ disks[i].key \in names
  OBVIOUS
<1> HIDE DEF named
<1>10. Least(named) \in named
  BY <1>3, <1>7, <1>8, LeastOfPlaces
<1>11. disks[Least(named)].key = on
  BY <1>4, <1>6, <1>9, <1>10
<1>12. QED
  BY <1>2, <1>7, <1>11 DEF disks

LEMMA ServedBare == ServedInv => MembersStayBare
<1>1. SUFFICES ASSUME ServedInv, Loaded, NEW f \in ToSet(source.fs), NEW r \in ToSet(polled.fs),
                      f.key = r.uuid, FindLogicalStorageReference(r) # None
               PROVE  f.disk = FindLogicalStorageReference(r)
  BY DEF MembersStayBare
<1> DEFINE disks == NormalizeStorage(polled)
<1>2. IsAnswer(polled) /\ KeepsNamesApart(polled) /\ NamesOneStorage(polled)
  BY <1>1, AppliancesAssumption DEF ServedInv
<1>3. source.fs = NormalizeFilesystems(polled.fs, disks)
  BY <1>1, SourceFields DEF ServedInv, Served
<1>4. /\ polled.fs \in Seq(FilesystemRecords)
      /\ \A i, j \in DOMAIN polled.fs : polled.fs[i].uuid = polled.fs[j].uuid => i = j
  BY <1>2 DEF IsAnswer, KeepsNamesApart
<1>5. disks \in Seq(Disks)
  BY <1>2, NormalizedStorage
<1>6. PICK q \in ToSet(polled.fs) : f.key = q.uuid /\ f.disk = MapFilesystemToDisk(q, disks)
  <2> DEFINE fs == NormalizeFilesystems(polled.fs, disks)
  <2>1. \A i \in DOMAIN fs : \E q \in ToSet(polled.fs) :
          fs[i].key = q.uuid /\ fs[i].disk = MapFilesystemToDisk(q, disks)
    BY <1>4, <1>5, NormalizedFilesystems
  <2> HIDE DEF fs
  <2>2. PICK i \in DOMAIN fs : f = fs[i]
    BY <1>1, <1>3 DEF ToSet, fs
  <2>3. QED
    BY <2>1, <2>2
<1>7. q = r
  BY <1>1, <1>4, <1>6 DEF ToSet
<1>8. QED
  BY <1>1, <1>2, <1>6, <1>7, FilesystemOnArray

\* A filesystem on an array never measures a member of it.
THEOREM ArraysKeepTheirFilesystems == Spec => []MembersStayBare
  BY ServedAlways, ServedBare, PTL

-----------------------------------------------------------------------------
(* UntouchedFormKeepsAll.                                                  *)

\* The entities of u have all the ids that those of d have.
Covers(d, u) ==
  /\ u.disk = d.disk /\ u.networks = d.networks /\ u.raid = d.raid /\ u.pools = d.pools
  /\ u.datasets = d.datasets /\ u.compose = d.compose /\ u.projects = d.projects
  /\ u.volumes = d.volumes /\ u.known = d.known /\ u.vms = d.vms /\ u.services = d.services
  /\ u.summary = d.summary /\ u.rsync = d.rsync /\ u.cron = d.cron /\ u.host = d.host
  /\ u.nut = d.nut /\ u.tempmon = d.tempmon
  /\ \A i \in DOMAIN d.disk : DiskKinds(d, d.disk[i]) \subseteq DiskKinds(u, d.disk[i])
  /\ \A i \in DOMAIN PlainOnes(d) : \E j \in DOMAIN PlainOnes(u) :
       PlainOnes(u)[j].key = PlainOnes(d)[i].key

LEMMA CoversSensors ==
  ASSUME NEW d, NEW u, Covers(d, u), NEW e, SensorEntity(d, e)
  PROVE  \E f : SensorEntity(u, f) /\ f.id = e.id
<1>1. CASE \E i \in DOMAIN PlainOnes(d) : \E kind \in FilesystemSensors :
             From(PlainOnes(d), i, kind, FilesystemDevice(d, PlainOnes(d)[i]), e)
  <2>1. PICK i \in DOMAIN PlainOnes(d) : \E kind \in FilesystemSensors :
             From(PlainOnes(d), i, kind, FilesystemDevice(d, PlainOnes(d)[i]), e)
    BY <1>1
  <2>2. PICK kind \in FilesystemSensors :
             From(PlainOnes(d), i, kind, FilesystemDevice(d, PlainOnes(d)[i]), e)
    BY <2>1
  <2>3. PICK j \in DOMAIN PlainOnes(u) : PlainOnes(u)[j].key = PlainOnes(d)[i].key
    BY DEF Covers
  <2> DEFINE f == Entity(kind, PlainOnes(u)[j].key, FilesystemDevice(u, PlainOnes(u)[j]), j)
  <2>4. e.id = <<kind, PlainOnes(d)[i].key>> /\ f.id = <<kind, PlainOnes(u)[j].key>>
    BY <2>2, EntityFields DEF From
  <2>5. StorageEntity(u, f)
    BY DEF StorageEntity, From
  <2>6. QED
    BY <2>3, <2>4, <2>5 DEF SensorEntity
<1>2. CASE \E i \in DOMAIN d.disk : \E kind \in DiskKinds(d, d.disk[i]) :
             From(d.disk, i, kind, DiskDevice(d.disk[i].key), e)
  <2>1. SensorEntity(u, e)
    BY <1>2 DEF Covers, SensorEntity
  <2>2. QED
    BY <2>1
<1>3. CASE StorageEntity(d, e)
  <2>1. \A r : RaidDevice(d, r) = RaidDevice(u, r)
    BY DEF RaidDevice, Covers
  <2>2. Measured(d) = Measured(u)
    BY DEF Measured, Covers
  <2>3. CASE StorageEntity(u, e)
    BY <2>3 DEF SensorEntity
  <2>4. ASSUME ~ StorageEntity(u, e)
        PROVE  \E i \in DOMAIN PlainOnes(d) : \E kind \in FilesystemSensors :
                 From(PlainOnes(d), i, kind, FilesystemDevice(d, PlainOnes(d)[i]), e)
    BY <1>3, <2>1, <2>2, <2>4 DEF StorageEntity, Covers
  <2>5. QED
    BY <1>1, <2>3, <2>4
<1>4. CASE ~ StorageEntity(d, e) /\ ~ \E i \in DOMAIN d.disk : \E kind \in DiskKinds(d, d.disk[i]) :
             From(d.disk, i, kind, DiskDevice(d.disk[i].key), e)
  <2>1. HostSensors(d) = HostSensors(u)
    BY DEF HostSensors, Covers
  <2>2. SensorEntity(u, e)
    BY <1>4, <2>1 DEF SensorEntity, Covers
  <2>3. QED
    BY <2>2
<1>5. QED
  BY <1>2, <1>3, <1>4

LEMMA CoversIds ==
  ASSUME NEW d, NEW u, Covers(d, u), NEW cron, NEW e \in Created(d, cron)
  PROVE  \E f \in Created(u, cron) : f.id = e.id
<1>1. CreatedEntity(d, cron, e)
  BY CreatedMembers
<1>2. CASE SensorEntity(d, e)
  <2>1. PICK f : SensorEntity(u, f) /\ f.id = e.id
    BY <1>2, CoversSensors
  <2>2. f \in Created(u, cron)
    BY <2>1, CreatedMembers DEF CreatedEntity
  <2>3. QED
    BY <2>1, <2>2
<1>3. CASE BinaryEntity(d, e) \/ ButtonEntity(d, cron, e) \/ SwitchEntity(d, e)
  <2>1. Wakeable(d) = Wakeable(u)
    BY DEF Wakeable, Covers
  <2>2. BinaryEntity(u, e) \/ ButtonEntity(u, cron, e) \/ SwitchEntity(u, e)
    <3>1. CASE BinaryEntity(d, e)
      BY <3>1 DEF BinaryEntity, Covers
    <3>2. CASE ButtonEntity(d, cron, e)
      BY <3>2, <2>1 DEF ButtonEntity, Covers
    <3>3. CASE SwitchEntity(d, e)
      BY <3>3 DEF SwitchEntity, Covers
    <3>4. QED
      BY <1>3, <3>1, <3>2, <3>3
  <2>3. e \in Created(u, cron)
    BY <2>2, CreatedMembers DEF CreatedEntity
  <2>4. QED
    BY <2>3
<1>4. QED
  BY <1>1, <1>2, <1>3 DEF CreatedEntity

\* The places that a selection shows, of the records that have rules of their own.
ShownDisks(disks, o) ==
  {i \in DOMAIN disks : Passes(disks[i].key, SelectedValues(o,
                          IF disks[i].israid \/ disks[i].logical THEN "raids" ELSE "disks"))}

ShownCompose(compose, o) ==
  {i \in DOMAIN compose : ComposeSelected(compose[i], SelectedValues(o, "containers"),
                                          SelectedValues(o, "projects"))}

\* Two selections show the same of s, but for its filesystems.
ShowTheSame(s, o, v) ==
  /\ ShownDisks(s.disk, o) = ShownDisks(s.disk, v)
  /\ ShownCompose(s.compose, o) = ShownCompose(s.compose, v)
  /\ Shown(s.networks, "networks", o) = Shown(s.networks, "networks", v)
  /\ Shown(s.raid, "raids", o) = Shown(s.raid, "raids", v)
  /\ Shown(s.pools, "pools", o) = Shown(s.pools, "pools", v)
  /\ Shown(s.projects, "projects", o) = Shown(s.projects, "projects", v)
  /\ OfShownPools(s.datasets, o) = OfShownPools(s.datasets, v)
  /\ \A x \in s.vms : Passes(x, SelectedValues(o, "vms")) <=> Passes(x, SelectedValues(v, "vms"))
  /\ \A x \in s.services :
       Passes(x, SelectedValues(o, "services")) <=> Passes(x, SelectedValues(v, "services"))

\* Everything but the filesystems and what they say of the disks.
SameButFilesystems(d, u) ==
  /\ u.disk = d.disk /\ u.networks = d.networks /\ u.raid = d.raid /\ u.pools = d.pools
  /\ u.datasets = d.datasets /\ u.compose = d.compose /\ u.projects = d.projects
  /\ u.volumes = d.volumes /\ u.known = d.known /\ u.vms = d.vms /\ u.services = d.services
  /\ u.summary = d.summary /\ u.rsync = d.rsync /\ u.cron = d.cron /\ u.host = d.host
  /\ u.nut = d.nut /\ u.tempmon = d.tempmon

LEMMA FilteredTheSame ==
  ASSUME NEW s, NEW o, NEW v, ShowTheSame(s, o, v), NEW d, NEW u,
         IsFiltered(s, o, d), IsFiltered(s, v, u)
  PROVE  SameButFilesystems(d, u)
<1>1. /\ FilterDisks(s.disk, o) = At(s.disk, ShownDisks(s.disk, o))
      /\ FilterDisks(s.disk, v) = At(s.disk, ShownDisks(s.disk, v))
  BY DEF FilterDisks, Where, ShownDisks
<1>2. /\ FilterCompose(s.compose, o) = At(s.compose, ShownCompose(s.compose, o))
      /\ FilterCompose(s.compose, v) = At(s.compose, ShownCompose(s.compose, v))
  BY DEF FilterCompose, Where, ShownCompose
<1>3. u.disk = d.disk /\ u.compose = d.compose
  BY <1>1, <1>2 DEF ShowTheSame, IsFiltered
<1>4. FilterProjects(s.projects, d.compose, o) = FilterProjects(s.projects, d.compose, v)
  <2> DEFINE w(x) == At(s.projects, Shown(s.projects, "projects", x))
             Counted(y) == [i \in DOMAIN y |->
                             [y[i] EXCEPT !.counts = ComposeProjectCounts(d.compose, y[i].key)]]
             Listed(y) == SubSeq(Counted(y), 1, Len(y))
  <2>1. /\ FilterProjects(s.projects, d.compose, o) = Listed(w(o))
        /\ FilterProjects(s.projects, d.compose, v) = Listed(w(v))
    BY DEF FilterProjects, Each, Where, Shown
  <2>2. w(o) = w(v)
    BY DEF ShowTheSame
  <2> HIDE DEF Counted, w, Listed
  <2>3. QED
    BY <2>1, <2>2
<1>5. u.projects = d.projects
  BY <1>3, <1>4 DEF IsFiltered
<1>6. u.volumes = d.volumes /\ u.known = d.known
  BY <1>3 DEF IsFiltered
<1>7. u.vms = d.vms
  BY DEF IsFiltered, ShowTheSame
<1>8. u.services = d.services
  BY DEF IsFiltered, ShowTheSame
<1>9. u.networks = d.networks /\ u.raid = d.raid /\ u.pools = d.pools /\ u.datasets = d.datasets
  BY DEF IsFiltered, ShowTheSame
<1>10. /\ u.summary = d.summary /\ u.rsync = d.rsync /\ u.cron = d.cron /\ u.host = d.host
       /\ u.nut = d.nut /\ u.tempmon = d.tempmon
  BY <1>8 DEF IsFiltered
<1>11. QED
  BY <1>3, <1>5, <1>6, <1>7, <1>8, <1>9, <1>10 DEF SameButFilesystems

\* A stored selection shows what the form made of it shows.
LEMMA SameSelections ==
  ASSUME NEW s, NEW o, NEW v, \A f \in ResourceFields : SelectedValues(o, f) = SelectedValues(v, f)
  PROVE  /\ ShowTheSame(s, o, v)
         /\ Shown(s.fs, "filesystems", o) = Shown(s.fs, "filesystems", v)
<1>1. /\ SelectedValues(o, "disks") = SelectedValues(v, "disks")
      /\ SelectedValues(o, "raids") = SelectedValues(v, "raids")
      /\ SelectedValues(o, "containers") = SelectedValues(v, "containers")
      /\ SelectedValues(o, "projects") = SelectedValues(v, "projects")
      /\ SelectedValues(o, "networks") = SelectedValues(v, "networks")
      /\ SelectedValues(o, "pools") = SelectedValues(v, "pools")
      /\ SelectedValues(o, "vms") = SelectedValues(v, "vms")
      /\ SelectedValues(o, "services") = SelectedValues(v, "services")
      /\ SelectedValues(o, "filesystems") = SelectedValues(v, "filesystems")
  BY DEF ResourceFields
<1>2. ShownDisks(s.disk, o) = ShownDisks(s.disk, v)
  BY <1>1 DEF ShownDisks
<1>3. ShownCompose(s.compose, o) = ShownCompose(s.compose, v)
  BY <1>1 DEF ShownCompose
<1>4. /\ Shown(s.networks, "networks", o) = Shown(s.networks, "networks", v)
      /\ Shown(s.raid, "raids", o) = Shown(s.raid, "raids", v)
      /\ Shown(s.pools, "pools", o) = Shown(s.pools, "pools", v)
      /\ Shown(s.projects, "projects", o) = Shown(s.projects, "projects", v)
      /\ Shown(s.fs, "filesystems", o) = Shown(s.fs, "filesystems", v)
  BY <1>1 DEF Shown
<1>5. OfShownPools(s.datasets, o) = OfShownPools(s.datasets, v)
  BY <1>1 DEF OfShownPools
<1>6. QED
  BY <1>1, <1>2, <1>3, <1>4, <1>5 DEF ShowTheSame

\* Nothing is selected, or everything on offer is: that shows everything.
LEMMA WithoutSelection ==
  ASSUME NEW o, DOMAIN o \cap ResourceFields = {}
  PROVE  \A f \in ResourceFields : SelectedValues(o, f) = {}
  BY DEF SelectedValues

ShowsAll(s, o) ==
  /\ ShownDisks(s.disk, o) = DOMAIN s.disk
  /\ ShownCompose(s.compose, o) = DOMAIN s.compose
  /\ Shown(s.networks, "networks", o) = DOMAIN s.networks
  /\ Shown(s.raid, "raids", o) = DOMAIN s.raid
  /\ Shown(s.pools, "pools", o) = DOMAIN s.pools
  /\ Shown(s.projects, "projects", o) = DOMAIN s.projects
  /\ OfShownPools(s.datasets, o) = DOMAIN s.datasets
  /\ \A x \in s.vms : Passes(x, SelectedValues(o, "vms"))
  /\ \A x \in s.services : Passes(x, SelectedValues(o, "services"))

LEMMA NothingSelected ==
  ASSUME NEW s, NEW o, DOMAIN o \cap ResourceFields = {}
  PROVE  ShowsAll(s, o) /\ Shown(s.fs, "filesystems", o) = DOMAIN s.fs
<1>1. \A f \in ResourceFields : SelectedValues(o, f) = {}
  BY WithoutSelection
<1>2. \A x : Passes(x, {})
  BY DEF Passes
<1>3. /\ SelectedValues(o, "disks") = {} /\ SelectedValues(o, "raids") = {}
      /\ SelectedValues(o, "containers") = {} /\ SelectedValues(o, "projects") = {}
      /\ SelectedValues(o, "networks") = {} /\ SelectedValues(o, "pools") = {}
      /\ SelectedValues(o, "vms") = {} /\ SelectedValues(o, "services") = {}
      /\ SelectedValues(o, "filesystems") = {}
  BY <1>1 DEF ResourceFields
<1>4. ShownDisks(s.disk, o) = DOMAIN s.disk
  BY <1>2, <1>3 DEF ShownDisks
<1>5. ShownCompose(s.compose, o) = DOMAIN s.compose
  BY <1>3 DEF ShownCompose, ComposeSelected
<1>6. /\ Shown(s.networks, "networks", o) = DOMAIN s.networks
      /\ Shown(s.raid, "raids", o) = DOMAIN s.raid
      /\ Shown(s.pools, "pools", o) = DOMAIN s.pools
      /\ Shown(s.projects, "projects", o) = DOMAIN s.projects
      /\ Shown(s.fs, "filesystems", o) = DOMAIN s.fs
  BY <1>2, <1>3 DEF Shown
<1>7. OfShownPools(s.datasets, o) = DOMAIN s.datasets
  BY <1>2, <1>3 DEF OfShownPools
<1>8. QED
  BY <1>2, <1>3, <1>4, <1>5, <1>6, <1>7 DEF ShowsAll

\* What MatchComposeProject chooses exists: of the projects that begin a name,
\* the shortest begins the others.
LEMMA MatchIsProject ==
  ASSUME NEW name, NEW projects, Keys(projects) \subseteq Names
  PROVE  MatchComposeProject(name, projects) \in Keys(projects) \cup {NoProject}
<1> DEFINE begin == {p \in Keys(projects) : IsPrefix(p, name)}
           lengths == {Len(p) : p \in begin}
<1>1. MatchComposeProject(name, projects) =
        IF begin = {} THEN NoProject ELSE CHOOSE p \in begin : \A q \in begin : IsPrefix(p, q)
  BY DEF MatchComposeProject
<1>2. \A p \in begin : Len(p) \in Nat /\ p \in Keys(projects) /\ IsPrefix(p, name)
  BY LenProperties DEF Names
<1>3. CASE begin # {}
  <2>1. lengths \subseteq Nat /\ lengths # {}
    BY <1>2, <1>3
  <2>2. PICK n \in lengths : \A m \in lengths : n <= m
    BY <2>1, LeastExists
  <2>3. PICK p \in begin : Len(p) = n
    BY <2>2
  <2>4. ASSUME NEW q \in begin PROVE IsPrefix(p, q)
    <3>1. Len(p) <= Len(q)
      BY <2>2, <2>3
    <3>2. \A i \in 1 .. Len(p) : p[i] = name[i]
      BY <1>2, <2>3 DEF IsPrefix
    <3>3. \A i \in 1 .. Len(q) : q[i] = name[i]
      BY <1>2 DEF IsPrefix
    <3>4. Len(p) \in Nat /\ Len(q) \in Nat
      BY <1>2
    <3>5. \A i \in 1 .. Len(p) : p[i] = q[i]
      BY <3>1, <3>2, <3>3, <3>4
    <3>6. QED
      BY <3>1, <3>5 DEF IsPrefix
  <2>5. (CHOOSE x \in begin : \A q \in begin : IsPrefix(x, q)) \in begin
    BY <2>3, <2>4
  <2>6. QED
    BY <1>1, <1>2, <1>3, <2>5
<1>4. QED
  BY <1>1, <1>3

\* The containers of a poll belong to its projects.
LEMMA LinkedToProjects ==
  ASSUME NEW a, IsAnswer(a), NEW o
  PROVE  \A i \in DOMAIN Linked(a, o) :
           Linked(a, o)[i].project \in Keys(ProjectsOf(a, o)) \cup {NoProject}
<1> DEFINE merged == Merged(a, o)
           linked == Linked(a, o)
           projects == ProjectsOf(a, o)
<1>1. merged \in Seq(Containers) /\ AsListed(a, merged)
  BY ComposeOfPoll
<1>2. Keys(projects) \subseteq Names
  <2>1. Keys(projects) = a.files \cup NamedProjects(merged)
    BY <1>1, NormalizedProjects DEF ProjectsOf, IsAnswer
  <2>2. \A i \in DOMAIN merged : merged[i] \in Containers
    BY <1>1, ElementOfSeq, LenProperties
  <2>3. NamedProjects(merged) \subseteq Names
    BY <2>2 DEF NamedProjects, Containers
  <2>4. QED
    BY <2>1, <2>3 DEF IsAnswer
<1>3. \A i \in DOMAIN linked :
        linked[i].project = IF merged[i].project \in Keys(projects) THEN merged[i].project
                            ELSE MatchComposeProject(merged[i].key, projects)
  BY <1>1, LinkedCompose DEF Linked
<1> HIDE DEF merged, linked, projects
<1>4. \A i \in DOMAIN linked : linked[i].project \in Keys(projects) \cup {NoProject}
  BY <1>2, <1>3, MatchIsProject
<1>5. QED
  BY <1>4 DEF linked, projects

\* A logical disk is an array.
LEMMA LogicalIsArray ==
  ASSUME NEW a, IsAnswer(a)
  PROVE  \A i \in DOMAIN NormalizeStorage(a) :
           NormalizeStorage(a)[i].logical => NormalizeStorage(a)[i].israid
<1> DEFINE all == NormalizeStorage(a)
<1>1. SUFFICES ASSUME NEW i \in DOMAIN all, all[i].logical
               PROVE  all[i].israid
  OBVIOUS
<1>2. FromDiskList(a, all[i]) \/ FromMd(a, all[i]) \/ FromFilesystem(a, all[i])
  BY NormalizedStorage
<1> HIDE DEF all
<1>3. ~ FromDiskList(a, all[i])
  BY <1>1, NormalizedDisks DEF FromDiskList, IsAnswer
<1>4. \E name, status, members, size : all[i] = LogicalDisk(name, status, members, size)
  BY <1>2, <1>3 DEF FromMd, FromFilesystem
<1>5. QED
  BY <1>4, LogicalDiskFields

\* What of a poll the form's offers rest on.
OffersAll(s) ==
  /\ s.fs \in Seq(Filesystems)
  /\ \E T : s.disk \in Seq(T)
  /\ \A i \in DOMAIN s.disk : s.disk[i].logical => s.disk[i].israid
  /\ \A i \in DOMAIN s.compose : s.compose[i].project \in Keys(s.projects) \cup {NoProject}

LEMMA PollOffersAll ==
  ASSUME NEW a, IsAnswer(a), KeepsNamesApart(a), NEW o
  PROVE  OffersAll(NormalizeInventory(a, o))
<1> DEFINE s == NormalizeInventory(a, o)
           disks == NormalizeStorage(a)
           fs == NormalizeFilesystems(a.fs, disks)
<1>1. s.fs = fs /\ s.disk = ApplyStorageMetrics(disks, fs)
  BY SourceFields
<1>2. s.projects = ProjectsOf(a, o) /\ s.compose = Linked(a, o)
  BY SourceCompose
<1> HIDE DEF s
<1>3. disks \in Seq(Disks) /\ Unique(disks)
  BY NormalizedStorage
<1>4. \A i \in DOMAIN disks : disks[i].logical => disks[i].israid
  BY LogicalIsArray
<1> HIDE DEF disks
<1>5. fs \in Seq(Filesystems)
  <2>1. /\ a.fs \in Seq(FilesystemRecords)
        /\ \A i, j \in DOMAIN a.fs : a.fs[i].uuid = a.fs[j].uuid => i = j
    BY DEF IsAnswer, KeepsNamesApart
  <2>2. QED
    BY <1>3, <2>1, NormalizedFilesystems
<1> HIDE DEF fs
<1>6. /\ \E T : s.disk \in Seq(T)
      /\ \A i \in DOMAIN s.disk : s.disk[i].logical => s.disk[i].israid
  <2>1. PICK T : /\ s.disk \in Seq(T)
                 /\ \A i \in DOMAIN s.disk : /\ i \in DOMAIN disks
                                             /\ s.disk[i].israid = disks[i].israid
                                             /\ s.disk[i].logical = disks[i].logical
    BY <1>1, <1>3, MeasuredDisks
  <2>2. QED
    BY <1>4, <2>1
<1>7. \A i \in DOMAIN s.compose : s.compose[i].project \in Keys(s.projects) \cup {NoProject}
  BY <1>2, LinkedToProjects
<1>8. QED
  BY <1>1, <1>5, <1>6, <1>7 DEF OffersAll, s

\* A form without any selection before it has checked what it offers.
LEMMA FreshForm ==
  ASSUME NEW s, NEW o, DOMAIN o \cap ResourceFields = {}, NEW f \in ResourceFields
  PROVE  UntouchedForm(BuildInventory(s), o)[f] = BuildInventory(s)[f]
<1>1. f \in Fields /\ f # "cron" /\ f \notin DOMAIN o
  BY DEF Fields, ResourceFields
<1>2. OfferedValues(BuildInventory(s), o)[f] = BuildInventory(s)[f]
  BY <1>1 DEF OfferedValues
<1>3. QED
  BY <1>1, <1>2 DEF UntouchedForm, DefaultSelection

LEMMA FreshSelection ==
  ASSUME NEW s, NEW o, DOMAIN o \cap ResourceFields = {}
  PROVE  LET v == UntouchedForm(BuildInventory(s), o)
         IN  /\ SelectedValues(v, "disks") = {Keys(s.disk)}
             /\ SelectedValues(v, "raids") \in {{}, {Keys(s.raid)}}
             /\ SelectedValues(v, "containers") = {Keys(s.compose)}
             /\ SelectedValues(v, "projects") = {Keys(s.projects)}
             /\ SelectedValues(v, "networks") = {Keys(s.networks)}
             /\ SelectedValues(v, "pools") = {Keys(s.pools)}
             /\ SelectedValues(v, "vms") = {s.vms}
             /\ SelectedValues(v, "services") = {s.services}
             /\ SelectedValues(v, "filesystems") =
                  {{s.fs[i].key : i \in {j \in DOMAIN s.fs : s.fs[j].type # "zfs"}}}
<1> DEFINE v == UntouchedForm(BuildInventory(s), o)
<1>1. DOMAIN v = Fields
  BY DEF UntouchedForm
<1>2. \A f \in ResourceFields : v[f] = BuildInventory(s)[f]
  BY FreshForm
<1> HIDE DEF v
<1>3. \A f \in ResourceFields \ {"raids"} : SelectedValues(v, f) = {BuildInventory(s)[f]}
  BY <1>1, <1>2 DEF SelectedValues, Fields
<1>4. SelectedValues(v, "raids") \in {{}, {BuildInventory(s)["raids"]}}
  BY <1>1, <1>2 DEF SelectedValues, Fields, ResourceFields
<1>5. /\ BuildInventory(s)["disks"] = Keys(s.disk) /\ BuildInventory(s)["raids"] = Keys(s.raid)
      /\ BuildInventory(s)["containers"] = Keys(s.compose)
      /\ BuildInventory(s)["projects"] = Keys(s.projects)
      /\ BuildInventory(s)["networks"] = Keys(s.networks)
      /\ BuildInventory(s)["pools"] = Keys(s.pools)
      /\ BuildInventory(s)["vms"] = s.vms /\ BuildInventory(s)["services"] = s.services
      /\ BuildInventory(s)["filesystems"] =
           {s.fs[i].key : i \in {j \in DOMAIN s.fs : s.fs[j].type # "zfs"}}
  BY DEF BuildInventory
<1>6. QED
  BY <1>3, <1>4, <1>5 DEF v, ResourceFields

\* NotOffered, of any data.
Hides(s) ==
  \/ \E d \in ToSet(s.disk) : d.israid /\ d.key \notin Keys(s.raid)
  \/ \E f \in ToSet(s.fs), d \in ToSet(s.disk) : f.type = "zfs" /\ d.israid /\ d.key = f.disk
  \/ \E d \in ToSet(s.datasets) : d.pool \notin Keys(s.pools)

LEMMA EverythingSelected ==
  ASSUME NEW s, OffersAll(s), ~ Hides(s), NEW o, DOMAIN o \cap ResourceFields = {}
  PROVE  ShowsAll(s, UntouchedForm(BuildInventory(s), o))
<1> DEFINE v == UntouchedForm(BuildInventory(s), o)
<1>1. /\ SelectedValues(v, "disks") = {Keys(s.disk)}
      /\ SelectedValues(v, "raids") \in {{}, {Keys(s.raid)}}
      /\ SelectedValues(v, "containers") = {Keys(s.compose)}
      /\ SelectedValues(v, "projects") = {Keys(s.projects)}
      /\ SelectedValues(v, "networks") = {Keys(s.networks)}
      /\ SelectedValues(v, "pools") = {Keys(s.pools)}
      /\ SelectedValues(v, "vms") = {s.vms}
      /\ SelectedValues(v, "services") = {s.services}
  BY FreshSelection
<1> HIDE DEF v
<1>2. \A x, S : x \in S => Passes(x, {S}) /\ Passes(x, {})
  BY DEF Passes
<1>3. ASSUME NEW i \in DOMAIN s.disk
      PROVE  Passes(s.disk[i].key, SelectedValues(v,
               IF s.disk[i].israid \/ s.disk[i].logical THEN "raids" ELSE "disks"))
  <2>1. CASE s.disk[i].israid \/ s.disk[i].logical
    <3>1. s.disk[i].israid
      BY <2>1 DEF OffersAll
    <3>2. s.disk[i] \in ToSet(s.disk)
      BY DEF ToSet
    <3>3. s.disk[i].key \in Keys(s.raid)
      BY <3>1, <3>2 DEF Hides
    <3>4. Passes(s.disk[i].key, {Keys(s.raid)}) /\ Passes(s.disk[i].key, {})
      BY <1>2, <3>3
    <3>5. SelectedValues(v, "raids") = {} \/ SelectedValues(v, "raids") = {Keys(s.raid)}
      BY <1>1
    <3>6. Passes(s.disk[i].key, SelectedValues(v, "raids"))
      BY <3>4, <3>5
    <3>7. QED
      BY <2>1, <3>6
  <2>2. CASE ~ (s.disk[i].israid \/ s.disk[i].logical)
    <3>1. s.disk[i].key \in Keys(s.disk)
      BY DEF Keys
    <3>2. QED
      BY <1>1, <1>2, <2>2, <3>1
  <2>3. QED
    BY <2>1, <2>2
<1>4. ShownDisks(s.disk, v) = DOMAIN s.disk
  BY <1>3 DEF ShownDisks
<1>5. ShownCompose(s.compose, v) = DOMAIN s.compose
  <2>1. ASSUME NEW i \in DOMAIN s.compose
        PROVE  ComposeSelected(s.compose[i], SelectedValues(v, "containers"),
                               SelectedValues(v, "projects"))
    <3>1. s.compose[i].key \in Keys(s.compose)
      BY DEF Keys
    <3>2. s.compose[i].project \in Keys(s.projects) \cup {NoProject}
      BY DEF OffersAll
    <3>3. QED
      BY <1>1, <3>1, <3>2 DEF ComposeSelected
  <2>2. QED
    BY <2>1 DEF ShownCompose
<1>6. ASSUME NEW t, NEW f, SelectedValues(v, f) \in {{}, {Keys(t)}}
      PROVE  Shown(t, f, v) = DOMAIN t
  <2>1. ASSUME NEW i \in DOMAIN t
        PROVE  Passes(t[i].key, SelectedValues(v, f))
    <3>1. t[i].key \in Keys(t)
      BY DEF Keys
    <3>2. Passes(t[i].key, {Keys(t)}) /\ Passes(t[i].key, {})
      BY <1>2, <3>1
    <3>3. SelectedValues(v, f) = {} \/ SelectedValues(v, f) = {Keys(t)}
      BY <1>6
    <3>4. QED
      BY <3>2, <3>3
  <2>2. QED
    BY <2>1 DEF Shown
<1>7. /\ Shown(s.networks, "networks", v) = DOMAIN s.networks
      /\ Shown(s.raid, "raids", v) = DOMAIN s.raid
      /\ Shown(s.pools, "pools", v) = DOMAIN s.pools
      /\ Shown(s.projects, "projects", v) = DOMAIN s.projects
  BY <1>1, <1>6
<1>8. OfShownPools(s.datasets, v) = DOMAIN s.datasets
  <2>1. ASSUME NEW i \in DOMAIN s.datasets
        PROVE  Passes(s.datasets[i].pool, SelectedValues(v, "pools"))
    <3>1. s.datasets[i] \in ToSet(s.datasets)
      BY DEF ToSet
    <3>2. s.datasets[i].pool \in Keys(s.pools)
      BY <3>1 DEF Hides
    <3>3. QED
      BY <1>1, <1>2, <3>2
  <2>2. QED
    BY <2>1 DEF OfShownPools
<1>9. /\ \A x \in s.vms : Passes(x, SelectedValues(v, "vms"))
      /\ \A x \in s.services : Passes(x, SelectedValues(v, "services"))
  BY <1>1, <1>2
<1>10. ShowsAll(s, v)
  BY <1>4, <1>5, <1>7, <1>8, <1>9 DEF ShowsAll
<1>11. QED
  BY <1>10 DEF v

LEMMA AllIsTheSame ==
  ASSUME NEW s, NEW o, NEW v, ShowsAll(s, o), ShowsAll(s, v)
  PROVE  ShowTheSame(s, o, v)
  BY DEF ShowsAll, ShowTheSame

LEMMA SameSmallSelections ==
  ASSUME NEW inventory, NEW o, ResourceFields \subseteq DOMAIN o, NEW f \in ResourceFields
  PROVE  SelectedValues(UntouchedForm(inventory, o), f) = SelectedValues(o, f)
<1> DEFINE v == UntouchedForm(inventory, o)
<1>1. f \in DOMAIN o /\ f \in Fields
  BY DEF Fields
<1>2. DOMAIN v = Fields /\ v[f] = o[f]
  BY <1>1 DEF UntouchedForm, DefaultSelection
<1> HIDE DEF v
<1>3. SelectedValues(v, f) = SelectedValues(o, f)
  BY <1>1, <1>2 DEF SelectedValues
<1>4. QED
  BY <1>3 DEF v

\* The places S leave out ZFS filesystems at most.
KeepsPlain(s, S) == S \subseteq DOMAIN s.fs /\ \A i \in DOMAIN s.fs : s.fs[i].type # "zfs" => i \in S

LEMMA PlainCovered ==
  ASSUME NEW s, s.fs \in Seq(Filesystems), NEW S, KeepsPlain(s, S), NEW V, KeepsPlain(s, V),
         NEW d, d.fs = At(s.fs, S), NEW u, u.fs = At(s.fs, V)
  PROVE  \A i \in DOMAIN PlainOnes(d) : \E j \in DOMAIN PlainOnes(u) :
           PlainOnes(u)[j].key = PlainOnes(d)[i].key
<1> DEFINE p == {i \in DOMAIN d.fs : Plain(d.fs[i])}
           q == {i \in DOMAIN u.fs : Plain(u.fs[i])}
<1>1. /\ S \subseteq DOMAIN s.fs /\ V \subseteq DOMAIN s.fs
      /\ \A i \in DOMAIN s.fs : s.fs[i].type # "zfs" => i \in V
  BY DEF KeepsPlain
<1>2. /\ d.fs \in Seq(Filesystems) /\ Picks(s.fs, S, d.fs)
      /\ u.fs \in Seq(Filesystems) /\ Picks(s.fs, V, u.fs)
  <2>1. At(s.fs, S) \in Seq(Filesystems) /\ Picks(s.fs, S, At(s.fs, S))
    BY <1>1, Picked
  <2>2. At(s.fs, V) \in Seq(Filesystems) /\ Picks(s.fs, V, At(s.fs, V))
    BY <1>1, Picked
  <2>3. QED
    BY <2>1, <2>2
<1>3. PlainOnes(d) = At(d.fs, p) /\ PlainOnes(u) = At(u.fs, q)
  BY DEF PlainOnes, Where
<1>4. /\ p \subseteq DOMAIN d.fs /\ \A i \in p : d.fs[i].type # "zfs"
      /\ q \subseteq DOMAIN u.fs /\ \A i \in DOMAIN u.fs : u.fs[i].type # "zfs" => i \in q
  BY DEF Plain
<1> HIDE DEF p, q
<1>5. Picks(d.fs, p, At(d.fs, p))
  BY <1>2, <1>4, Picked
<1>6. Picks(u.fs, q, At(u.fs, q))
  BY <1>2, <1>4, Picked
<1>7. SUFFICES ASSUME NEW i \in DOMAIN At(d.fs, p)
               PROVE  \E j \in DOMAIN At(u.fs, q) : At(u.fs, q)[j] = At(d.fs, p)[i]
  BY <1>3
<1>8. PICK k \in p : At(d.fs, p)[i] = d.fs[k]
  BY <1>5 DEF Picks
<1>9. PICK l \in S : d.fs[k] = s.fs[l]
  BY <1>2, <1>4, <1>8 DEF Picks
<1>10. l \in V
  BY <1>1, <1>4, <1>8, <1>9
<1>11. PICK m \in DOMAIN u.fs : u.fs[m] = s.fs[l]
  BY <1>2, <1>10 DEF Picks
<1>12. m \in q
  BY <1>4, <1>8, <1>9, <1>11
<1>13. PICK j \in DOMAIN At(u.fs, q) : At(u.fs, q)[j] = u.fs[m]
  BY <1>6, <1>12 DEF Picks
<1>14. QED
  BY <1>8, <1>9, <1>11, <1>13

\* No array loses the filesystem that its metrics come from.
LEMMA BackingCovered ==
  ASSUME NEW s, s.fs \in Seq(Filesystems), NEW S, KeepsPlain(s, S), NEW V, KeepsPlain(s, V),
         NEW d, d.fs = At(s.fs, S), NEW u, u.fs = At(s.fs, V),
         NEW disk \in ToSet(s.disk), disk.israid, ~ Hides(s), DiskHasBackingFilesystem(d, disk)
  PROVE  DiskHasBackingFilesystem(u, disk)
<1>1. /\ S \subseteq DOMAIN s.fs /\ V \subseteq DOMAIN s.fs
      /\ \A i \in DOMAIN s.fs : s.fs[i].type # "zfs" => i \in V
  BY DEF KeepsPlain
<1>2. Picks(s.fs, S, d.fs)
  BY <1>1, Picked
<1>3. Picks(s.fs, V, u.fs)
  BY <1>1, Picked
<1>4. PICK i \in DOMAIN d.fs : d.fs[i].disk = disk.key
  BY DEF DiskHasBackingFilesystem
<1>5. PICK l \in S : d.fs[i] = s.fs[l]
  BY <1>2 DEF Picks
<1>6. s.fs[l].type # "zfs"
  <2>1. s.fs[l] \in ToSet(s.fs)
    BY <1>1 DEF ToSet
  <2>2. QED
    BY <1>4, <1>5, <2>1 DEF Hides
<1>7. PICK m \in DOMAIN u.fs : u.fs[m] = s.fs[l]
  BY <1>1, <1>3, <1>6 DEF Picks
<1>8. QED
  BY <1>4, <1>5, <1>7 DEF DiskHasBackingFilesystem

LEMMA FilteredCovers ==
  ASSUME NEW s, OffersAll(s), ~ Hides(s), NEW o, NEW v, ShowTheSame(s, o, v),
         NEW d, IsFiltered(s, o, d), NEW u, IsFiltered(s, v, u),
         KeepsPlain(s, Shown(s.fs, "filesystems", o)), KeepsPlain(s, Shown(s.fs, "filesystems", v))
  PROVE  Covers(d, u)
<1> DEFINE S == Shown(s.fs, "filesystems", o)
           V == Shown(s.fs, "filesystems", v)
<1>1. s.fs \in Seq(Filesystems) /\ d.fs = At(s.fs, S) /\ u.fs = At(s.fs, V)
  BY DEF OffersAll, IsFiltered
<1>2. KeepsPlain(s, S) /\ KeepsPlain(s, V)
  OBVIOUS
<1> HIDE DEF S, V
<1>3. \A i \in DOMAIN PlainOnes(d) : \E j \in DOMAIN PlainOnes(u) :
        PlainOnes(u)[j].key = PlainOnes(d)[i].key
  BY <1>1, <1>2, PlainCovered
<1>4. SameButFilesystems(d, u)
  BY FilteredTheSame
<1>5. \A i \in DOMAIN d.disk : d.disk[i] \in ToSet(s.disk)
  <2>1. d.disk = At(s.disk, ShownDisks(s.disk, o))
    BY DEF IsFiltered, FilterDisks, Where, ShownDisks
  <2>2. ShownDisks(s.disk, o) \subseteq DOMAIN s.disk
    BY DEF ShownDisks
  <2>3. PICK T : s.disk \in Seq(T)
    BY DEF OffersAll
  <2>4. Picks(s.disk, ShownDisks(s.disk, o), d.disk)
    BY <2>1, <2>2, <2>3, Picked
  <2>5. QED
    BY <2>2, <2>4 DEF Picks, ToSet
<1>6. ASSUME NEW i \in DOMAIN d.disk
      PROVE  DiskKinds(d, d.disk[i]) \subseteq DiskKinds(u, d.disk[i])
  <2> DEFINE disk == d.disk[i]
  <2>1. disk \in ToSet(s.disk) /\ (disk.logical => disk.israid)
    BY <1>5 DEF OffersAll, ToSet
  <2> HIDE DEF disk
  <2>2. DiskMetrics(d, disk) \subseteq DiskMetrics(u, disk)
    <3>1. CASE ~ disk.israid
      BY <2>1, <3>1 DEF DiskMetrics
    <3>2. CASE disk.israid
      <4>1. DiskHasBackingFilesystem(u, disk) => DiskHasBackingFilesystem(d, disk)
        BY <1>1, <1>2, <2>1, <3>2, BackingCovered
      <4>2. QED
        BY <4>1 DEF DiskMetrics
    <3>3. QED
      BY <3>1, <3>2
  <2>3. DiskKinds(d, disk) \subseteq DiskKinds(u, disk)
    BY <2>2 DEF DiskKinds
  <2>4. QED
    BY <2>3 DEF disk
<1>7. QED
  BY <1>3, <1>4, <1>6 DEF Covers, SameButFilesystems

\* With the same filesystems there is nothing to lose.
LEMMA SameFilesystemsCover ==
  ASSUME NEW d, NEW u, SameButFilesystems(d, u), u.fs = d.fs
  PROVE  Covers(d, u)
<1>1. PlainOnes(u) = PlainOnes(d)
  BY DEF PlainOnes, Where
<1>2. \A disk : DiskHasBackingFilesystem(u, disk) <=> DiskHasBackingFilesystem(d, disk)
  BY DEF DiskHasBackingFilesystem
<1>3. \A disk : DiskKinds(d, disk) = DiskKinds(u, disk)
  BY <1>2 DEF DiskKinds, DiskMetrics
<1>4. QED
  BY <1>1, <1>3 DEF Covers, SameButFilesystems

LEMMA CoveredBothWays ==
  ASSUME NEW d, NEW u, Covers(d, u), Covers(u, d), NEW cron
  PROVE  {e.id : e \in Created(u, cron)} = {e.id : e \in Created(d, cron)}
<1>1. \A e \in Created(d, cron) : \E f \in Created(u, cron) : f.id = e.id
  BY CoversIds
<1>2. \A e \in Created(u, cron) : \E f \in Created(d, cron) : f.id = e.id
  BY CoversIds
<1>3. QED
  BY <1>1, <1>2

LEMMA ServedUntouched == ServedInv => UntouchedFormKeepsAll
<1> DEFINE v == UntouchedForm(BuildInventory(source), options)
           u == FilterDataBySelection(source, v)
<1>1. SUFFICES ASSUME ServedInv, Loaded, ~ NotOffered,
                      DOMAIN options \cap ResourceFields \in {{}, ResourceFields}
               PROVE  {e.id : e \in Created(u, CronSelection)} = {e.id : e \in Created(data, CronSelection)}
  BY DEF UntouchedFormKeepsAll, LiveInventory, Loaded
<1>2. IsAnswer(polled) /\ KeepsNamesApart(polled)
  BY <1>1, AppliancesAssumption DEF ServedInv
<1>3. source = NormalizeInventory(polled, options) /\ data = FilterDataBySelection(source, options)
  BY <1>1 DEF ServedInv, Served
<1>4. OffersAll(source)
  BY <1>2, <1>3, PollOffersAll
<1>5. ~ Hides(source)
  BY <1>1 DEF Hides, NotOffered
<1>6. source = [f \in Parts |-> source[f]]
  BY <1>3, InventoryParts
<1>7. IsFiltered(source, options, data)
  BY <1>3, <1>6, Filtered
<1>8. IsFiltered(source, v, u)
  BY <1>6, Filtered
<1> HIDE DEF u
<1>9. CASE DOMAIN options \cap ResourceFields = ResourceFields
  <2>1. \A f \in ResourceFields : SelectedValues(options, f) = SelectedValues(v, f)
    BY <1>9, SameSmallSelections
  <2> HIDE DEF v
  <2>2. /\ ShowTheSame(source, options, v)
        /\ Shown(source.fs, "filesystems", options) = Shown(source.fs, "filesystems", v)
    BY <2>1, SameSelections
  <2>3. SameButFilesystems(data, u)
    BY <1>7, <1>8, <2>2, FilteredTheSame
  <2>4. u.fs = data.fs
    BY <1>7, <1>8, <2>2 DEF IsFiltered
  <2>5. SameButFilesystems(u, data)
    BY <2>3 DEF SameButFilesystems
  <2>6. QED
    BY <2>3, <2>4, <2>5, SameFilesystemsCover, CoveredBothWays
<1>10. CASE DOMAIN options \cap ResourceFields = {}
  <2>1. ShowsAll(source, options) /\ Shown(source.fs, "filesystems", options) = DOMAIN source.fs
    BY <1>10, NothingSelected
  <2>2. ShowsAll(source, v)
    BY <1>4, <1>5, <1>10, EverythingSelected
  <2>3. SelectedValues(v, "filesystems") =
          {{source.fs[i].key : i \in {j \in DOMAIN source.fs : source.fs[j].type # "zfs"}}}
    BY <1>10, FreshSelection
  <2> HIDE DEF v
  <2>4. KeepsPlain(source, Shown(source.fs, "filesystems", options))
    BY <2>1 DEF KeepsPlain
  <2>5. KeepsPlain(source, Shown(source.fs, "filesystems", v))
    BY <2>3 DEF KeepsPlain, Shown, Passes
  <2>6. ShowTheSame(source, options, v) /\ ShowTheSame(source, v, options)
    BY <2>1, <2>2, AllIsTheSame
  <2>7. Covers(data, u)
    BY <1>4, <1>5, <1>7, <1>8, <2>4, <2>5, <2>6, FilteredCovers
  <2>8. Covers(u, data)
    BY <1>4, <1>5, <1>7, <1>8, <2>4, <2>5, <2>6, FilteredCovers
  <2>9. QED
    BY <2>7, <2>8, CoveredBothWays
<1>11. QED
  BY <1>1, <1>9, <1>10

\* An untouched form changes nothing that is shown.
THEOREM UntouchedFormsAreHarmless == Spec => []UntouchedFormKeepsAll
  BY ServedAlways, ServedUntouched, PTL

-----------------------------------------------------------------------------
(* UpgradeKeepsUnselected.                                                 *)

\* The entity of a container is the container's device's; the hub's have kinds
\* of their own, of which nothing is known.
ContainersOwn(entries) ==
  \A e \in entries :
    /\ e = [id |-> e.id, device |-> e.device, custom |-> e.custom]
    /\ e.id[1] \in ContainerKinds =>
        e.device = Hub \/ \E key : e.id = <<e.id[1], key>> /\ e.device = ContainerDevice(key)

LEMMA ContainerDevices ==
  /\ \A m, n : ContainerDevice(m) = ContainerDevice(n) => m = n
  /\ \A m : ContainerDevice(m) # Hub
<1>1. \A m, n : <<"container", m>> = <<"container", n>> => m = n
  OBVIOUS
<1>2. \A m : <<"container", m>> # <<"hub">>
  OBVIOUS
<1>3. QED
  BY <1>1, <1>2 DEF ContainerDevice, Hub

LEMMA DockerIdsDiffer ==
  ASSUME NEW m \in Names, NEW n \in Names, DockerId(m) = DockerId(n)
  PROVE  m = n
<1> DEFINE S == STRING \cup {"id"}
<1>1. <<"id">> \in Seq(S) /\ m \in Seq(S) /\ n \in Seq(S)
  <2>1. \A i \in DOMAIN m : m[i] \in S
    BY ElementOfSeq, LenProperties DEF Names
  <2>2. \A i \in DOMAIN n : n[i] \in S
    BY ElementOfSeq, LenProperties DEF Names
  <2>3. m \in Seq(S)
    BY <2>1, LenProperties, SeqDef DEF Names
  <2>4. n \in Seq(S)
    BY <2>2, LenProperties, SeqDef DEF Names
  <2>5. <<"id">> \in Seq(S)
    OBVIOUS
  <2>6. QED
    BY <2>3, <2>4, <2>5
<1> HIDE DEF S
<1>2. <<"id">> \o m = <<"id">> \o n
  BY DEF DockerId
<1>3. QED
  BY <1>1, <1>2, ConcatSimplifications

LEMMA LegacyOwn ==
  ASSUME NEW a
  PROVE  ContainersOwn(LegacyEntries(a))
<1> DEFINE LegacyIds(c) ==
             {<<kind, DockerId(c.name)>> : kind \in ContainerKinds}
               \cup {<<"container_volume_size", <<DockerId(c.name), v>>>> : v \in ToSet(c.mounts)}
<1>1. SUFFICES ASSUME NEW e \in LegacyEntries(a)
               PROVE  /\ e = [id |-> e.id, device |-> e.device, custom |-> e.custom]
                      /\ e.id[1] \in ContainerKinds =>
                           \E key : e.id = <<e.id[1], key>> /\ e.device = ContainerDevice(key)
  BY DEF ContainersOwn
<1>2. PICK c \in ToSet(a.containers) : \E id \in LegacyIds(c) :
        e = [id |-> id, device |-> ContainerDevice(DockerId(c.name)), custom |-> TRUE]
  BY <1>1 DEF LegacyEntries
<1>3. PICK id \in LegacyIds(c) :
        e = [id |-> id, device |-> ContainerDevice(DockerId(c.name)), custom |-> TRUE]
  BY <1>2
<1>4. e.id = id /\ e.device = ContainerDevice(DockerId(c.name)) /\ e.custom = TRUE
  BY <1>3
<1>5. CASE \E kind \in ContainerKinds : id = <<kind, DockerId(c.name)>>
  <2>1. PICK kind \in ContainerKinds : id = <<kind, DockerId(c.name)>>
    BY <1>5
  <2>2. e.id[1] = kind
    BY <1>4, <2>1
  <2>3. QED
    BY <1>3, <1>4, <2>1, <2>2
<1>6. CASE \E v : id = <<"container_volume_size", <<DockerId(c.name), v>>>>
  <2>1. PICK v : id = <<"container_volume_size", <<DockerId(c.name), v>>>>
    BY <1>6
  <2>2. e.id[1] = "container_volume_size"
    BY <1>4, <2>1
  <2>3. QED
    BY <1>3, <1>4, <2>2 DEF ContainerKinds
<1>7. QED
  BY <1>5, <1>6

\* The migration of one entry.
LEMMA MigratedOne ==
  ASSUME NEW e, e = [id |-> e.id, device |-> e.device, custom |-> e.custom], NEW names
  PROVE  LET f == MigratedEntry(e, names)
             of == {n \in names : e.device = ContainerDevice(DockerId(n))}
         IN  /\ of = {} => f = e
             /\ of # {} => \E n \in of :
                  f = [id |-> IF e.id[2] = DockerId(n) THEN <<e.id[1], n>> ELSE e.id,
                       device |-> ContainerDevice(n), custom |-> e.custom]
<1> DEFINE f == MigratedEntry(e, names)
           of == {n \in names : e.device = ContainerDevice(DockerId(n))}
<1>1. CASE of = {}
  <2>1. f = e
    BY <1>1 DEF MigratedEntry
  <2>2. QED
    BY <1>1, <2>1
<1>2. CASE of # {}
  <2>1. PICK n \in of : n = CHOOSE m \in of : TRUE
    BY <1>2
  <2>2. f = [e EXCEPT !.id = IF @[2] = DockerId(n) THEN <<@[1], n>> ELSE @,
                      !.device = ContainerDevice(n)]
    BY <1>2, <2>1 DEF MigratedEntry
  <2>3. f = [[e EXCEPT !.id = IF @[2] = DockerId(n) THEN <<@[1], n>> ELSE @]
               EXCEPT !.device = ContainerDevice(n)]
    BY <2>2
  <2>4. f = [id |-> IF e.id[2] = DockerId(n) THEN <<e.id[1], n>> ELSE e.id,
             device |-> ContainerDevice(n), custom |-> e.custom]
    <3> DEFINE i == IF e.id[2] = DockerId(n) THEN <<e.id[1], n>> ELSE e.id
               g == [id |-> i, device |-> e.device, custom |-> e.custom]
    <3>1. [e EXCEPT !.id = i] = g
      OBVIOUS
    <3>2. f = [g EXCEPT !.device = ContainerDevice(n)]
      BY <2>3, <3>1
    <3> HIDE DEF i
    <3>3. f = [id |-> i, device |-> ContainerDevice(n), custom |-> e.custom]
      BY <3>2
    <3>4. QED
      BY <3>3 DEF i
  <2>5. QED
    BY <1>2, <2>1, <2>4
<1>3. QED
  BY <1>1, <1>2

LEMMA MigratedOwn ==
  ASSUME NEW entries, ContainersOwn(entries), NEW d
  PROVE  ContainersOwn(Migrated(entries, d))
<1> DEFINE names == Keys(d.compose)
<1>1. Migrated(entries, d) = {MigratedEntry(e, names) : e \in entries}
  BY DEF Migrated
<1> HIDE DEF names
<1>2. ASSUME NEW e \in entries, NEW f, f = MigratedEntry(e, names)
      PROVE  /\ f = [id |-> f.id, device |-> f.device, custom |-> f.custom]
             /\ f.id[1] \in ContainerKinds =>
                  f.device = Hub \/ \E key : f.id = <<f.id[1], key>> /\ f.device = ContainerDevice(key)
  <2> DEFINE of == {n \in names : e.device = ContainerDevice(DockerId(n))}
  <2>1. e = [id |-> e.id, device |-> e.device, custom |-> e.custom]
    BY DEF ContainersOwn
  <2>2. CASE of = {}
    BY <1>2, <2>1, <2>2, MigratedOne DEF ContainersOwn
  <2>3. CASE of # {}
    <3>1. PICK n \in of :
            f = [id |-> IF e.id[2] = DockerId(n) THEN <<e.id[1], n>> ELSE e.id,
                 device |-> ContainerDevice(n), custom |-> e.custom]
      BY <1>2, <2>1, <2>3, MigratedOne
    <3>2. e.device = ContainerDevice(DockerId(n))
      OBVIOUS
    <3>3. /\ f.id = IF e.id[2] = DockerId(n) THEN <<e.id[1], n>> ELSE e.id
          /\ f.device = ContainerDevice(n) /\ f.custom = e.custom
      BY <3>1
    <3>4. f = [id |-> f.id, device |-> f.device, custom |-> f.custom]
      BY <3>1, <3>3
    <3>5. f.id[1] = e.id[1]
      BY <3>3
    <3>6. ASSUME f.id[1] \in ContainerKinds
          PROVE  f.id = <<f.id[1], n>>
      <4>1. PICK key : e.id = <<e.id[1], key>> /\ e.device = ContainerDevice(key)
        BY <3>2, <3>5, <3>6, ContainerDevices DEF ContainersOwn
      <4>2. key = DockerId(n)
        BY <3>2, <4>1, ContainerDevices
      <4>3. e.id[2] = DockerId(n)
        BY <4>1, <4>2
      <4>4. QED
        BY <3>3, <3>5, <4>3
    <3>7. QED
      BY <3>3, <3>4, <3>6
  <2>4. QED
    BY <2>2, <2>3
<1>3. QED
  BY <1>1, <1>2 DEF ContainersOwn

\* The entities that are created for containers.
LEMMA CreatedOwn ==
  ASSUME NEW d, Shape(d), NEW cron, NEW e \in Created(d, cron), e.id[1] \in ContainerKinds
  PROVE  e.device = Hub \/ \E key : e.id = <<e.id[1], key>> /\ e.device = ContainerDevice(key)
<1>1. Classified(d, e)
  BY CreatedClassified
<1>2. \A kind, key : <<kind, key>>[1] = kind
  OBVIOUS
<1>3. CASE OfHubClass(e)
  BY <1>3, EntityFields DEF OfHubClass
<1>4. CASE OfContainer(d, e)
  <2>1. PICK i \in DOMAIN d.compose : \E kind \in ContainerClass :
          From(d.compose, i, kind, ContainerDevice(d.compose[i].key), e)
    BY <1>4 DEF OfContainer
  <2>2. PICK kind : e.id = <<kind, d.compose[i].key>> /\ e.device = ContainerDevice(d.compose[i].key)
    BY <2>1, EntityFields DEF From
  <2>3. e.id[1] = kind
    BY <2>2
  <2>4. QED
    BY <2>2, <2>3
<1>5. CASE \E kind, key : e.id = <<kind, key>> /\ kind \notin ContainerKinds
  BY <1>2, <1>5
<1>6. ASSUME ~ OfHubClass(e), ~ OfContainer(d, e)
      PROVE  \E kind, key : e.id = <<kind, key>> /\ kind \notin ContainerKinds
  <2>1. CASE OfDisk(d, e)
    BY <2>1, EntityFields DEF OfDisk, From, DiskClass, ContainerKinds
  <2>2. CASE OfProject(d, e)
    BY <2>2, EntityFields DEF OfProject, From, ProjectClass, ContainerKinds
  <2>3. CASE OfVolume(d, e)
    BY <2>3, EntityFields DEF OfVolume, From, ContainerKinds
  <2>4. CASE OfPool(d, e)
    BY <2>4, EntityFields DEF OfPool, From, PoolClass, PoolValues, ContainerKinds
  <2>5. CASE OfScrub(d, e)
    BY <2>5, EntityFields DEF OfScrub, From, ScrubClass, ContainerKinds
  <2>6. CASE OfMachine(e)
    BY <2>6, EntityFields DEF OfMachine, MachineClass, ContainerKinds
  <2>7. CASE OfKey(e)
    BY <2>7, EntityFields DEF OfKey, KeyClass, ContainerKinds
  <2>8. CASE OfFilesystem(d, e)
    BY <2>8, EntityFields DEF OfFilesystem, From, ContainerKinds
  <2>9. CASE OfNetwork(d, e)
    BY <2>9, EntityFields DEF OfNetwork, From, ContainerKinds
  <2>10. CASE OfRaid(d, e)
    BY <2>10, EntityFields DEF OfRaid, From, ContainerKinds
  <2>11. CASE OfDataset(d, e)
    BY <2>11, EntityFields DEF OfDataset, From, ContainerKinds
  <2>12. QED
    BY <1>1, <1>6, <2>1, <2>2, <2>3, <2>4, <2>5, <2>6, <2>7, <2>8, <2>9, <2>10, <2>11
       DEF Classified
<1>7. QED
  BY <1>3, <1>4, <1>5, <1>6

\* What a setup adds: an entry that was there keeps what the user set.
LEMMA AddedEntries ==
  ASSUME NEW entries, NEW created
  PROVE  /\ \A e \in Added(entries, created) :
              \/ e \in entries
              \/ \E c \in created : /\ e.id = c.id /\ e.device = c.device
                                   /\ e = [id |-> e.id, device |-> e.device, custom |-> e.custom]
         /\ \A e \in entries, c \in created : e.id = c.id /\ e.custom =>
              \E f \in Added(entries, created) : f.id = c.id /\ f.device = c.device /\ f.custom
<1> DEFINE ids == {c.id : c \in created}
           custom == {e.id : e \in {f \in entries : f.custom}}
           New(c) == [id |-> c.id, device |-> c.device, custom |-> c.id \in custom]
<1>1. Added(entries, created) = {e \in entries : e.id \notin ids} \cup {New(c) : c \in created}
  BY DEF Added
<1>2. \A e \in entries : e.custom => e.id \in custom
  OBVIOUS
<1> HIDE DEF custom
<1>3. \A c : /\ New(c).id = c.id /\ New(c).device = c.device /\ New(c).custom = (c.id \in custom)
             /\ New(c) = [id |-> New(c).id, device |-> New(c).device, custom |-> New(c).custom]
  OBVIOUS
<1> HIDE DEF New
<1> HIDE DEF ids
<1>4. \A e \in Added(entries, created) : e \in entries \/ \E c \in created : e = New(c)
  BY <1>1
<1>5. \A c \in created : New(c) \in Added(entries, created)
  BY <1>1
<1>6. ASSUME NEW e \in entries, NEW c \in created, e.id = c.id, e.custom
      PROVE  \E f \in Added(entries, created) : f.id = c.id /\ f.device = c.device /\ f.custom
  <2>1. c.id \in custom
    BY <1>2, <1>6
  <2>2. New(c).custom = TRUE
    BY <1>3, <2>1
  <2>3. QED
    BY <1>3, <1>5, <2>2
<1>7. \A e \in Added(entries, created) :
        \/ e \in entries
        \/ \E c \in created : /\ e.id = c.id /\ e.device = c.device
                             /\ e = [id |-> e.id, device |-> e.device, custom |-> e.custom]
  BY <1>3, <1>4
<1>8. QED
  BY <1>6, <1>7

LEMMA RegisteredOwn ==
  ASSUME NEW d, Shape(d), NEW cron, ContainersOwn(registered)
  PROVE  ContainersOwn(RegisteredBySetup(d, cron))
<1> DEFINE migrated == Migrated(registered, d)
           kept == CleanedUp(migrated, d, cron)
<1>1. ContainersOwn(migrated)
  BY MigratedOwn
<1> HIDE DEF migrated
<1>2. kept \subseteq migrated
  BY DEF CleanedUp
<1>3. RegisteredBySetup(d, cron) = Added(kept, Created(d, cron))
  BY DEF RegisteredBySetup, migrated
<1> HIDE DEF kept
<1>4. ASSUME NEW e \in Added(kept, Created(d, cron))
      PROVE  /\ e = [id |-> e.id, device |-> e.device, custom |-> e.custom]
             /\ e.id[1] \in ContainerKinds =>
                  e.device = Hub \/ \E key : e.id = <<e.id[1], key>> /\ e.device = ContainerDevice(key)
  <2>1. CASE e \in kept
    BY <1>1, <1>2, <2>1 DEF ContainersOwn
  <2>2. CASE e \notin kept
    <3>1. PICK c \in Created(d, cron) :
            /\ e.id = c.id /\ e.device = c.device
            /\ e = [id |-> e.id, device |-> e.device, custom |-> e.custom]
      BY <2>2, AddedEntries
    <3>2. QED
      BY <3>1, CreatedOwn
  <2>3. QED
    BY <2>1, <2>2
<1>5. QED
  BY <1>3, <1>4 DEF ContainersOwn

\* Nothing is selected of containers and projects: each that is listed is shown.
LEMMA AllContainersShown ==
  ASSUME NEW a, IsAnswer(a), NEW o, DOMAIN o \cap {"containers", "projects"} = {}
  PROVE  LET d == FilterDataBySelection(NormalizeInventory(a, o), o)
         IN  /\ Keys(d.compose) \subseteq Names
             /\ \A c \in ToSet(a.containers) : \E j \in DOMAIN d.compose : d.compose[j].key = c.name
<1> DEFINE s == NormalizeInventory(a, o)
           d == FilterDataBySelection(s, o)
           linked == Linked(a, o)
           in == {i \in DOMAIN linked :
                    ComposeSelected(linked[i], SelectedValues(o, "containers"),
                                    SelectedValues(o, "projects"))}
<1>1. s.compose = linked
  BY SourceCompose
<1>2. s = [f \in Parts |-> s[f]]
  BY InventoryParts
<1>3. IsFiltered(s, o, d)
  BY <1>2, Filtered
<1> HIDE DEF s
<1> HIDE DEF d
<1>4. d.compose = At(linked, in)
  BY <1>1, <1>3 DEF IsFiltered, FilterCompose, Where
<1>5. SelectedValues(o, "containers") = {} /\ SelectedValues(o, "projects") = {}
  BY DEF SelectedValues
<1>6. in = DOMAIN linked
  BY <1>5 DEF ComposeSelected
<1>7. AsListed(a, linked)
  BY ComposeOfPoll
<1>8. PICK T : linked \in Seq(T)
  BY ComposeOfPoll
<1> HIDE DEF linked
<1>9. DOMAIN linked \subseteq DOMAIN linked
  OBVIOUS
<1>10. Picks(linked, DOMAIN linked, At(linked, DOMAIN linked))
  BY <1>8, <1>9, Picked
<1>11. Picks(linked, DOMAIN linked, d.compose)
  BY <1>4, <1>6, <1>10
<1>12. \A i \in DOMAIN a.containers : a.containers[i].name \in Names
  <2>1. a.containers \in Seq(ContainerRecords)
    BY DEF IsAnswer
  <2>2. \A i \in DOMAIN a.containers : a.containers[i] \in ContainerRecords
    BY <2>1, ElementOfSeq, LenProperties
  <2>3. QED
    BY <2>2 DEF ContainerRecords
<1>13. \A m \in DOMAIN d.compose : \E i \in DOMAIN linked : d.compose[m] = linked[i]
  BY <1>11 DEF Picks
<1>14. \A i \in DOMAIN linked : \E m \in DOMAIN d.compose : d.compose[m] = linked[i]
  BY <1>11 DEF Picks
<1>15. Keys(d.compose) \subseteq Names
  BY <1>7, <1>12, <1>13 DEF Keys, AsListed
<1>16. \A c \in ToSet(a.containers) : \E j \in DOMAIN d.compose : d.compose[j].key = c.name
  BY <1>7, <1>14 DEF AsListed, ToSet
<1>17. QED
  BY <1>15, <1>16 DEF d, s

\* The entities that every container has.
LEMMA ContainerEntities ==
  ASSUME NEW d, NEW cron, NEW j \in DOMAIN d.compose, NEW kind \in ContainerKinds
  PROVE  LET key == d.compose[j].key
         IN  /\ <<kind, key>> \in Expected(d, cron)
             /\ ContainerDevice(key) \in ExpectedDevices(d)
             /\ \E c \in Created(d, cron) : c.id = <<kind, key>> /\ c.device = ContainerDevice(key)
<1> DEFINE key == d.compose[j].key
           c == Entity(kind, key, ContainerDevice(key), j)
<1>1. SensorEntity(d, c) \/ ButtonEntity(d, cron, c) \/ SwitchEntity(d, c)
  <2>1. CASE kind = "container_state"
    BY <2>1 DEF SensorEntity, From, ContainerSensors
  <2>2. CASE kind = "container_restart"
    BY <2>2 DEF ButtonEntity, From
  <2>3. CASE kind = "container_switch"
    BY <2>3 DEF SwitchEntity, From
  <2>4. QED
    BY <2>1, <2>2, <2>3 DEF ContainerKinds
<1>2. c \in Created(d, cron)
  BY <1>1, CreatedMembers DEF CreatedEntity
<1>3. c.id = <<kind, key>> /\ c.device = ContainerDevice(key)
  BY EntityFields
<1>4. c.id[1] = kind
  BY <1>3
<1>5. c.id \in Expected(d, cron)
  BY <1>2, <1>4, IdsExpected DEF ContainerKinds
<1>6. c.device \in ExpectedDevices(d)
  BY <1>2, DevicesExpected
<1>7. QED
  BY <1>2, <1>3, <1>5, <1>6

UpgradeInv == ServedInv /\ ContainersOwn(registered)

LEMMA InitUpgrade == Init => UpgradeInv
<1> SUFFICES ASSUME Init PROVE UpgradeInv
  OBVIOUS
<1>1. registered = {} \/ registered = LegacyEntries(answers)
  BY DEF Init
<1>2. ContainersOwn({})
  BY DEF ContainersOwn
<1>3. QED
  BY <1>1, <1>2, InitServed, LegacyOwn DEF UpgradeInv

LEMMA NextUpgrade == UpgradeInv /\ [Next]_vars => UpgradeInv'
<1> SUFFICES ASSUME UpgradeInv, [Next]_vars PROVE UpgradeInv'
  OBVIOUS
<1>1. ServedInv'
  BY NextServed DEF UpgradeInv
<1>2. CASE Setup
  <2>1. Loaded'
    BY <1>2 DEF Setup, Loaded
  <2>2. Shape(data')
    BY <1>1, <2>1, AppliancesAssumption, ShapeOfPoll DEF ServedInv, Served
  <2>3. registered' = RegisteredBySetup(data', CronSelection)
    BY <1>2 DEF Setup
  <2>4. ContainersOwn(RegisteredBySetup(data', CronSelection))
    BY <2>2, RegisteredOwn DEF UpgradeInv
  <2>5. QED
    BY <1>1, <2>3, <2>4 DEF UpgradeInv
<1>3. CASE Poll
  <2>1. registered' \subseteq registered
    BY <1>3 DEF Poll, CleanedUp
  <2>2. QED
    BY <1>1, <2>1 DEF UpgradeInv, ContainersOwn
<1>4. CASE ApplianceChanges \/ SaveForm \/ UNCHANGED vars
  <2>1. registered' = registered
    BY <1>4 DEF ApplianceChanges, SaveForm, vars
  <2>2. QED
    BY <1>1, <2>1 DEF UpgradeInv
<1>5. QED
  BY <1>2, <1>3, <1>4 DEF Next

\* What a setup makes of the entries when it shows all containers.
LEMMA SetupKeeps ==
  ASSUME NEW a, IsAnswer(a), NEW o, DOMAIN o \cap {"containers", "projects"} = {}, NEW cron,
         ContainersOwn(registered), NEW e \in registered, e.id[1] \in ContainerKinds, e.custom,
         NEW c \in ToSet(a.containers), e.device = ContainerDevice(DockerId(c.name))
  PROVE  LET d == FilterDataBySelection(NormalizeInventory(a, o), o)
         IN  \E f \in RegisteredBySetup(d, cron) :
               f.custom /\ f.id[1] = e.id[1] /\ f.device = ContainerDevice(c.name)
<1> DEFINE d == FilterDataBySelection(NormalizeInventory(a, o), o)
           names == Keys(d.compose)
           f == MigratedEntry(e, names)
           migrated == Migrated(registered, d)
           kept == CleanedUp(migrated, d, cron)
<1>1. names \subseteq Names /\ \E j \in DOMAIN d.compose : d.compose[j].key = c.name
  BY AllContainersShown
<1> HIDE DEF d
<1>2. PICK j \in DOMAIN d.compose : d.compose[j].key = c.name
  BY <1>1
<1>3. c.name \in names
  BY <1>2 DEF Keys
<1>4. e = [id |-> e.id, device |-> e.device, custom |-> e.custom]
  BY DEF ContainersOwn
<1>5. PICK key : e.id = <<e.id[1], key>> /\ e.device = ContainerDevice(key)
  BY ContainerDevices DEF ContainersOwn
<1>6. key = DockerId(c.name)
  BY <1>5, ContainerDevices
<1>7. PICK n \in names :
        /\ e.device = ContainerDevice(DockerId(n))
        /\ f = [id |-> IF e.id[2] = DockerId(n) THEN <<e.id[1], n>> ELSE e.id,
                device |-> ContainerDevice(n), custom |-> e.custom]
  BY <1>3, <1>4, MigratedOne
<1>8. f \in migrated
  BY DEF Migrated
<1> HIDE DEF f
<1>9. n = c.name
  <2>1. DockerId(n) = DockerId(c.name)
    BY <1>7, ContainerDevices
  <2>2. n \in Names /\ c.name \in Names
    BY <1>1, <1>3
  <2>3. QED
    BY <2>1, <2>2, DockerIdsDiffer
<1>10. e.id[2] = DockerId(c.name)
  BY <1>5, <1>6
<1>11. f.id = <<e.id[1], c.name>> /\ f.device = ContainerDevice(c.name) /\ f.custom = e.custom
  BY <1>7, <1>9, <1>10
<1>12. /\ <<e.id[1], c.name>> \in Expected(d, cron)
       /\ ContainerDevice(c.name) \in ExpectedDevices(d)
       /\ \E b \in Created(d, cron) : b.id = <<e.id[1], c.name>> /\ b.device = ContainerDevice(c.name)
  <2>1. /\ <<e.id[1], d.compose[j].key>> \in Expected(d, cron)
        /\ ContainerDevice(d.compose[j].key) \in ExpectedDevices(d)
        /\ \E b \in Created(d, cron) : /\ b.id = <<e.id[1], d.compose[j].key>>
                                      /\ b.device = ContainerDevice(d.compose[j].key)
    BY ContainerEntities
  <2>2. QED
    BY <1>2, <2>1
<1> HIDE DEF migrated
<1>13. f \in kept
  BY <1>8, <1>11, <1>12 DEF CleanedUp
<1>14. RegisteredBySetup(d, cron) = Added(kept, Created(d, cron))
  BY DEF RegisteredBySetup, migrated
<1> HIDE DEF kept
<1>15. PICK b \in Created(d, cron) : b.id = <<e.id[1], c.name>> /\ b.device = ContainerDevice(c.name)
  BY <1>12
<1>16. PICK g \in Added(kept, Created(d, cron)) : g.id = b.id /\ g.device = b.device /\ g.custom
  <2>1. f.id = b.id
    BY <1>11, <1>15
  <2>2. f.custom
    BY <1>11
  <2>3. QED
    BY <1>13, <2>1, <2>2, AddedEntries
<1>17. g.id[1] = e.id[1]
  BY <1>15, <1>16
<1>18. QED
  BY <1>14, <1>15, <1>16, <1>17 DEF d

LEMMA UpgradeStep ==
  ASSUME UpgradeInv, Next, entry = "loading", entry' = "loaded",
         DOMAIN options \cap {"containers", "projects"} = {},
         NEW e \in registered, e.id[1] \in ContainerKinds
  PROVE  Keeps(e)
<1> SUFFICES ASSUME NEW c \in ToSet(polled'.containers), e.custom,
                    e.device = ContainerDevice(DockerId(c.name))
             PROVE  \E f \in registered' :
                      f.custom /\ f.id[1] = e.id[1] /\ f.device = ContainerDevice(c.name)
  BY DEF Keeps
<1>1. Setup
  <2>1. ApplianceChanges => entry' = entry
    BY DEF ApplianceChanges
  <2>2. Poll => entry = "loaded"
    BY DEF Poll
  <2>3. SaveForm => entry' = entry \/ entry' = "loading"
    BY DEF SaveForm
  <2>4. QED
    BY <2>1, <2>2, <2>3 DEF Next
<1>2. /\ polled' = answers
      /\ data' = FilterDataBySelection(NormalizeInventory(answers, options), options)
      /\ registered' = RegisteredBySetup(data', CronSelection)
  BY <1>1 DEF Setup, PollSucceeds
<1>3. IsAnswer(answers) /\ c \in ToSet(answers.containers)
  BY <1>2, AppliancesAssumption DEF UpgradeInv, ServedInv
<1>4. QED
  BY <1>2, <1>3, SetupKeeps DEF UpgradeInv

\* The upgrade keeps the settings of every container, however many there are
\* and whatever else has changed with it.
THEOREM UpgradesKeepSettings == Spec => UpgradeKeepsUnselected
<1> DEFINE Kept == entry = "loading" /\ entry' = "loaded"
                     /\ DOMAIN options \cap {"containers", "projects"} = {} =>
                   \A e \in registered : e.id[1] \in ContainerKinds => Keeps(e)
<1>1. UpgradeInv /\ Next => Kept
  BY UpgradeStep
<1>2. QED
  BY <1>1, InitUpgrade, NextUpgrade, PTL DEF Spec, UpgradeKeepsUnselected

-----------------------------------------------------------------------------
(* PruneNeedsLoss.                                                         *)

\* What is shown of the answers a.
ShownOf(a, o) == FilterDataBySelection(NormalizeInventory(a, o), o)

LEMMA ShownFiltered ==
  ASSUME NEW a, NEW o
  PROVE  IsFiltered(NormalizeInventory(a, o), o, ShownOf(a, o))
<1> DEFINE s == NormalizeInventory(a, o)
<1>1. s = [f \in Parts |-> s[f]]
  BY InventoryParts
<1> HIDE DEF s
<1>2. IsFiltered(s, o, FilterDataBySelection(s, o))
  BY <1>1, Filtered
<1>3. QED
  BY <1>2 DEF s, ShownOf

LEMMA SourceSets ==
  ASSUME NEW a, NEW o
  PROVE  /\ NormalizeInventory(a, o).vms = a.vms
         /\ NormalizeInventory(a, o).services = a.services
         /\ NormalizeInventory(a, o).rsync = a.rsync
         /\ NormalizeInventory(a, o).cron = a.cron
  BY DEF NormalizeInventory

\* A selection of keys lets through what it names.
LEMMA PassedKeys ==
  ASSUME NEW T, NEW s \in Seq(T), NEW field, NEW o
  PROVE  Keys(At(s, Shown(s, field, o))) = {k \in Keys(s) : Passes(k, SelectedValues(o, field))}
<1> DEFINE w == At(s, Shown(s, field, o))
<1>1. Shown(s, field, o) \subseteq DOMAIN s
  BY DEF Shown
<1>2. Picks(s, Shown(s, field, o), w)
  BY <1>1, Picked
<1> HIDE DEF w
<1>3. Keys(w) = {k \in Keys(s) : Passes(k, SelectedValues(o, field))}
  BY <1>2 DEF Picks, Keys, Shown
<1>4. QED
  BY <1>3 DEF w

\* Where an entity of some kind comes from, and the device that it is given.
Origin(d, cron, kind, key, v) ==
  \/ /\ kind \in DiskClass /\ v = DiskDevice(key)
     /\ \E i \in DOMAIN d.disk :
          /\ d.disk[i].key = key
          /\ kind \in {"disk_smart_status", "disk_bad_sectors"} => DiskIsSmartEligible(d.disk[i])
  \/ kind = "filesystem" /\ key \in Keys(PlainOnes(d))
  \/ kind = "network" /\ key \in Keys(d.networks) /\ v = Hub
  \/ /\ kind = "raid" /\ key \in Keys(d.raid)
     /\ v = IF key \in d.known THEN DiskDevice(key) ELSE Hub
  \/ kind \in PoolClass \cup ScrubClass /\ key \in Keys(d.pools) /\ v = PoolDevice(key)
  \/ kind = "zfs_dataset" /\ key \in Keys(d.datasets) /\ v = DatasetDevice(key)
  \/ kind \in ProjectClass /\ key \in Keys(d.projects) /\ v = ProjectDevice(key)
  \/ kind \in ContainerClass /\ key \in Keys(d.compose) /\ v = ContainerDevice(key)
  \/ kind = "container_volume_size"
  \/ kind \in MachineClass /\ key \in d.vms /\ v = VmDevice(key)
  \/ kind = "service" /\ key \in d.services /\ v = Hub
  \/ kind \in {"rsync_run", "rsync_enabled"} /\ key \in d.rsync /\ v = Hub
  \/ kind = "cron_run" /\ key \in d.cron \cap cron /\ v = Hub
  \/ kind \in {"tempmon", "wol"}

\* The parts of an id.
LEMMA FromParts ==
  ASSUME NEW kind, NEW key, NEW e, e.id = <<kind, key>>
  PROVE  /\ \A k : e # HubEntity(k)
         /\ \A k, x, v, n : e = Entity(k, x, v, n) => k = kind /\ x = key /\ e.device = v
         /\ \A s, i, k, v : From(s, i, k, v, e) => k = kind /\ s[i].key = key /\ e.device = v
<1>1. \A k : HubEntity(k).id # <<kind, key>>
  <2>1. \A k : <<k>> # <<kind, key>>
    OBVIOUS
  <2>2. QED
    BY <2>1, EntityFields
<1>2. ASSUME NEW k, NEW x, NEW v, NEW n, e = Entity(k, x, v, n)
      PROVE  k = kind /\ x = key /\ e.device = v
  <2>1. <<k, x>> = <<kind, key>> /\ e.device = v
    BY <1>2, EntityFields
  <2>2. QED
    BY <2>1
<1>3. QED
  BY <1>1, <1>2 DEF From

LEMMA StorageOrigin ==
  ASSUME NEW d, Shape(d), NEW cron, NEW kind, NEW key, NEW e, e.id = <<kind, key>>, StorageEntity(d, e)
  PROVE  Origin(d, cron, kind, key, e.device)
<1> DEFINE parts == /\ \A k, x, v, n : e = Entity(k, x, v, n) => k = kind /\ x = key /\ e.device = v
                    /\ \A s, i, k, v : From(s, i, k, v, e) => k = kind /\ s[i].key = key /\ e.device = v
<1>0. parts
  BY FromParts
<1>1. CASE \E i \in DOMAIN PlainOnes(d) : \E k \in FilesystemSensors :
             From(PlainOnes(d), i, k, FilesystemDevice(d, PlainOnes(d)[i]), e)
  BY <1>0, <1>1 DEF Origin, FilesystemSensors, Keys
<1>2. CASE \E i \in DOMAIN d.networks : \E k \in NetworkSensors :
             From(d.networks, i, k, Hub, e)
  BY <1>0, <1>2 DEF Origin, NetworkSensors, Keys
<1>3. CASE \E i \in DOMAIN d.raid : \E k \in RaidSensors :
             From(d.raid, i, k, RaidDevice(d, d.raid[i]), e)
  BY <1>0, <1>3 DEF Origin, RaidSensors, Keys, RaidDevice
<1>4. CASE \E i \in DOMAIN d.pools : \E k \in PoolSensors(d.pools[i]) :
             From(d.pools, i, k, PoolDevice(d.pools[i].key), e)
  <2>1. \A i \in DOMAIN d.pools : PoolSensors(d.pools[i]) \subseteq PoolClass
    BY DEF Shape, PoolSensors, PoolClass
  <2>2. QED
    BY <1>0, <1>4, <2>1 DEF Origin, Keys
<1>5. CASE \E x \in Measured(d) : \E k \in TempmonSensors : e = Entity(k, x, Hub, 1)
  BY <1>0, <1>5 DEF Origin, TempmonSensors
<1>6. CASE \E x \in d.vms : \E k \in VmSensors : e = Entity(k, x, VmDevice(x), 1)
  BY <1>0, <1>6 DEF Origin, VmSensors, MachineClass
<1>7. CASE \E i \in DOMAIN d.datasets : \E k \in DatasetSensors :
             From(d.datasets, i, k, DatasetDevice(d.datasets[i].key), e)
  BY <1>0, <1>7 DEF Origin, DatasetSensors, Keys
<1>8. QED
  BY <1>1, <1>2, <1>3, <1>4, <1>5, <1>6, <1>7 DEF StorageEntity

LEMMA SensorOrigin ==
  ASSUME NEW d, Shape(d), NEW cron, NEW kind, NEW key, NEW e, e.id = <<kind, key>>, SensorEntity(d, e)
  PROVE  Origin(d, cron, kind, key, e.device)
<1>0. /\ \A k : e # HubEntity(k)
      /\ \A s, i, k, v : From(s, i, k, v, e) => k = kind /\ s[i].key = key /\ e.device = v
  BY FromParts
<1>1. CASE \E i \in DOMAIN d.projects : \E k \in ProjectSensors :
             From(d.projects, i, k, ProjectDevice(d.projects[i].key), e)
  BY <1>0, <1>1 DEF Origin, ProjectSensors, ProjectClass, Keys
<1>2. CASE \E i \in DOMAIN d.compose : \E k \in ContainerSensors(d.compose[i]) :
             From(d.compose, i, k, ContainerDevice(d.compose[i].key), e)
  <2>1. \A i \in DOMAIN d.compose : ContainerSensors(d.compose[i]) \subseteq ContainerClass
    BY DEF Shape, ContainerSensors, ContainerClass, ContainerKinds
  <2>2. QED
    BY <1>0, <1>2, <2>1 DEF Origin, Keys
<1>3. CASE \E i \in DOMAIN d.volumes : \E k \in VolumeSensors :
             From(d.volumes, i, k, ContainerDevice(d.volumes[i].container), e)
  BY <1>0, <1>3 DEF Origin, VolumeSensors
<1>4. CASE \E i \in DOMAIN d.disk : \E k \in DiskKinds(d, d.disk[i]) :
             From(d.disk, i, k, DiskDevice(d.disk[i].key), e)
  <2>1. \A x : DiskKinds(d, x) \subseteq DiskClass
    BY DEF DiskKinds, DiskClass, Temperature, DiskMetrics, UsedSensors, TotalSensors, Smart
  <2>2. \A x : /\ "disk_smart_status" \in DiskKinds(d, x) => DiskIsSmartEligible(x)
               /\ "disk_bad_sectors" \notin DiskKinds(d, x)
    BY DEF DiskKinds, Temperature, DiskMetrics, UsedSensors, TotalSensors, Smart
  <2>3. PICK i \in DOMAIN d.disk : \E k \in DiskKinds(d, d.disk[i]) :
             From(d.disk, i, k, DiskDevice(d.disk[i].key), e)
    BY <1>4
  <2>4. /\ kind \in DiskKinds(d, d.disk[i]) /\ d.disk[i].key = key /\ e.device = DiskDevice(key)
    BY <1>0, <2>3
  <2>5. kind \in {"disk_smart_status", "disk_bad_sectors"} => DiskIsSmartEligible(d.disk[i])
    BY <2>2, <2>4
  <2>6. QED
    BY <2>1, <2>4, <2>5 DEF Origin
<1>5. CASE StorageEntity(d, e)
  BY <1>5, StorageOrigin
<1>6. QED
  BY <1>0, <1>1, <1>2, <1>3, <1>4, <1>5 DEF SensorEntity

LEMMA BinaryOrigin ==
  ASSUME NEW d, NEW cron, NEW kind, NEW key, NEW e, e.id = <<kind, key>>, BinaryEntity(d, e)
  PROVE  Origin(d, cron, kind, key, e.device)
<1>0. /\ \A k : e # HubEntity(k)
      /\ \A k, x, v, n : e = Entity(k, x, v, n) => k = kind /\ x = key /\ e.device = v
      /\ \A s, i, k, v : From(s, i, k, v, e) => k = kind /\ s[i].key = key /\ e.device = v
  BY FromParts
<1>1. CASE \E x \in d.services : e = Entity("service", x, Hub, 1)
  BY <1>0, <1>1 DEF Origin
<1>2. CASE \E i \in DOMAIN d.disk : \E k \in Problems(d.disk[i]) :
             From(d.disk, i, k, DiskDevice(d.disk[i].key), e)
  BY <1>0, <1>2 DEF Origin, Problems, DiskClass
<1>3. CASE \E x \in d.vms : e = Entity("vm_running", x, VmDevice(x), 1)
  BY <1>0, <1>3 DEF Origin, MachineClass
<1>4. CASE \E x \in d.rsync : e = Entity("rsync_enabled", x, Hub, 1)
  BY <1>0, <1>4 DEF Origin
<1>5. CASE \E i \in DOMAIN d.pools :
             From(d.pools, i, "scrub_active", PoolDevice(d.pools[i].key), e)
  BY <1>0, <1>5 DEF Origin, ScrubClass, Keys
<1>6. QED
  BY <1>0, <1>1, <1>2, <1>3, <1>4, <1>5 DEF BinaryEntity

LEMMA ButtonOrigin ==
  ASSUME NEW d, NEW cron, NEW kind, NEW key, NEW e, e.id = <<kind, key>>, ButtonEntity(d, cron, e)
  PROVE  Origin(d, cron, kind, key, e.device)
<1>0. /\ \A k : e # HubEntity(k)
      /\ \A k, x, v, n : e = Entity(k, x, v, n) => k = kind /\ x = key /\ e.device = v
      /\ \A s, i, k, v : From(s, i, k, v, e) => k = kind /\ s[i].key = key /\ e.device = v
  BY FromParts
<1>1. CASE \E i \in DOMAIN d.projects :
             From(d.projects, i, "compose_button", ProjectDevice(d.projects[i].key), e)
  BY <1>0, <1>1 DEF Origin, ProjectClass, Keys
<1>2. CASE \E i \in DOMAIN d.compose :
             From(d.compose, i, "container_restart", ContainerDevice(d.compose[i].key), e)
  BY <1>0, <1>2 DEF Origin, ContainerClass, ContainerKinds, Keys
<1>3. CASE \E x \in d.vms : e = Entity("vm_restart", x, VmDevice(x), 1)
  BY <1>0, <1>3 DEF Origin, MachineClass
<1>4. CASE \E x \in d.rsync : e = Entity("rsync_run", x, Hub, 1)
  BY <1>0, <1>4 DEF Origin
<1>5. CASE \E x \in d.cron \cap cron : e = Entity("cron_run", x, Hub, 1)
  BY <1>0, <1>5 DEF Origin
<1>6. CASE \E i \in DOMAIN d.pools :
             From(d.pools, i, "scrub", PoolDevice(d.pools[i].key), e)
  BY <1>0, <1>6 DEF Origin, ScrubClass, Keys
<1>7. CASE \E x \in Wakeable(d) : e = Entity("wol", x, Hub, 1)
  BY <1>0, <1>7 DEF Origin
<1>8. QED
  BY <1>0, <1>1, <1>2, <1>3, <1>4, <1>5, <1>6, <1>7 DEF ButtonEntity

LEMMA CreatedOrigin ==
  ASSUME NEW d, Shape(d), NEW cron, NEW kind, NEW key, NEW e \in Created(d, cron), e.id = <<kind, key>>
  PROVE  Origin(d, cron, kind, key, e.device)
<1>0. /\ \A k, x, v, n : e = Entity(k, x, v, n) => k = kind /\ x = key /\ e.device = v
      /\ \A s, i, k, v : From(s, i, k, v, e) => k = kind /\ s[i].key = key /\ e.device = v
  BY FromParts
<1>1. CASE \E i \in DOMAIN d.compose :
             From(d.compose, i, "container_switch", ContainerDevice(d.compose[i].key), e)
  BY <1>0, <1>1 DEF Origin, ContainerClass, ContainerKinds, Keys
<1>2. CASE \E x \in d.vms : e = Entity("vm_switch", x, VmDevice(x), 1)
  BY <1>0, <1>2 DEF Origin, MachineClass
<1>3. CASE SensorEntity(d, e) \/ BinaryEntity(d, e) \/ ButtonEntity(d, cron, e)
  BY <1>3, SensorOrigin, BinaryOrigin, ButtonOrigin
<1>4. QED
  BY <1>1, <1>2, <1>3, CreatedMembers DEF CreatedEntity, SwitchEntity

-----------------------------------------------------------------------------
(* What a poll keeps: kind for kind, from what the entity was created from  *)
(* and what is still there.                                                *)

\* The clean-up of d keeps an entity of this id and device.
Kept(d, cron, kind, key, v) == <<kind, key>> \in Expected(d, cron) /\ v \in ExpectedDevices(d)

\* What no normalizer touches.
LEMMA KeptSource ==
  ASSUME NEW a, NEW b, NEW o, NEW cron, NEW kind, NEW key, NEW v,
         \/ /\ kind \in MachineClass /\ key \in ShownOf(a, o).vms /\ v = VmDevice(key)
            /\ key \in b.vms
         \/ kind = "service" /\ key \in ShownOf(a, o).services /\ v = Hub /\ key \in b.services
         \/ kind \in {"rsync_run", "rsync_enabled"} /\ v = Hub /\ key \in b.rsync
         \/ kind = "cron_run" /\ key \in ShownOf(a, o).cron \cap cron /\ v = Hub /\ key \in b.cron
  PROVE  Kept(ShownOf(b, o), cron, kind, key, v)
<1> DEFINE c == ShownOf(a, o)
           d == ShownOf(b, o)
<1>1. /\ c.vms = {x \in a.vms : Passes(x, SelectedValues(o, "vms"))}
      /\ c.services = {x \in a.services : Passes(x, SelectedValues(o, "services"))}
  BY ShownFiltered, SourceSets DEF IsFiltered
<1>2. /\ d.vms = {x \in b.vms : Passes(x, SelectedValues(o, "vms"))}
      /\ d.services = {x \in b.services : Passes(x, SelectedValues(o, "services"))}
      /\ d.rsync = b.rsync /\ d.cron = b.cron
  BY ShownFiltered, SourceSets DEF IsFiltered
<1> HIDE DEF c
<1> HIDE DEF d
<1>3. CASE kind \in MachineClass /\ key \in c.vms /\ v = VmDevice(key) /\ key \in b.vms
  <2>1. key \in d.vms
    BY <1>1, <1>2, <1>3
  <2>2. <<kind, key>> \in Expected(d, cron)
    BY <1>3, <2>1, ExpectedMembers DEF MachineClass, SensorId, StorageId, BinaryId, ButtonId, SwitchId
  <2>3. v \in ExpectedDevices(d)
    BY <1>3, <2>1, ExpectedDeviceMembers DEF DeviceOf
  <2>4. QED
    BY <2>2, <2>3 DEF Kept, d
<1>4. CASE kind = "service" /\ key \in c.services /\ v = Hub /\ key \in b.services
  BY <1>1, <1>2, <1>4, ExpectedMembers, ExpectedDeviceMembers DEF BinaryId, DeviceOf, Kept, d
<1>5. CASE kind \in {"rsync_run", "rsync_enabled"} /\ v = Hub /\ key \in b.rsync
  BY <1>2, <1>5, ExpectedMembers, ExpectedDeviceMembers DEF BinaryId, ButtonId, DeviceOf, Kept, d
<1>6. CASE kind = "cron_run" /\ key \in c.cron \cap cron /\ v = Hub /\ key \in b.cron
  BY <1>2, <1>6, ExpectedMembers, ExpectedDeviceMembers DEF ButtonId, DeviceOf, Kept, d
<1>7. QED
  BY <1>3, <1>4, <1>5, <1>6 DEF c

LEMMA KeptNetwork ==
  ASSUME NEW a, IsAnswer(a), NEW b, IsAnswer(b), NEW o, NEW cron,
         NEW key \in Keys(ShownOf(a, o).networks),
         \E n \in ToSet(b.networks) : n.uuid = key /\ n.type # "loopback"
  PROVE  Kept(ShownOf(b, o), cron, "network", key, Hub)
<1> DEFINE s == NormalizeNetwork(a.networks)
           t == NormalizeNetwork(b.networks)
           d == ShownOf(b, o)
<1>1. s \in Seq(Interfaces) /\ t \in Seq(Interfaces) /\ key \in Keys(t)
  BY NormalizedNetwork DEF IsAnswer
<1>2. ShownOf(a, o).networks = At(s, Shown(s, "networks", o))
  BY ShownFiltered, SourceFields DEF IsFiltered
<1>3. d.networks = At(t, Shown(t, "networks", o))
  BY ShownFiltered, SourceFields DEF IsFiltered
<1> HIDE DEF s
<1> HIDE DEF t
<1> HIDE DEF d
<1>4. Keys(ShownOf(a, o).networks) = {k \in Keys(s) : Passes(k, SelectedValues(o, "networks"))}
  BY <1>1, <1>2, PassedKeys
<1>5. Keys(d.networks) = {k \in Keys(t) : Passes(k, SelectedValues(o, "networks"))}
  BY <1>1, <1>3, PassedKeys
<1>6. key \in Keys(d.networks)
  BY <1>1, <1>4, <1>5
<1>7. <<"network", key>> \in Expected(d, cron)
  BY <1>6, ExpectedMembers DEF SensorId, StorageId, Keys
<1>8. Hub \in ExpectedDevices(d)
  BY ExpectedDeviceMembers DEF DeviceOf
<1>9. QED
  BY <1>7, <1>8 DEF Kept, d

LEMMA KeptPool ==
  ASSUME NEW a, IsAnswer(a), NEW b, IsAnswer(b), NEW o, NEW cron,
         NEW kind \in {"zfs_pool", "scrub_active", "scrub"},
         NEW key \in Keys(ShownOf(a, o).pools), key \in Keys(NormalizeZfsPools(b.pools))
  PROVE  Kept(ShownOf(b, o), cron, kind, key, PoolDevice(key))
<1> DEFINE s == NormalizeZfsPools(a.pools)
           t == NormalizeZfsPools(b.pools)
           d == ShownOf(b, o)
<1>1. s \in Seq(PoolRecords) /\ t \in Seq(PoolRecords) /\ key \in Keys(t)
  BY NormalizedPools DEF IsAnswer
<1>2. ShownOf(a, o).pools = At(s, Shown(s, "pools", o))
  BY ShownFiltered, SourceFields DEF IsFiltered
<1>3. d.pools = At(t, Shown(t, "pools", o))
  BY ShownFiltered, SourceFields DEF IsFiltered
<1> HIDE DEF s
<1> HIDE DEF t
<1> HIDE DEF d
<1>4. Keys(ShownOf(a, o).pools) = {k \in Keys(s) : Passes(k, SelectedValues(o, "pools"))}
  BY <1>1, <1>2, PassedKeys
<1>5. Keys(d.pools) = {k \in Keys(t) : Passes(k, SelectedValues(o, "pools"))}
  BY <1>1, <1>3, PassedKeys
<1>6. PICK i \in DOMAIN d.pools : d.pools[i].key = key
  BY <1>1, <1>4, <1>5 DEF Keys
<1>7. "zfs_pool" \in PoolSensors(d.pools[i])
  BY DEF PoolSensors
<1>8. <<kind, key>> \in Expected(d, cron)
  BY <1>6, <1>7, ExpectedMembers DEF SensorId, StorageId, BinaryId, ButtonId
<1>9. PoolDevice(key) \in ExpectedDevices(d)
  BY <1>6, ExpectedDeviceMembers DEF DeviceOf
<1>10. QED
  BY <1>8, <1>9 DEF Kept, d

\* The pool of a dataset is told by its path.
LEMMA KeptDataset ==
  ASSUME NEW a, IsAnswer(a), KeepsNamesApart(a), NEW b, IsAnswer(b), KeepsNamesApart(b),
         NEW o, NEW cron, NEW key \in Keys(ShownOf(a, o).datasets), b.pools # <<>>,
         \E x \in ToSet(b.datasets) : x.path = key /\ x.type \in {"Filesystem", "Volume"}
  PROVE  Kept(ShownOf(b, o), cron, "zfs_dataset", key, DatasetDevice(key))
<1> DEFINE s == NormalizeInventory(a, o).datasets
           t == NormalizeZfsDatasets(b.datasets)
           d == ShownOf(b, o)
<1>1. /\ \E T : s \in Seq(T)
      /\ \A i \in DOMAIN s : s[i].pool = Head(s[i].key) /\ Len(s[i].key) > 1
  <2> DEFINE n == NormalizeZfsDatasets(a.datasets)
  <2>1. s = n \/ s = <<>>
    BY SourceCompose
  <2>2. /\ \E T : n \in Seq(T)
        /\ \A i \in DOMAIN n : n[i].pool = Head(n[i].key) /\ Len(n[i].key) > 1
    BY NormalizedDatasets DEF IsAnswer, KeepsNamesApart
  <2> HIDE DEF n
  <2> HIDE DEF s
  <2>3. CASE s = n
    BY <2>2, <2>3
  <2>4. CASE s = <<>>
    <3>1. s \in Seq({}) /\ DOMAIN s = {}
      BY <2>4
    <3>2. QED
      BY <3>1
  <2>5. QED
    BY <2>1, <2>3, <2>4
<1>2. ShownOf(a, o).datasets = At(s, OfShownPools(s, o))
  BY ShownFiltered DEF IsFiltered
<1>3. /\ \E T : t \in Seq(T)
      /\ \A i \in DOMAIN t : t[i].pool = Head(t[i].key)
      /\ \A x \in ToSet(b.datasets) : x.type \in {"Filesystem", "Volume"} /\ Len(x.path) > 1 =>
           x.path \in Keys(t)
  BY NormalizedDatasets DEF IsAnswer, KeepsNamesApart
<1>4. d.datasets = At(t, OfShownPools(t, o))
  <2>1. NormalizeInventory(b, o).datasets = t
    BY NormalizedPools, SourceCompose DEF IsAnswer
  <2>2. QED
    BY <2>1, ShownFiltered DEF IsFiltered
<1> HIDE DEF s
<1> HIDE DEF t
<1> HIDE DEF d
<1>5. OfShownPools(s, o) \subseteq DOMAIN s /\ OfShownPools(t, o) \subseteq DOMAIN t
  BY DEF OfShownPools
<1>6. Picks(s, OfShownPools(s, o), ShownOf(a, o).datasets)
  <2>1. PICK T : s \in Seq(T)
    BY <1>1
  <2>2. QED
    BY <2>1, <1>2, <1>5, Picked
<1>7. Picks(t, OfShownPools(t, o), d.datasets)
  <2>1. PICK T : t \in Seq(T)
    BY <1>3
  <2>2. QED
    BY <2>1, <1>4, <1>5, Picked
<1>8. PICK m \in DOMAIN ShownOf(a, o).datasets : ShownOf(a, o).datasets[m].key = key
  BY DEF Keys
<1>9. PICK i \in OfShownPools(s, o) : s[i].key = key
  BY <1>6, <1>8 DEF Picks
<1>10. Passes(Head(key), SelectedValues(o, "pools")) /\ Len(key) > 1
  BY <1>1, <1>5, <1>9 DEF OfShownPools
<1>11. PICK j \in DOMAIN t : t[j].key = key
  BY <1>3, <1>10 DEF Keys
<1>12. j \in OfShownPools(t, o)
  BY <1>3, <1>10, <1>11 DEF OfShownPools
<1>13. PICK n \in DOMAIN d.datasets : d.datasets[n].key = key
  BY <1>7, <1>11, <1>12 DEF Picks
<1>14. <<"zfs_dataset", key>> \in Expected(d, cron)
  BY <1>13, ExpectedMembers DEF SensorId, StorageId
<1>15. DatasetDevice(key) \in ExpectedDevices(d)
  BY <1>13, ExpectedDeviceMembers DEF DeviceOf
<1>16. QED
  BY <1>14, <1>15 DEF Kept, d

LEMMA KeptProject ==
  ASSUME NEW a, IsAnswer(a), NEW b, IsAnswer(b), NEW o, NEW cron, NEW kind \in ProjectClass,
         NEW key \in Keys(ShownOf(a, o).projects), key \in b.files
  PROVE  Kept(ShownOf(b, o), cron, kind, key, ProjectDevice(key))
<1> DEFINE s == ProjectsOf(a, o)
           t == ProjectsOf(b, o)
           d == ShownOf(b, o)
<1>0. /\ IsFiniteSet(a.files) /\ Merged(a, o) \in Seq(Containers)
      /\ IsFiniteSet(b.files) /\ Merged(b, o) \in Seq(Containers)
  BY ComposeOfPoll DEF IsAnswer
<1>1. /\ \E T : s \in Seq(T)
      /\ Unique(s)
      /\ \A i \in DOMAIN s : s[i] = ProjectRecord(a.files, Merged(a, o), s[i].key)
  BY <1>0, NormalizedProjects DEF ProjectsOf
<1>2. /\ \E T : t \in Seq(T)
      /\ Unique(t) /\ Keys(t) = b.files \cup NamedProjects(Merged(b, o))
      /\ \A i \in DOMAIN t : t[i] = ProjectRecord(b.files, Merged(b, o), t[i].key)
  BY <1>0, NormalizedProjects DEF ProjectsOf
<1>3. ShownOf(a, o).projects = FilterProjects(s, ShownOf(a, o).compose, o)
  BY ShownFiltered, SourceCompose DEF IsFiltered
<1>4. d.projects = FilterProjects(t, d.compose, o)
  BY ShownFiltered, SourceCompose DEF IsFiltered
<1> HIDE DEF s
<1> HIDE DEF t
<1> HIDE DEF d
<1>5. \A files, compose, p :
        /\ ProjectRecord(files, compose, p).key = p
        /\ ProjectRecord(files, compose, p).uuid <=> p \in files
        /\ ProjectRecord(files, compose, p) =
             [key |-> ProjectRecord(files, compose, p).key, uuid |-> ProjectRecord(files, compose, p).uuid,
              counts |-> ProjectRecord(files, compose, p).counts]
  BY DEF ProjectRecord
<1>6. Passes(key, SelectedValues(o, "projects"))
  <2>1. PICK T : s \in Seq(T)
    BY <1>1
  <2>2. \A i \in DOMAIN s : s[i] = [key |-> s[i].key, uuid |-> s[i].uuid, counts |-> s[i].counts]
    BY <1>1, <1>5
  <2>3. \A m \in DOMAIN ShownOf(a, o).projects :
          Passes(ShownOf(a, o).projects[m].key, SelectedValues(o, "projects"))
    BY <1>1, <1>3, <2>1, <2>2, FilteredProjects
  <2>4. QED
    BY <2>3 DEF Keys
<1>7. PICK i \in DOMAIN t : t[i].key = key
  BY <1>2 DEF Keys
<1>8. t[i].uuid
  BY <1>2, <1>5, <1>7
<1>9. PICK m \in DOMAIN d.projects : d.projects[m].key = key /\ d.projects[m].uuid
  <2>1. PICK T : t \in Seq(T)
    BY <1>2
  <2>2. \A j \in DOMAIN t : t[j] = [key |-> t[j].key, uuid |-> t[j].uuid, counts |-> t[j].counts]
    BY <1>2, <1>5
  <2>3. \A j \in DOMAIN t : Passes(t[j].key, SelectedValues(o, "projects")) =>
          \E m \in DOMAIN d.projects : d.projects[m].key = t[j].key /\ d.projects[m].uuid = t[j].uuid
    BY <1>2, <1>4, <2>1, <2>2, FilteredProjects
  <2>4. PICK m \in DOMAIN d.projects : d.projects[m].key = t[i].key /\ d.projects[m].uuid = t[i].uuid
    BY <1>6, <1>7, <2>3
  <2>5. QED
    BY <1>7, <1>8, <2>4
<1>10. <<kind, key>> \in Expected(d, cron)
  BY <1>9, ExpectedMembers DEF SensorId, ButtonId, ProjectClass
<1>11. ProjectDevice(key) \in ExpectedDevices(d)
  BY <1>9, ExpectedDeviceMembers DEF DeviceOf
<1>12. QED
  BY <1>10, <1>11 DEF Kept, d

\* A container whose project is told passes the selection of projects again.
LEMMA KeptContainer ==
  ASSUME NEW a, IsAnswer(a), NEW b, IsAnswer(b), NEW o, NEW cron, NEW kind \in ContainerKinds,
         NEW key \in Keys(ShownOf(a, o).compose), NEW c \in ToSet(b.containers), c.name = key,
         \A names \in SelectedValues(o, "projects") :
           (IF c.label # NoProject THEN c.label ELSE c.inspect) \in names \ {NoProject}
  PROVE  Kept(ShownOf(b, o), cron, kind, key, ContainerDevice(key))
<1> DEFINE d == ShownOf(b, o)
           containers == SelectedValues(o, "containers")
           projects == SelectedValues(o, "projects")
           told == IF c.label # NoProject THEN c.label ELSE c.inspect
           s == NormalizeCompose(b.containers)
           m == Merged(b, o)
           l == Linked(b, o)
<1>1. \A keys \in containers : key \in keys
  <2>1. ShownOf(a, o).compose = FilterCompose(Linked(a, o), o)
    BY ShownFiltered, SourceCompose DEF IsFiltered
  <2>2. PICK n \in DOMAIN ShownOf(a, o).compose : ShownOf(a, o).compose[n].key = key
    BY DEF Keys
  <2>3. ComposeSelected(ShownOf(a, o).compose[n], containers, projects)
    BY <2>1, ShownContainers
  <2>4. QED
    BY <2>2, <2>3 DEF ComposeSelected
<1>2. PICK i \in DOMAIN b.containers : b.containers[i] = c
  BY DEF ToSet
<1>3. /\ s \in Seq(Containers) /\ AsListed(b, s)
      /\ \A n \in DOMAIN s : s[n].project = b.containers[n].label /\ s[n].inspect = b.containers[n].inspect
  BY NormalizedCompose DEF IsAnswer
<1>4. m = MergeComposeInspect(s, containers, projects)
  BY DEF Merged
<1>5. l = LinkComposeProjects(m, ProjectsOf(b, o)) /\ d.compose = FilterCompose(l, o)
  BY ShownFiltered, SourceCompose DEF IsFiltered, Linked
<1>6. m \in Seq(Containers) /\ AsListed(b, m) /\ AsListed(b, l) /\ \E T : l \in Seq(T)
  BY ComposeOfPoll
<1>7. NamedProjects(m) \subseteq Keys(ProjectsOf(b, o))
  BY <1>6, NormalizedProjects DEF ProjectsOf, IsAnswer
<1> HIDE DEF d
<1> HIDE DEF s
<1> HIDE DEF m
<1> HIDE DEF l
<1>8. s[i].key = key /\ s[i].project = c.label /\ s[i].inspect = c.inspect
  BY <1>2, <1>3 DEF AsListed
<1>9. ComposeSelected(s[i], containers, projects)
  BY <1>1, <1>8 DEF ComposeSelected
<1>10. m[i].key = key /\ m[i].project = told
  <2>1. \A n \in DOMAIN m : m[n].project = IF ComposeSelected(s[n], containers, projects) /\ s[n].project = NoProject
                                           THEN s[n].inspect ELSE s[n].project
    BY <1>3, <1>4, MergedCompose
  <2>2. i \in DOMAIN m /\ m[i].key = key
    BY <1>2, <1>6 DEF AsListed
  <2>3. QED
    BY <1>8, <1>9, <2>1, <2>2
<1>11. ComposeSelected(l[i], containers, projects)
  <2>1. i \in DOMAIN m /\ i \in DOMAIN l /\ l[i].key = key
    BY <1>2, <1>6 DEF AsListed
  <2>2. ASSUME NEW names \in projects
        PROVE  l[i].project \in names
    <3>1. told \in names /\ told # NoProject
      OBVIOUS
    <3>2. told \in Keys(ProjectsOf(b, o))
      BY <1>7, <1>10, <2>1, <3>1 DEF NamedProjects
    <3>3. \A n \in DOMAIN l : l[n].project = IF m[n].project \in Keys(ProjectsOf(b, o)) THEN m[n].project
                                             ELSE MatchComposeProject(m[n].key, ProjectsOf(b, o))
      BY <1>5, <1>6, LinkedCompose
    <3>4. QED
      BY <1>10, <2>1, <3>1, <3>2, <3>3
  <2>3. QED
    BY <1>1, <2>1, <2>2 DEF ComposeSelected
<1>12. PICK n \in DOMAIN d.compose : d.compose[n].key = key
  <2> DEFINE in == {n \in DOMAIN l : ComposeSelected(l[n], containers, projects)}
  <2>1. d.compose = At(l, in)
    BY <1>5 DEF FilterCompose, Where
  <2>2. in \subseteq DOMAIN l /\ i \in in /\ l[i].key = key
    BY <1>2, <1>6, <1>11 DEF AsListed
  <2>3. PICK T : l \in Seq(T)
    BY <1>6
  <2> HIDE DEF in
  <2>4. Picks(l, in, d.compose)
    BY <2>1, <2>2, <2>3, Picked
  <2>5. QED
    BY <2>2, <2>4 DEF Picks
<1>13. <<kind, key>> \in Expected(d, cron)
  BY <1>12, ExpectedMembers DEF SensorId, ButtonId, SwitchId, ContainerKinds, ContainerSensors
<1>14. ContainerDevice(key) \in ExpectedDevices(d)
  BY <1>12, ExpectedDeviceMembers DEF DeviceOf
<1>15. QED
  BY <1>13, <1>14 DEF Kept, d

\* Every filesystem but swap.
LEMMA SourceFilesystems ==
  ASSUME NEW a, IsAnswer(a), KeepsNamesApart(a), NEW o
  PROVE  /\ NormalizeInventory(a, o).fs \in Seq(Filesystems)
         /\ \A r \in ToSet(a.fs) : r.type # "swap" => \E i \in DOMAIN NormalizeInventory(a, o).fs :
              NormalizeInventory(a, o).fs[i].key = r.uuid /\ NormalizeInventory(a, o).fs[i].type = r.type
<1> DEFINE disks == NormalizeStorage(a)
           fs == NormalizeFilesystems(a.fs, disks)
<1>1. disks \in Seq(Disks)
  BY NormalizedStorage
<1>2. NormalizeInventory(a, o).fs = fs
  BY SourceFields
<1> HIDE DEF disks
<1>3. /\ a.fs \in Seq(FilesystemRecords)
      /\ \A i, j \in DOMAIN a.fs : a.fs[i].uuid = a.fs[j].uuid => i = j
  BY DEF IsAnswer, KeepsNamesApart
<1>4. /\ fs \in Seq(Filesystems)
      /\ \A r \in ToSet(a.fs) : r.type # "swap" =>
           \E i \in DOMAIN fs : fs[i].key = r.uuid /\ fs[i].type = r.type
  BY <1>1, <1>3, NormalizedFilesystems
<1>5. QED
  BY <1>2, <1>4

LEMMA KeptFilesystem ==
  ASSUME NEW a, IsAnswer(a), KeepsNamesApart(a), NEW b, IsAnswer(b), KeepsNamesApart(b),
         NEW o, NEW cron, NEW key \in Keys(PlainOnes(ShownOf(a, o))),
         NEW f \in ToSet(b.fs), f.uuid = key, f.type \notin {"zfs", "swap"}
  PROVE  <<"filesystem", key>> \in Expected(ShownOf(b, o), cron)
<1> DEFINE s == NormalizeInventory(a, o).fs
           t == NormalizeInventory(b, o).fs
           c == ShownOf(a, o)
           d == ShownOf(b, o)
           plain == {i \in DOMAIN d.fs : Plain(d.fs[i])}
<1>1. s \in Seq(Filesystems)
  BY SourceFilesystems
<1>2. t \in Seq(Filesystems)
  BY SourceFilesystems
<1>3. PICK i \in DOMAIN t : t[i].key = key /\ t[i].type = f.type
  <2>1. \A r \in ToSet(b.fs) : r.type # "swap" =>
          \E i \in DOMAIN t : t[i].key = r.uuid /\ t[i].type = r.type
    BY SourceFilesystems
  <2> HIDE DEF t
  <2>2. QED
    BY <2>1
<1>4. c.fs = At(s, Shown(s, "filesystems", o)) /\ d.fs = At(t, Shown(t, "filesystems", o))
  BY ShownFiltered DEF IsFiltered
<1> HIDE DEF s
<1> HIDE DEF t
<1>5. Shown(s, "filesystems", o) \subseteq DOMAIN s /\ Shown(t, "filesystems", o) \subseteq DOMAIN t
  BY DEF Shown
<1>6. c.fs \in Seq(Filesystems) /\ Picks(s, Shown(s, "filesystems", o), c.fs)
  BY <1>1, <1>4, <1>5, Picked
<1>7. d.fs \in Seq(Filesystems) /\ Picks(t, Shown(t, "filesystems", o), d.fs)
  BY <1>2, <1>4, <1>5, Picked
<1>8. Passes(key, SelectedValues(o, "filesystems"))
  <2> DEFINE in == {n \in DOMAIN c.fs : Plain(c.fs[n])}
  <2>1. PlainOnes(c) = At(c.fs, in)
    BY DEF PlainOnes, Where
  <2>2. in \subseteq DOMAIN c.fs
    OBVIOUS
  <2> HIDE DEF in
  <2>3. Picks(c.fs, in, PlainOnes(c))
    BY <1>6, <2>1, <2>2, Picked
  <2>4. PICK m \in DOMAIN PlainOnes(c) : PlainOnes(c)[m].key = key
    BY DEF Keys
  <2> HIDE DEF c
  <2>5. PICK n \in DOMAIN c.fs : c.fs[n].key = key
    BY <2>2, <2>3, <2>4 DEF Picks
  <2>6. PICK j \in Shown(s, "filesystems", o) : s[j].key = key
    BY <1>6, <2>5 DEF Picks
  <2>7. QED
    BY <2>6 DEF Shown
<1>9. PlainOnes(d) = At(d.fs, plain)
  BY DEF PlainOnes, Where
<1> HIDE DEF d
<1>10. PICK n \in DOMAIN d.fs : d.fs[n] = t[i]
  BY <1>3, <1>7, <1>8 DEF Picks, Shown
<1>11. plain \subseteq DOMAIN d.fs /\ n \in plain
  BY <1>3, <1>10 DEF Plain
<1> HIDE DEF plain
<1>12. Picks(d.fs, plain, PlainOnes(d))
  BY <1>7, <1>9, <1>11, Picked
<1>13. PICK m \in DOMAIN PlainOnes(d) : PlainOnes(d)[m].key = key
  BY <1>3, <1>10, <1>11, <1>12 DEF Picks
<1>14. QED
  BY <1>13, ExpectedMembers DEF SensorId, StorageId, d

\* The disk list has the disk, unmarked, and its record comes first.
LEMMA KeptDisk ==
  ASSUME NEW a, IsAnswer(a), NEW b, IsAnswer(b), NEW o, NEW cron,
         NEW kind \in {"disk_smart_status", "disk_bad_sectors"}, NEW key,
         \E i \in DOMAIN ShownOf(a, o).disk :
           ShownOf(a, o).disk[i].key = key /\ DiskIsSmartEligible(ShownOf(a, o).disk[i]),
         key \in {x.ref.name : x \in ToSet(b.disks)},
         \A x \in ToSet(b.disks) : x.ref.name = key => ~x.israid /\ ~x.virtual
  PROVE  Kept(ShownOf(b, o), cron, kind, key, DiskDevice(key))
<1> DEFINE s == NormalizeInventory(a, o).disk
           t == NormalizeInventory(b, o).disk
           Field(x) == IF x.israid \/ x.logical THEN "raids" ELSE "disks"
           In(x) == {i \in DOMAIN x : Passes(x[i].key, SelectedValues(o, Field(x[i])))}
           insideA == In(s)
           insideB == In(t)
           c == ShownOf(a, o)
           d == ShownOf(b, o)
<1>1. \E T : s \in Seq(T)
  BY SourceFields, NormalizedStorage, MeasuredDisks
<1>2. c.disk = At(s, insideA) /\ d.disk = At(t, insideB)
  <2>1. \A x : FilterDisks(x, o) = At(x, In(x))
    BY DEF FilterDisks, Where
  <2>2. c.disk = FilterDisks(s, o) /\ d.disk = FilterDisks(t, o)
    BY ShownFiltered DEF IsFiltered
  <2>3. QED
    BY <2>1, <2>2
<1>3. (\E T : t \in Seq(T)) /\ \E i \in DOMAIN t : /\ t[i].key = key /\ ~t[i].israid
                                                  /\ ~t[i].logical /\ ~t[i].virtual
  <2> DEFINE disks == NormalizeStorage(b)
             listed == NormalizeDisks(b.disks)
  <2>1. t = ApplyStorageMetrics(disks, NormalizeFilesystems(b.fs, disks))
    BY SourceFields
  <2>2. /\ disks \in Seq(Disks) /\ Unique(disks)
        /\ \A i \in DOMAIN listed : i \in DOMAIN disks /\ disks[i] = listed[i]
    BY NormalizedStorage
  <2>3. /\ \A i \in DOMAIN listed :
              /\ ~ listed[i].logical
              /\ \E r \in ToSet(b.disks) : /\ listed[i].key = r.ref.name
                                           /\ listed[i].israid = r.israid
                                           /\ listed[i].virtual = r.virtual
        /\ \A r \in ToSet(b.disks) : r.ref.name \in Keys(listed)
    BY NormalizedDisks DEF IsAnswer
  <2> HIDE DEF disks
  <2> HIDE DEF listed
  <2> HIDE DEF t
  <2>4. PICK i \in DOMAIN listed : listed[i].key = key
    BY <2>3 DEF Keys
  <2>5. ~listed[i].logical /\ ~listed[i].israid /\ ~listed[i].virtual
    BY <2>3, <2>4
  <2>6. /\ \E T : t \in Seq(T)
        /\ i \in DOMAIN t /\ t[i].key = disks[i].key /\ t[i].virtual = disks[i].virtual
        /\ t[i].israid = disks[i].israid /\ t[i].logical = disks[i].logical
    BY <2>1, <2>2, <2>4, MeasuredDisks
  <2>7. QED
    BY <2>2, <2>4, <2>5, <2>6
<1>4. /\ insideA \subseteq DOMAIN s /\ insideB \subseteq DOMAIN t
      /\ \A i \in insideA : ~s[i].israid /\ ~s[i].logical => Passes(s[i].key, SelectedValues(o, "disks"))
      /\ \A i \in DOMAIN t : ~t[i].israid /\ ~t[i].logical /\ Passes(t[i].key, SelectedValues(o, "disks"))
           => i \in insideB
  OBVIOUS
<1> HIDE DEF insideA
<1> HIDE DEF insideB
<1> HIDE DEF s
<1> HIDE DEF t
<1>5. Picks(s, insideA, c.disk) /\ Picks(t, insideB, d.disk)
  BY <1>1, <1>2, <1>3, <1>4, Picked
<1>6. Passes(key, SelectedValues(o, "disks"))
  <2>1. PICK m \in DOMAIN c.disk : c.disk[m].key = key /\ DiskIsSmartEligible(c.disk[m])
    OBVIOUS
  <2>2. PICK i \in insideA : c.disk[m] = s[i]
    BY <1>5, <2>1 DEF Picks
  <2>3. QED
    BY <1>4, <2>1, <2>2 DEF DiskIsSmartEligible
<1> HIDE DEF c
<1> HIDE DEF d
<1>7. PICK i \in DOMAIN t : t[i].key = key /\ ~t[i].israid /\ ~t[i].logical /\ ~t[i].virtual
  BY <1>3
<1>8. PICK m \in DOMAIN d.disk : d.disk[m] = t[i]
  BY <1>4, <1>5, <1>6, <1>7 DEF Picks
<1>9. d.disk[m].key = key /\ DiskIsSmartEligible(d.disk[m])
  BY <1>7, <1>8 DEF DiskIsSmartEligible
<1>10. /\ "disk_smart_status" \in DiskKinds(d, d.disk[m])
       /\ "disk_bad_sectors" \in Problems(d.disk[m])
  BY <1>9 DEF DiskKinds, Smart, Problems
<1>11. <<kind, key>> \in Expected(d, cron)
  BY <1>9, <1>10, ExpectedMembers DEF SensorId, BinaryId
<1>12. DiskDevice(key) \in ExpectedDevices(d)
  BY <1>9, <1>10, ExpectedDeviceMembers DEF DeviceOf
<1>13. QED
  BY <1>11, <1>12 DEF Kept, d

\* The arrays that are shown, and the devices that are known.
LEMMA SourceRaids ==
  ASSUME NEW a, IsAnswer(a), NEW o
  PROVE  /\ NormalizeInventory(a, o).raid \in Seq(Raids)
         /\ ShownOf(a, o).raid = At(NormalizeInventory(a, o).raid, Shown(NormalizeInventory(a, o).raid, "raids", o))
         /\ ShownOf(a, o).known = Keys(NormalizeStorage(a))
         /\ \A key \in Keys(NormalizeInventory(a, o).raid) : key \in MdDevices \ {None}
<1> DEFINE disks == NormalizeStorage(a)
           fs == NormalizeFilesystems(a.fs, disks)
           d == ShownOf(a, o)
<1>1. disks \in Seq(Disks) /\ Unique(disks)
  BY NormalizedStorage
<1>2. /\ NormalizeInventory(a, o).raid = NormalizeRaids(disks)
      /\ NormalizeInventory(a, o).disk = ApplyStorageMetrics(disks, fs)
  BY SourceFields
<1>3. /\ d.raid = At(NormalizeInventory(a, o).raid, Shown(NormalizeInventory(a, o).raid, "raids", o))
      /\ d.known = Keys(NormalizeInventory(a, o).disk)
  BY ShownFiltered DEF IsFiltered
<1> HIDE DEF disks
<1> HIDE DEF fs
<1> HIDE DEF d
<1>4. /\ NormalizeRaids(disks) \in Seq(Raids)
      /\ \A key \in Keys(NormalizeRaids(disks)) : key \in MdDevices \ {None}
  <2> DEFINE raids == NormalizeRaids(disks)
  <2>1. /\ raids \in Seq(Raids)
        /\ \A m \in DOMAIN raids : \E i \in DOMAIN disks :
             InArray(disks[i]) /\ raids[m].key = ExtractRaidDevice(disks[i])
    BY <1>1, NormalizedRaids
  <2> HIDE DEF raids
  <2>2. \A m \in DOMAIN raids : raids[m] \in Raids
    BY <2>1, ElementOfSeq, LenProperties
  <2>3. \A key \in Keys(raids) : key \in MdDevices \ {None}
    BY <2>1, <2>2 DEF Keys, Raids, InArray
  <2>4. QED
    BY <2>1, <2>3 DEF raids
<1>5. /\ DOMAIN ApplyStorageMetrics(disks, fs) = DOMAIN disks
      /\ \A i \in DOMAIN disks : ApplyStorageMetrics(disks, fs)[i].key = disks[i].key
  BY <1>1, MeasuredDisks
<1>6. Keys(ApplyStorageMetrics(disks, fs)) = Keys(disks)
  BY <1>5 DEF Keys
<1>7. QED
  BY <1>2, <1>3, <1>4, <1>6 DEF disks, d

\* MdMgmt lists the array, and no record of the disk list hides it.
LEMMA KeptRaid ==
  ASSUME NEW a, IsAnswer(a), NEW b, IsAnswer(b), NEW o, NEW cron,
         NEW key \in Keys(ShownOf(a, o).raid), NEW v,
         v = IF key \in ShownOf(a, o).known THEN DiskDevice(key) ELSE Hub,
         \E array \in ToSet(b.md) : array.ref.name = key,
         \A x \in ToSet(b.disks) : x.ref.name = key => x.israid /\ x.array \in {None, key}
  PROVE  Kept(ShownOf(b, o), cron, "raid", key, v)
<1> DEFINE s == NormalizeInventory(a, o).raid
           t == NormalizeInventory(b, o).raid
           disks == NormalizeStorage(b)
           d == ShownOf(b, o)
<1>1. /\ s \in Seq(Raids) /\ t \in Seq(Raids)
      /\ ShownOf(a, o).raid = At(s, Shown(s, "raids", o))
      /\ d.raid = At(t, Shown(t, "raids", o))
      /\ d.known = Keys(disks)
  BY SourceRaids
<1>2. t = NormalizeRaids(disks)
  BY SourceFields
<1>3. /\ disks \in Seq(Disks)
      /\ \A i \in DOMAIN disks : \/ FromDiskList(b, disks[i]) \/ FromMd(b, disks[i])
                                 \/ FromFilesystem(b, disks[i])
      /\ \A r \in ToSet(b.md) : r.ref.name \in MdDevices => r.ref.name \in Keys(disks)
  BY NormalizedStorage
<1> HIDE DEF s
<1> HIDE DEF t
<1> HIDE DEF disks
<1> HIDE DEF d
<1>4. Keys(ShownOf(a, o).raid) = {k \in Keys(s) : Passes(k, SelectedValues(o, "raids"))}
  BY <1>1, PassedKeys
<1>5. Keys(d.raid) = {k \in Keys(t) : Passes(k, SelectedValues(o, "raids"))}
  BY <1>1, PassedKeys
<1>6. key \in MdDevices /\ key # None
  <2>1. \A k \in Keys(s) : k \in MdDevices \ {None}
    BY SourceRaids DEF s
  <2>2. QED
    BY <1>4, <2>1
<1>7. PICK i \in DOMAIN disks : disks[i].key = key
  BY <1>3, <1>6 DEF Keys
<1>8. disks[i].israid /\ disks[i].array \in {None, key}
  <2>1. CASE FromDiskList(b, disks[i])
    <3> DEFINE listed == NormalizeDisks(b.disks)
    <3>1. \A n \in DOMAIN listed : \E r \in ToSet(b.disks) :
            /\ listed[n].key = r.ref.name /\ listed[n].israid = r.israid
            /\ listed[n].array = r.array
      BY NormalizedDisks DEF IsAnswer
    <3>2. PICK n \in DOMAIN listed : disks[i] = listed[n]
      BY <2>1 DEF FromDiskList
    <3> HIDE DEF listed
    <3>3. QED
      BY <1>7, <3>1, <3>2
  <2>2. CASE FromMd(b, disks[i])
    BY <2>2, LogicalDiskFields DEF FromMd
  <2>3. CASE FromFilesystem(b, disks[i])
    BY <2>3, LogicalDiskFields DEF FromFilesystem
  <2>4. QED
    BY <1>3, <2>1, <2>2, <2>3
<1>9. ExtractRaidDevice(disks[i]) = key
  BY <1>6, <1>7, <1>8 DEF ExtractRaidDevice
<1>10. key \in Keys(t)
  <2>1. InArray(disks[i])
    BY <1>6, <1>8, <1>9 DEF InArray
  <2>2. QED
    BY <1>2, <1>3, <1>9, <2>1, NormalizedRaids
<1>11. PICK m \in DOMAIN d.raid : d.raid[m].key = key
  BY <1>4, <1>5, <1>10 DEF Keys
<1>12. <<"raid", key>> \in Expected(d, cron)
  BY <1>11, ExpectedMembers DEF SensorId, StorageId
<1>13. v = RaidDevice(d, d.raid[m]) \/ v = Hub
  <2>1. key \in d.known
    BY <1>1, <1>7 DEF Keys
  <2>2. QED
    BY <1>11, <2>1 DEF RaidDevice
<1>14. v \in ExpectedDevices(d)
  BY <1>13, ExpectedDeviceMembers DEF DeviceOf
<1>15. QED
  BY <1>12, <1>14 DEF Kept, d

\* The clean-up keeps every entity whose resource is still there; of a
\* filesystem, at least the id is expected.
LEMMA KeptIfPresent ==
  ASSUME NEW a, IsAnswer(a), KeepsNamesApart(a), NEW b, IsAnswer(b), KeepsNamesApart(b),
         NEW cron, NEW kind, NEW key, NEW v,
         Origin(ShownOf(a, options), cron, kind, key, v), Present(b, kind, key)
  PROVE  \/ Kept(ShownOf(b, options), cron, kind, key, v)
         \/ kind = "filesystem" /\ <<kind, key>> \in Expected(ShownOf(b, options), cron)
<1> DEFINE c == ShownOf(a, options)
<1> USE DEF DiskClass, PoolClass, PoolValues, ScrubClass, ProjectClass, ContainerClass, ContainerKinds,
            ContainerValues, MachineClass
<1>1. CASE /\ kind \in {"disk_smart_status", "disk_bad_sectors"}
           /\ key \in {d.ref.name : d \in ToSet(b.disks)}
           /\ \A d \in ToSet(b.disks) : d.ref.name = key => ~d.israid /\ ~d.virtual
  <2>1. /\ v = DiskDevice(key)
        /\ \E i \in DOMAIN c.disk : c.disk[i].key = key /\ DiskIsSmartEligible(c.disk[i])
    BY <1>1 DEF Origin
  <2>2. QED
    BY <1>1, <2>1, KeptDisk
<1>2. CASE kind = "filesystem" /\ \E f \in ToSet(b.fs) : f.uuid = key /\ f.type \notin {"zfs", "swap"}
  <2>1. key \in Keys(PlainOnes(c))
    BY <1>2 DEF Origin
  <2>2. QED
    BY <1>2, <2>1, KeptFilesystem
<1>3. CASE /\ kind = "raid"
           /\ \E array \in ToSet(b.md) : array.ref.name = key
           /\ \A d \in ToSet(b.disks) : d.ref.name = key => d.israid /\ d.array \in {None, key}
  <2>1. key \in Keys(c.raid) /\ v = IF key \in c.known THEN DiskDevice(key) ELSE Hub
    BY <1>3 DEF Origin
  <2>2. QED
    BY <1>3, <2>1, KeptRaid
<1>4. CASE /\ kind = "zfs_dataset" /\ b.pools # <<>>
           /\ \E d \in ToSet(b.datasets) : d.path = key /\ d.type \in {"Filesystem", "Volume"}
  <2>1. key \in Keys(c.datasets) /\ v = DatasetDevice(key)
    BY <1>4 DEF Origin
  <2>2. QED
    BY <1>4, <2>1, KeptDataset
<1>5. CASE /\ kind \in {"zfs_pool", "scrub_active", "scrub"}
           /\ key \in Keys(NormalizeZfsPools(b.pools))
  <2>1. key \in Keys(c.pools) /\ v = PoolDevice(key)
    BY <1>5 DEF Origin
  <2>2. QED
    BY <1>5, <2>1, KeptPool
<1>6. CASE kind \in {"compose_project", "compose_button"} /\ key \in b.files
  <2>1. key \in Keys(c.projects) /\ v = ProjectDevice(key)
    BY <1>6 DEF Origin
  <2>2. QED
    BY <1>6, <2>1, KeptProject
<1>7. CASE /\ kind \in ContainerKinds
           /\ \E x \in ToSet(b.containers) :
                /\ x.name = key
                /\ \A names \in SelectedValues(options, "projects") :
                     (IF x.label # NoProject THEN x.label ELSE x.inspect) \in names \ {NoProject}
  <2>1. key \in Keys(c.compose) /\ v = ContainerDevice(key)
    BY <1>7 DEF Origin
  <2>2. QED
    BY <1>7, <2>1, KeptContainer
<1>8. CASE \/ kind \in MachineClass /\ key \in b.vms
           \/ kind = "service" /\ key \in b.services
           \/ kind \in {"rsync_run", "rsync_enabled"} /\ key \in b.rsync
           \/ kind = "cron_run" /\ key \in b.cron
  <2>1. \/ kind \in MachineClass /\ key \in c.vms /\ v = VmDevice(key) /\ key \in b.vms
        \/ kind = "service" /\ key \in c.services /\ v = Hub /\ key \in b.services
        \/ kind \in {"rsync_run", "rsync_enabled"} /\ v = Hub /\ key \in b.rsync
        \/ kind = "cron_run" /\ key \in c.cron \cap cron /\ v = Hub /\ key \in b.cron
    BY <1>8 DEF Origin
  <2>2. QED
    BY <2>1, KeptSource
<1>9. CASE kind = "network" /\ \E n \in ToSet(b.networks) : n.uuid = key /\ n.type # "loopback"
  <2>1. key \in Keys(c.networks) /\ v = Hub
    BY <1>9 DEF Origin
  <2>2. QED
    BY <1>9, <2>1, KeptNetwork
<1>10. QED
  BY <1>1, <1>2, <1>3, <1>4, <1>5, <1>6, <1>7, <1>8, <1>9 DEF Present

-----------------------------------------------------------------------------

\* An entry of a loaded entry's registry was created from some answer of the
\* appliance, under the selection that is still stored.
RegisteredFrom ==
  Loaded => \A e \in registered : \E a \in Appliances :
              \E c \in Created(ShownOf(a, options), CronSelection) :
                c.id = e.id /\ c.device = e.device

PruneInv == ServedInv /\ RegisteredFrom

LEMMA InitPrune == Init => PruneInv
  BY InitServed DEF Init, PruneInv, RegisteredFrom, Loaded

\* After a setup, every entry is that of an entity that is created.
LEMMA RegisteredCreated ==
  ASSUME NEW d, Shape(d), NEW cron, NEW e \in RegisteredBySetup(d, cron)
  PROVE  \E c \in Created(d, cron) : c.id = e.id /\ c.device = e.device
<1> DEFINE kept == CleanedUp(Migrated(registered, d), d, cron)
           created == Created(d, cron)
           custom == {x.id : x \in {f \in kept : f.custom}}
           New(c) == [id |-> c.id, device |-> c.device, custom |-> c.id \in custom]
<1>1. \A x \in kept : x.id \in Expected(d, cron)
  BY DEF CleanedUp
<1>2. RegisteredBySetup(d, cron) = {x \in kept : x.id \notin {c.id : c \in created}} \cup {New(c) : c \in created}
  BY DEF RegisteredBySetup, Added
<1> HIDE DEF kept
<1>3. \A x \in kept : \E c \in created : c.id = x.id
  BY <1>1, ExpectedCreated DEF Shape
<1> HIDE DEF created
<1> HIDE DEF custom
<1>4. \E c \in created : e = New(c)
  BY <1>2, <1>3
<1>5. QED
  BY <1>4 DEF created

LEMMA NextPrune == PruneInv /\ [Next]_vars => PruneInv'
<1> SUFFICES ASSUME PruneInv, [Next]_vars PROVE PruneInv'
  OBVIOUS
<1>1. ServedInv'
  BY NextServed DEF PruneInv
<1>2. CASE ApplianceChanges
  BY <1>1, <1>2 DEF ApplianceChanges, PruneInv, RegisteredFrom, Loaded, CronSelection
<1>3. CASE Setup
  <2>1. Loaded' /\ options' = options
    BY <1>3 DEF Setup, Loaded
  <2>2. data' = ShownOf(polled', options) /\ polled' \in Appliances
    BY <1>1, <2>1 DEF ServedInv, Served, ShownOf
  <2>3. Shape(data')
    BY <2>2, AppliancesAssumption, ShapeOfPoll DEF ShownOf
  <2>4. registered' = RegisteredBySetup(data', CronSelection)
    BY <1>3 DEF Setup
  <2>5. \A e \in registered' : \E c \in Created(data', CronSelection) : c.id = e.id /\ c.device = e.device
    BY <2>3, <2>4, RegisteredCreated
  <2>6. CronSelection' = CronSelection
    BY <2>1 DEF CronSelection
  <2>7. QED
    BY <1>1, <2>1, <2>2, <2>5, <2>6 DEF PruneInv, RegisteredFrom
<1>4. CASE Poll
  <2>1. registered' \subseteq registered /\ options' = options /\ Loaded /\ Loaded'
    BY <1>4 DEF Poll, CleanedUp, Loaded
  <2>2. QED
    BY <1>1, <2>1 DEF PruneInv, RegisteredFrom, CronSelection
<1>5. CASE SaveForm
  <2>1. registered' = registered /\ entry' = IF options' = options THEN entry ELSE "loading"
    BY <1>5 DEF SaveForm
  <2>2. QED
    BY <1>1, <2>1 DEF PruneInv, RegisteredFrom, Loaded, CronSelection
<1>6. CASE UNCHANGED vars
  BY <1>1, <1>6 DEF vars, PruneInv, RegisteredFrom, Loaded, CronSelection
<1>7. QED
  BY <1>2, <1>3, <1>4, <1>5, <1>6 DEF Next

\* What PruneNeedsLoss says of an entry e that a step removes.
Lost(e) ==
  Len(e.id) = 2 /\ Present(polled', e.id[1], e.id[2])
    => e.id[1] = "filesystem" /\ e.device \notin ExpectedDevices(data')

\* An id of two parts is a kind and a key.
LEMMA PairId ==
  ASSUME NEW d, Shape(d), NEW cron, NEW c \in Created(d, cron), Len(c.id) = 2
  PROVE  c.id = <<c.id[1], c.id[2]>>
<1>1. (\E kind : c.id = <<kind>>) \/ \E kind, key : c.id = <<kind, key>>
  BY CreatedClassified, EntityFields
     DEF Classified, OfHubClass, OfDisk, OfProject, OfContainer, OfVolume, OfPool, OfScrub, OfMachine,
         OfKey, OfFilesystem, OfNetwork, OfRaid, OfDataset, From
<1>2. \A kind : Len(<<kind>>) = 1
  OBVIOUS
<1>3. PICK kind, key : c.id = <<kind, key>>
  BY <1>1, <1>2
<1>4. c.id[1] = kind /\ c.id[2] = key
  BY <1>3
<1>5. QED
  BY <1>3, <1>4

LEMMA PruneStep ==
  ASSUME PruneInv, Next, Loaded, entry' = "loaded", NEW e \in registered \ registered'
  PROVE  Lost(e)
<1>1. Poll
  <2>1. ApplianceChanges => registered' = registered
    BY DEF ApplianceChanges
  <2>2. ~Setup
    BY DEF Setup, Loaded
  <2>3. SaveForm => registered' = registered
    BY DEF SaveForm
  <2>4. QED
    BY <2>1, <2>2, <2>3 DEF Next
<1>2. /\ polled' = answers /\ data' = ShownOf(answers, options)
      /\ registered' = CleanedUp(registered, data', CronSelection)
  BY <1>1 DEF Poll, PollSucceeds, ShownOf
<1>3. ~(e.id \in Expected(data', CronSelection) /\ e.device \in ExpectedDevices(data'))
  BY <1>2 DEF CleanedUp
<1>4. SUFFICES ASSUME Len(e.id) = 2, Present(answers, e.id[1], e.id[2])
               PROVE  e.id[1] = "filesystem" /\ e.device \notin ExpectedDevices(data')
  BY <1>2 DEF Lost
<1>5. PICK a \in Appliances : \E c \in Created(ShownOf(a, options), CronSelection) :
        c.id = e.id /\ c.device = e.device
  BY DEF PruneInv, RegisteredFrom
<1>6. PICK c \in Created(ShownOf(a, options), CronSelection) : c.id = e.id /\ c.device = e.device
  BY <1>5
<1>7. /\ IsAnswer(a) /\ KeepsNamesApart(a) /\ IsAnswer(answers) /\ KeepsNamesApart(answers)
  BY AppliancesAssumption DEF PruneInv, ServedInv
<1>8. Shape(ShownOf(a, options))
  BY <1>7, ShapeOfPoll DEF ShownOf
<1>9. e.id = <<e.id[1], e.id[2]>>
  BY <1>4, <1>6, <1>8, PairId
<1>10. Origin(ShownOf(a, options), CronSelection, e.id[1], e.id[2], e.device)
  BY <1>6, <1>8, <1>9, CreatedOrigin
<1>11. \/ Kept(data', CronSelection, e.id[1], e.id[2], e.device)
       \/ e.id[1] = "filesystem" /\ <<e.id[1], e.id[2]>> \in Expected(data', CronSelection)
  BY <1>2, <1>4, <1>7, <1>10, KeptIfPresent
<1>12. QED
  BY <1>3, <1>9, <1>11 DEF Kept

\* Whatever the appliance answers from one poll to the next, no poll removes
\* what it still lists: neither the entity of a resource nor its device.
THEOREM PruningNeedsLoss == Spec => PruneNeedsLoss
<1> DEFINE Needs == Loaded /\ entry' = "loaded" =>
                      \A e \in registered \ registered' :
                        Len(e.id) = 2 /\ Present(polled', e.id[1], e.id[2])
                          => e.id[1] = "filesystem" /\ e.device \notin ExpectedDevices(data')
<1>1. PruneInv /\ Next => Needs
  BY PruneStep DEF Lost
<1>2. QED
  BY <1>1, InitPrune, NextPrune, PTL DEF Spec, PruneNeedsLoss
=============================================================================
