--------------------------- MODULE UbiSlotsProofs ---------------------------
(***************************************************************************)
(* Proofs about UbiSlots, for any number of devices, volumes, slots and    *)
(* descriptors.  That a handle's descriptors refer to its own device and   *)
(* volumes is not inductive: closing those of one slot leaves the others'  *)
(* alone only because no two slots hold the same one (Apart), and nothing  *)
(* closes what is not its own only because descriptor 0, which a closed    *)
(* slot names, is someone else's until it is struck.                       *)
(***************************************************************************)
EXTENDS UbiSlots, Sequences, FiniteSetTheorems, TLAPS

\* The daemon has descriptor 0 open before it opens a device; memory that was
\* not given is no table, and a free number refers to nothing.
SlotsAssumption ==
  /\ IsFiniteSet(Vols) /\ Sizes \subseteq Nat
  /\ SlotMax \in Nat /\ FdMax \in Nat \ {0} /\ Blocks \in Nat /\ LebSize \in Nat
  /\ 0 \in Taken
  /\ Foreign \notin Nodes /\ Free \notin Nodes /\ Foreign # Free
  /\ NoTable \notin [Vols -> [fd : Int, size : Int]]

-----------------------------------------------------------------------------
(* What the variables hold, and which slots have memory. *)
Entries == [fd : Fds \cup {-1}, size : Nat]
Infos == [count : Nat, block : Nat, total : Nat]
Records ==
  [used : BOOLEAN, dev : Devices, fd : Fds \cup {-1}, info : Infos,
   table : [Vols -> Entries] \cup {NoTable}]

\* A slot that is not accepted holds nothing, but it may still name descriptor 0.
Provided(s) ==
  IF Accepted(s) THEN HasTable(s)
  ELSE inited => slots[s].fd \in {0, -1} /\ ~HasTable(s)

Typed ==
  /\ inited \in BOOLEAN /\ struck \in BOOLEAN
  /\ slots \in [Slots -> Records]
  /\ device \in [Devices -> {sizes \in [Vols -> Nat] : Fit(sizes)}]
  /\ open \in [Fds -> Nodes \cup {Foreign, Free}]
  /\ stale \in [Slots -> SUBSET Vols]
  /\ \A s \in Slots : Provided(s)

\* The descriptors a slot names.
Held(s) == ({slots[s].fd} \cup VolumeFds(s, Vols)) \ {-1}

Own(s) ==
  Accepted(s) =>
    /\ open[slots[s].fd] = DeviceNode(s)
    /\ \A v \in Vols : Vol(s, v).fd # -1 => open[Vol(s, v).fd] = VolumeNode(s, v)

Apart(r, s) == r # s /\ Accepted(r) /\ Accepted(s) => Held(r) \cap Held(s) = {}

Kept(f) ==
  open[f] \in Nodes => f \in left \/ \E s \in Slots : f \in Held(s) /\ Accepted(s)

HoldInv ==
  /\ open[0] = Foreign
  /\ \A s \in Slots : Own(s)
  /\ \A r, s \in Slots : Apart(r, s)
  /\ \A f \in Fds : Kept(f)

\* What a slot tells, of the volumes of which it has seen the last change.
Told(s) ==
  Accepted(s) =>
    /\ slots[s].info.block = LebSize
    /\ slots[s].info.total = Blocks * LebSize
    /\ stale[s] = {} =>
         slots[s].info.count = Cardinality(Existing(device[slots[s].dev]))
    /\ \A v \in Vols \ stale[s] : Vol(s, v).size = device[slots[s].dev][v]

ToldInv == \A s \in Slots : Told(s)

-----------------------------------------------------------------------------
(* The operators that a slot is set up with. *)
Tables == [Vols -> Entries]
Volumes == [Vols -> Nat]

LEMMA TableIsMemory ==
  ASSUME SlotsAssumption, NEW t \in Tables PROVE t # NoTable
<1>1. Fds \cup {-1} \subseteq Int
  BY DEF Fds, SlotsAssumption
<1>2. t \in [Vols -> [fd : Int, size : Int]]
  BY <1>1 DEF Tables, Entries
<1> QED BY <1>2 DEF SlotsAssumption

LEMMA ReadHas ==
  ASSUME NEW t \in Tables, NEW sizes \in Volumes
  PROVE  /\ Read(t, sizes) \in Tables
         /\ \A v \in Vols :
              /\ Read(t, sizes)[v].fd = t[v].fd
              /\ Read(t, sizes)[v].size = IF sizes[v] > 0 THEN sizes[v] ELSE t[v].size
BY DEF Read, Tables, Volumes, Entries

LEMMA FreshHas ==
  ASSUME NEW d \in Devices, device[d] \in Volumes
  PROVE  /\ Fresh(d) \in Tables
         /\ \A v \in Vols : Fresh(d)[v].fd = -1 /\ Fresh(d)[v].size = device[d][v]
<1> DEFINE none == [v \in Vols |-> NoVolume]
<1>1. none \in Tables /\ \A v \in Vols : none[v].fd = -1 /\ none[v].size = 0
  BY DEF NoVolume, Tables, Entries
<1>2. Fresh(d) = Read(none, device[d])
  BY DEF Fresh
<1> HIDE DEF none
<1> QED BY <1>1, <1>2, ReadHas DEF Volumes

LEMMA ClearedHas ==
  ASSUME Typed, NEW s \in Slots, HasTable(s), NEW V \in SUBSET Vols
  PROVE  /\ Cleared(s, V) \in Tables
         /\ \A v \in Vols :
              /\ Cleared(s, V)[v].fd = IF v \in V THEN -1 ELSE Vol(s, v).fd
              /\ Cleared(s, V)[v].size = IF v \in V THEN 0 ELSE Vol(s, v).size
<1>1. slots[s].table \in Tables
  BY DEF Typed, Records, HasTable, Tables
<1> QED BY <1>1 DEF Cleared, Vol, NoVolume, Tables, Entries

LEMMA InfoTyped ==
  ASSUME SlotsAssumption, NEW sizes \in Volumes
  PROVE  Info(sizes) \in Infos
<1>1. Cardinality(Existing(sizes)) \in Nat
  BY FS_Subset, FS_CardinalityType DEF SlotsAssumption, Existing
<1> QED BY <1>1 DEF Info, Infos, SlotsAssumption

LEMMA SizedHas ==
  ASSUME Typed, NEW s \in Slots, NEW v \in Vols, NEW n \in Nat
  PROVE  /\ slots[s].dev \in Devices /\ device[slots[s].dev] \in Volumes
         /\ Sized(s, v, n) \in Volumes
         /\ \A w \in Vols : Sized(s, v, n)[w] = IF w = v THEN n ELSE device[slots[s].dev][w]
BY DEF Typed, Records, Volumes, Sized

LEMMA FitFewer ==
  ASSUME SlotsAssumption, NEW a \in Volumes, NEW b \in Volumes,
         \A v \in Vols : b[v] <= a[v], Fit(a)
  PROVE  Fit(b)
<1> DEFINE Used(x) == UNION {{v} \X (1..x[v]) : v \in Vols}
<1>1. Used(b) \subseteq Used(a)
  BY DEF Volumes
<1>2. IsFiniteSet(Used(a))
  <2>1. ASSUME NEW v \in Vols PROVE IsFiniteSet({v} \X (1..a[v]))
    <3>1. a[v] \in Int
      BY DEF Volumes
    <3>2. IsFiniteSet(1..a[v])
      BY <3>1, FS_Interval
    <3> QED BY <3>2, FS_Singleton, FS_Product
  <2>2. IsFiniteSet({{v} \X (1..a[v]) : v \in Vols})
    <3> DEFINE f == [v \in Vols |-> {v} \X (1..a[v])]
    <3>1. f \in Surjection(Vols, {{v} \X (1..a[v]) : v \in Vols})
      BY DEF Surjection
    <3> QED BY <3>1, FS_Surjection DEF SlotsAssumption
  <2> QED BY <2>1, <2>2, FS_UNION
<1>3. Cardinality(Used(b)) <= Cardinality(Used(a))
      /\ Cardinality(Used(a)) \in Nat /\ Cardinality(Used(b)) \in Nat
  BY <1>1, <1>2, FS_Subset, FS_CardinalityType
<1> QED BY <1>3 DEF Fit, SlotsAssumption

\* No volume is larger than its device.
LEMMA FitBounds ==
  ASSUME SlotsAssumption, NEW a \in Volumes, Fit(a), NEW v \in Vols
  PROVE  a[v] <= Blocks
<1> DEFINE one == [w \in Vols |-> IF w = v THEN a[v] ELSE 0]
           Used(x) == UNION {{w} \X (1..x[w]) : w \in Vols}
<1>1. one \in Volumes /\ \A w \in Vols : one[w] <= a[w]
  BY DEF Volumes
<1>2. Fit(one)
  <2> HIDE DEF one
  <2> QED BY <1>1, FitFewer
<1>3. Used(one) = {v} \X (1..a[v])
  BY DEF Volumes
<1>4. Cardinality({v} \X (1..a[v])) = a[v]
  <2>1. Cardinality({v}) = 1 /\ IsFiniteSet({v})
    BY FS_Singleton
  <2>2. Cardinality(1..a[v]) = a[v] /\ IsFiniteSet(1..a[v])
    BY FS_Interval DEF Volumes
  <2> QED BY <2>1, <2>2, FS_Product DEF Volumes
<1> QED BY <1>2, <1>3, <1>4 DEF Fit

-----------------------------------------------------------------------------
(* What the steps leave of the variables, told by their parts. *)

\* Only slot s has changed, and of that neither the owner nor the device.
Only(s) == \A r \in Slots \ {s} : slots'[r] = slots[r]
SameHandle(s) ==
  /\ slots'[s].used = slots[s].used /\ slots'[s].dev = slots[s].dev
  /\ slots'[s].fd = slots[s].fd
Gone(s) == slots'[s].fd \in {0, -1} /\ ~HasTable(s)' /\ (slots'[s].used => slots'[s].fd = -1)

LEMMA SetUpSlot ==
  ASSUME SlotsAssumption, Typed, NEW s \in Slots, HasTable(s), NEW V \in SUBSET Vols,
         NEW sizes \in Volumes, SetUp(s, V, sizes)
  PROVE  /\ slots' \in [Slots -> Records] /\ Only(s) /\ SameHandle(s) /\ HasTable(s)'
         /\ slots'[s].info = Info(sizes)
         /\ \A v \in Vols :
              /\ slots'[s].table[v].fd = IF v \in V THEN -1 ELSE Vol(s, v).fd
              /\ slots'[s].table[v].size = IF sizes[v] > 0 THEN sizes[v]
                                   ELSE IF v \in V THEN 0 ELSE Vol(s, v).size
<1> DEFINE t == Read(Cleared(s, V), sizes)
<1>1. /\ t \in Tables
      /\ \A v \in Vols :
           /\ t[v].fd = IF v \in V THEN -1 ELSE Vol(s, v).fd
           /\ t[v].size = IF sizes[v] > 0 THEN sizes[v]
                          ELSE IF v \in V THEN 0 ELSE Vol(s, v).size
  BY ClearedHas, ReadHas
<1>2. Info(sizes) \in Infos /\ t # NoTable
  BY <1>1, InfoTyped, TableIsMemory
<1>3. slots' = [slots EXCEPT ![s].table = t, ![s].info = Info(sizes)]
  BY DEF SetUp
<1> HIDE DEF t
<1>4. slots \in [Slots -> Records]
  BY DEF Typed
<1>5. slots'[s] = [slots[s] EXCEPT !.table = t, !.info = Info(sizes)] /\ Only(s)
  BY <1>3, <1>4 DEF Only
<1>6. slots' \in [Slots -> Records]
  BY <1>1, <1>2, <1>3, <1>4 DEF Records, Tables
<1>7. SameHandle(s) /\ slots'[s].table = t /\ slots'[s].info = Info(sizes)
  BY <1>4, <1>5 DEF SameHandle, Records
<1> QED BY <1>1, <1>2, <1>5, <1>6, <1>7 DEF HasTable, Vol

LEMMA RefusedSlot ==
  ASSUME SlotsAssumption, Typed, NEW s \in Slots, HasTable(s), NEW V \in SUBSET Vols,
         Refused(s, V)
  PROVE  /\ slots' \in [Slots -> Records] /\ Only(s) /\ SameHandle(s) /\ HasTable(s)'
         /\ slots'[s].info = slots[s].info
         /\ \A v \in Vols :
              /\ slots'[s].table[v].fd = IF v \in V THEN -1 ELSE Vol(s, v).fd
              /\ slots'[s].table[v].size = IF v \in V THEN 0 ELSE Vol(s, v).size
<1> DEFINE t == Cleared(s, V)
<1>1. /\ t \in Tables
      /\ \A v \in Vols : /\ t[v].fd = IF v \in V THEN -1 ELSE Vol(s, v).fd
                         /\ t[v].size = IF v \in V THEN 0 ELSE Vol(s, v).size
  BY ClearedHas
<1>2. t # NoTable
  BY <1>1, TableIsMemory
<1>3. slots' = [slots EXCEPT ![s].table = t]
  BY DEF Refused
<1> HIDE DEF t
<1>4. slots \in [Slots -> Records]
  BY DEF Typed
<1>5. slots'[s] = [slots[s] EXCEPT !.table = t] /\ Only(s)
  BY <1>3, <1>4 DEF Only
<1>6. slots' \in [Slots -> Records]
  BY <1>1, <1>3, <1>4 DEF Records, Tables
<1>7. SameHandle(s) /\ slots'[s].table = t /\ slots'[s].info = slots[s].info
  BY <1>4, <1>5 DEF SameHandle, Records
<1> QED BY <1>1, <1>2, <1>5, <1>6, <1>7 DEF HasTable, Vol

LEMMA AccessSlot ==
  ASSUME SlotsAssumption, Typed, NEW s \in Slots, HasTable(s), NEW v \in Vols, NEW f \in Fds,
         slots' = [slots EXCEPT ![s].table[v].fd = f]
  PROVE  /\ slots' \in [Slots -> Records] /\ Only(s) /\ SameHandle(s) /\ HasTable(s)'
         /\ slots'[s].info = slots[s].info
         /\ \A w \in Vols : /\ slots'[s].table[w].fd = IF w = v THEN f ELSE Vol(s, w).fd
                            /\ slots'[s].table[w].size = Vol(s, w).size
<1> DEFINE t == [slots[s].table EXCEPT ![v].fd = f]
<1>1. slots \in [Slots -> Records] /\ slots[s].table \in Tables
  BY DEF Typed, Records, Tables, HasTable
<1>2. /\ t \in Tables
      /\ \A w \in Vols : /\ t[w].fd = IF w = v THEN f ELSE Vol(s, w).fd
                         /\ t[w].size = Vol(s, w).size
  BY <1>1 DEF Tables, Entries, Vol
<1>3. t # NoTable
  BY <1>2, TableIsMemory
<1>4. slots' = [slots EXCEPT ![s].table = t]
  BY <1>1 DEF Records
<1> HIDE DEF t
<1>5. slots'[s] = [slots[s] EXCEPT !.table = t] /\ Only(s)
  BY <1>1, <1>4 DEF Only
<1>6. slots' \in [Slots -> Records]
  BY <1>1, <1>2, <1>4 DEF Records, Tables
<1>7. SameHandle(s) /\ slots'[s].table = t /\ slots'[s].info = slots[s].info
  BY <1>1, <1>5 DEF SameHandle, Records
<1> QED BY <1>2, <1>3, <1>5, <1>6, <1>7 DEF HasTable, Vol

LEMMA FailSlot ==
  ASSUME SlotsAssumption, Typed, NEW s \in Slots, slots' = [slots EXCEPT ![s] = Release(@)]
  PROVE  slots' \in [Slots -> Records] /\ Only(s) /\ Gone(s) /\ slots'[s].fd = -1
<1>1. slots \in [Slots -> Records]
  BY DEF Typed
<1>2. Release(slots[s]) \in Records /\ Release(slots[s]).fd = -1 /\ Release(slots[s]).table = NoTable
  BY <1>1 DEF Release, Records, NoInfo, Infos
<1> QED BY <1>1, <1>2 DEF Only, Gone, HasTable

LEMMA OpenFailSlot ==
  ASSUME SlotsAssumption, Typed, NEW s \in Slots, NEW d \in Devices,
         slots' = [slots EXCEPT ![s] = Release([@ EXCEPT !.dev = d])]
  PROVE  slots' \in [Slots -> Records] /\ Only(s) /\ Gone(s) /\ slots'[s].fd = -1
<1>1. slots \in [Slots -> Records]
  BY DEF Typed
<1> DEFINE x == Release([slots[s] EXCEPT !.dev = d])
<1>2. x \in Records /\ x.fd = -1 /\ x.table = NoTable
  BY <1>1 DEF Release, Records, NoInfo, Infos
<1>3. slots' = [slots EXCEPT ![s] = x]
  OBVIOUS
<1> HIDE DEF x
<1> QED BY <1>1, <1>2, <1>3 DEF Only, Gone, HasTable

LEMMA CloseSlot ==
  ASSUME SlotsAssumption, Typed, NEW s \in Slots,
         slots' = [slots EXCEPT ![s] = [Release(@) EXCEPT !.used = FALSE, !.fd = 0]]
  PROVE  slots' \in [Slots -> Records] /\ Only(s) /\ Gone(s) /\ ~slots'[s].used
<1>1. slots \in [Slots -> Records]
  BY DEF Typed
<1> DEFINE x == [Release(slots[s]) EXCEPT !.used = FALSE, !.fd = 0]
<1>2. x \in Records /\ x.fd = 0 /\ x.table = NoTable /\ x.used = FALSE
  <2>1. 0 \in Fds
    BY DEF Fds, SlotsAssumption
  <2> QED BY <1>1, <2>1 DEF Release, Records, NoInfo, Infos
<1>3. slots' = [slots EXCEPT ![s] = x]
  OBVIOUS
<1> HIDE DEF x
<1> QED BY <1>1, <1>2, <1>3 DEF Only, Gone, HasTable

LEMMA OpenSlot ==
  ASSUME SlotsAssumption, Typed, NEW d \in Devices, NEW s \in Slots, NEW f \in Fds,
         slots' = [slots EXCEPT ![s] =
                     [used |-> TRUE, dev |-> d, fd |-> f, info |-> Info(device[d]),
                      table |-> Fresh(d)]]
  PROVE  /\ slots' \in [Slots -> Records] /\ Only(s) /\ HasTable(s)'
         /\ slots'[s].used /\ slots'[s].dev = d /\ slots'[s].fd = f
         /\ slots'[s].info = Info(device[d])
         /\ \A v \in Vols : slots'[s].table[v].fd = -1 /\ slots'[s].table[v].size = device[d][v]
<1>1. slots \in [Slots -> Records] /\ device[d] \in Volumes
  BY DEF Typed, Volumes
<1> DEFINE i == Info(device[d])
           t == Fresh(d)
           x == [used |-> TRUE, dev |-> d, fd |-> f, info |-> i, table |-> t]
<1>2. i \in Infos
  BY <1>1, InfoTyped
<1>3. t \in Tables /\ \A v \in Vols : t[v].fd = -1 /\ t[v].size = device[d][v]
  BY <1>1, FreshHas
<1>4. t # NoTable
  BY <1>3, TableIsMemory
<1>5. slots' = [slots EXCEPT ![s] = x]
  OBVIOUS
<1> HIDE DEF i, t
<1>6. x \in Records /\ x.used /\ x.dev = d /\ x.fd = f /\ x.info = i /\ x.table = t
  BY <1>2, <1>3 DEF Records, Tables
<1> HIDE DEF x
<1>7. slots'[s] = x /\ Only(s) /\ slots' \in [Slots -> Records]
  BY <1>1, <1>5, <1>6 DEF Only
<1> USE DEF i, t
<1> QED BY <1>3, <1>4, <1>6, <1>7 DEF HasTable, Vol

LEMMA ClosesTyped ==
  ASSUME Typed, NEW s \in Slots, NEW F, Closes(s, F)
  PROVE  /\ open' \in [Fds -> Nodes \cup {Foreign, Free}] /\ struck' \in BOOLEAN
         /\ \A f \in Fds : open'[f] = IF f \in F THEN Free ELSE open[f]
<1>1. open' \in [Fds -> Nodes \cup {Foreign, Free}]
      /\ \A f \in Fds : open'[f] = IF f \in F THEN Free ELSE open[f]
  BY DEF Typed, Closes
<1>2. struck' \in BOOLEAN
  BY Zenon DEF Typed, Closes
<1> QED BY <1>1, <1>2

-----------------------------------------------------------------------------
(* The steps, as they are looked at below. *)
Opens(d, s, f) ==
  /\ inited
  /\ slots' = [slots EXCEPT ![s] =
                 [used |-> TRUE, dev |-> d, fd |-> f, info |-> Info(device[d]),
                  table |-> Fresh(d)]]
  /\ open' = [open EXCEPT ![f] = [dev |-> d, vol |-> {}]]
  /\ stale' = [stale EXCEPT ![s] = {}]
  /\ UNCHANGED <<inited, device, faults, left, struck>>

OpenFails(d, s) ==
  /\ inited /\ Closes(s, {slots[s].fd})
  /\ slots' = [slots EXCEPT ![s] = Release([@ EXCEPT !.dev = d])]
  /\ UNCHANGED <<inited, device, left, stale>>

Accesses(s, v, f) ==
  /\ Accepted(s) /\ ~(Vol(s, v).fd > 0)
  /\ slots' = [slots EXCEPT ![s].table[v].fd = f]
  /\ open' = [open EXCEPT ![f] = VolumeNode(s, v)]
  /\ UNCHANGED <<inited, device, faults, left, stale, struck>>

\* A volume is changed whose entry is cleared, or that was not there.
Changes(s, V, v, n) ==
  /\ Accepted(s) /\ Changed(s, V, v, n) /\ Fit(Sized(s, v, n))
  /\ V \subseteq {v} /\ (v \in V \/ ~Exists(s, v))

Step ==
  \/ ModuleInit \/ ModuleDeInit \/ OthersOpen \/ UNCHANGED vars
  \/ \E d \in Devices, s \in Slots, f \in FreeFds : ~slots[s].used /\ Opens(d, s, f)
  \/ \E d \in Devices, s \in Slots : ~slots[s].used /\ OpenFails(d, s)
  \/ \E s \in Slots : CloseDevice(s)
  \/ \E s \in Slots, V \in SUBSET Vols, v \in Vols, n \in Nat : Changes(s, V, v, n)
  \/ \E s \in Slots, V \in SUBSET Vols : Accepted(s) /\ Refused(s, V)
  \/ \E s \in Slots, v \in Vols, f \in FreeFds : Accesses(s, v, f)

LEMMA FewerFit ==
  ASSUME SlotsAssumption, Typed, NEW s \in Slots, NEW v \in Vols
  PROVE  Fit(Sized(s, v, 0))
<1>1. device[slots[s].dev] \in Volumes /\ Fit(device[slots[s].dev])
  BY DEF Typed, Records, Volumes
<1>2. /\ Sized(s, v, 0) \in Volumes
      /\ \A w \in Vols : Sized(s, v, 0)[w] = IF w = v THEN 0 ELSE device[slots[s].dev][w]
  BY SizedHas
<1>3. \A w \in Vols : Sized(s, v, 0)[w] <= device[slots[s].dev][w]
  BY <1>1, <1>2 DEF Volumes
<1> QED BY <1>1, <1>2, <1>3, FitFewer

LEMMA Steps ==
  ASSUME SlotsAssumption, Typed, [Next]_vars PROVE Step
<1>1. CASE ModuleInit \/ ModuleDeInit \/ OthersOpen \/ UNCHANGED vars
  BY <1>1 DEF Step
<1>2. ASSUME NEW d \in Devices, OpenDevice(d) PROVE Step
  BY <1>2 DEF OpenDevice, Opens, FirstFree, Lowest, Step
<1>3. ASSUME NEW d \in Devices, OpenDeviceFails(d) PROVE Step
  BY <1>3 DEF OpenDeviceFails, OpenFails, FirstFree, Step
<1>4. ASSUME NEW s \in Slots, CloseDevice(s) PROVE Step
  BY <1>4 DEF Step
<1>5. ASSUME NEW s \in Slots, NEW n \in Sizes, CreateVolume(s, n) PROVE Step
  <2>1. ASSUME NEW v \in FreeVols(s), Fit(Sized(s, v, n)), Changed(s, {}, v, n) PROVE Step
    <3>1. Changes(s, {}, v, n) /\ v \in Vols /\ n \in Nat
      BY <1>5, <2>1 DEF Changes, CreateVolume, FreeVols, SlotsAssumption
    <3> QED BY <3>1 DEF Step
  <2>2. CASE Refused(s, {})
    BY <1>5, <2>2 DEF Step, CreateVolume
  <2> QED BY <1>5, <2>1, <2>2 DEF CreateVolume
<1>6. ASSUME NEW s \in Slots, NEW v \in Vols, DestroyVolume(s, v) PROVE Step
  <2>1. CASE Changed(s, {v}, v, 0)
    <3>1. Changes(s, {v}, v, 0)
      BY <1>6, <2>1, FewerFit DEF Changes, DestroyVolume
    <3> QED BY <3>1 DEF Step
  <2>2. CASE Refused(s, {v})
    BY <1>6, <2>2 DEF Step, DestroyVolume
  <2> QED BY <1>6, <2>1, <2>2 DEF DestroyVolume
<1>7. ASSUME NEW s \in Slots, NEW v \in Vols, NEW n \in Sizes, ResizeVolume(s, v, n) PROVE Step
  <2>1. CASE Changed(s, {v}, v, n) /\ Fit(Sized(s, v, n))
    <3>1. Changes(s, {v}, v, n) /\ n \in Nat
      BY <1>7, <2>1 DEF Changes, ResizeVolume, SlotsAssumption
    <3> QED BY <3>1 DEF Step
  <2>2. CASE Refused(s, {v})
    BY <1>7, <2>2 DEF Step, ResizeVolume
  <2> QED BY <1>7, <2>1, <2>2 DEF ResizeVolume
<1>8. ASSUME NEW s \in Slots, NEW v \in Vols, Access(s, v) PROVE Step
  BY <1>8 DEF Access, Accesses, Lowest, Step
<1> QED
  BY <1>1, <1>2, <1>3, <1>4, <1>5, <1>6, <1>7, <1>8 DEF Next

-----------------------------------------------------------------------------
(* Types *)
LEMMA AcceptedHas ==
  ASSUME Typed, NEW s \in Slots, Accepted(s) PROVE HasTable(s) /\ inited
BY DEF Typed, Provided, Accepted

LEMMA ProvidedRest ==
  ASSUME Typed, NEW s \in Slots, Only(s), UNCHANGED inited, Provided(s)'
  PROVE  \A r \in Slots : Provided(r)'
<1> SUFFICES ASSUME NEW r \in Slots, r # s PROVE Provided(r)'
  OBVIOUS
<1>1. slots'[r] = slots[r] /\ Provided(r)
  BY DEF Typed, Only
<1> QED BY <1>1 DEF Provided, Accepted, HasTable

LEMMA GoneProvided ==
  ASSUME NEW s \in Slots, Gone(s) PROVE ~Accepted(s)' /\ Provided(s)'
BY DEF Gone, Provided, Accepted

LEMMA SameProvided ==
  ASSUME Typed, NEW s \in Slots, Accepted(s), SameHandle(s), UNCHANGED inited, HasTable(s)'
  PROVE  Accepted(s)' /\ Provided(s)'
BY DEF SameHandle, Provided, Accepted

\* What changes a device leaves it within its size.
LEMMA DeviceTyped ==
  ASSUME SlotsAssumption, Typed, NEW s \in Slots, NEW V \in SUBSET Vols, NEW v \in Vols,
         NEW n \in Nat, Changes(s, V, v, n)
  PROVE  /\ device' \in [Devices -> {sizes \in [Vols -> Nat] : Fit(sizes)}]
         /\ stale' \in [Slots -> SUBSET Vols]
<1>1. Sized(s, v, n) \in Volumes /\ Fit(Sized(s, v, n))
  BY SizedHas DEF Changes
<1>2. device' = [device EXCEPT ![slots[s].dev] = Sized(s, v, n)]
  BY DEF Changes, Changed
<1>3. device' \in [Devices -> {sizes \in [Vols -> Nat] : Fit(sizes)}]
  BY <1>1, <1>2 DEF Typed, Volumes
<1>4. stale' \in [Slots -> SUBSET Vols]
  BY DEF Changes, Changed, Typed
<1> QED BY <1>3, <1>4

LEMMA TypedInit == ASSUME SlotsAssumption, Init PROVE Typed
<1>1. 0 \in Fds
  BY DEF Fds, SlotsAssumption
<1>2. slots \in [Slots -> Records]
  BY <1>1 DEF Init, Unopened, NoInfo, Infos, Records
<1>3. device \in [Devices -> {sizes \in [Vols -> Nat] : Fit(sizes)}]
  <2>1. {sizes \in [Vols -> {0} \cup Sizes] : Fit(sizes)}
          \subseteq {sizes \in [Vols -> Nat] : Fit(sizes)}
    <3>1. {0} \cup Sizes \subseteq Nat
      BY DEF SlotsAssumption
    <3>2. [Vols -> {0} \cup Sizes] \subseteq [Vols -> Nat]
      BY <3>1
    <3> QED BY <3>2
  <2>2. device \in [Devices -> {sizes \in [Vols -> {0} \cup Sizes] : Fit(sizes)}]
    BY DEF Init
  <2> HIDE DEF Init
  <2> QED BY <2>1, <2>2
<1>4. \A s \in Slots : Provided(s)
  BY DEF Init, Provided, Accepted
<1>5. open \in [Fds -> Nodes \cup {Foreign, Free}] /\ stale \in [Slots -> SUBSET Vols]
      /\ inited \in BOOLEAN /\ struck \in BOOLEAN
  BY DEF Init
<1> QED BY <1>2, <1>3, <1>4, <1>5 DEF Typed

LEMMA DevicesAreNodes == \A d \in Devices : [dev |-> d, vol |-> {}] \in Nodes
<1> DEFINE node(d) == [dev |-> d, vol |-> {}]
<1> SUFFICES ASSUME NEW d \in Devices PROVE node(d) \in Nodes
  OBVIOUS
<1>1. Nodes = {node(e) : e \in Devices} \cup {[dev |-> e, vol |-> {v}] : e \in Devices, v \in Vols}
  BY DEF Nodes
<1> HIDE DEF node
<1> QED BY <1>1

LEMMA VolumesAreNodes == \A d \in Devices, v \in Vols : [dev |-> d, vol |-> {v}] \in Nodes
<1> DEFINE node(d, v) == [dev |-> d, vol |-> {v}]
<1> SUFFICES ASSUME NEW d \in Devices, NEW v \in Vols PROVE node(d, v) \in Nodes
  OBVIOUS
<1>1. node(d, v) \in {node(e, w) : e \in Devices, w \in Vols}
  <2> HIDE DEF node
  <2> QED OBVIOUS
<1> QED BY <1>1 DEF Nodes

LEMMA NodesHave ==
  ASSUME Typed, NEW s \in Slots
  PROVE  DeviceNode(s) \in Nodes /\ \A v \in Vols : VolumeNode(s, v) \in Nodes
<1>1. slots[s].dev \in Devices
  BY DEF Typed, Records
<1> QED BY <1>1, DevicesAreNodes, VolumesAreNodes DEF DeviceNode, VolumeNode

LEMMA TypedStep == ASSUME SlotsAssumption, Typed, [Next]_vars PROVE Typed'
<1>1. CASE ModuleInit
  <2>1. slots' \in [Slots -> Records]
        /\ \A s \in Slots : slots'[s].fd = -1 /\ slots'[s].table = NoTable
    BY <1>1 DEF ModuleInit, Unopened, NoInfo, Infos, Records, Typed
  <2>2. \A s \in Slots : Provided(s)'
    BY <2>1 DEF Provided, Accepted, HasTable
  <2>3. stale' \in [Slots -> SUBSET Vols] /\ inited' \in BOOLEAN
    BY <1>1 DEF ModuleInit
  <2> QED BY <1>1, <2>1, <2>2, <2>3 DEF ModuleInit, Typed
<1>2. CASE ModuleDeInit
  <2>1. \A s \in Slots : Provided(s)'
    BY <1>2 DEF ModuleDeInit, Provided, Accepted
  <2> QED BY <1>2, <2>1 DEF ModuleDeInit, Typed
<1>3. CASE OthersOpen
  <2>1. open' \in [Fds -> Nodes \cup {Foreign, Free}]
    BY <1>3 DEF OthersOpen, Typed
  <2>2. \A s \in Slots : Provided(s)'
    BY <1>3 DEF OthersOpen, Provided, Accepted, HasTable, Typed
  <2> QED BY <1>3, <2>1, <2>2 DEF OthersOpen, Typed
<1>4. CASE UNCHANGED vars
  <2>1. \A s \in Slots : Provided(s)'
    BY <1>4 DEF vars, Provided, Accepted, HasTable, Typed
  <2> QED BY <1>4, <2>1 DEF vars, Typed
<1>5. ASSUME NEW d \in Devices, NEW s \in Slots, NEW f \in FreeFds, Opens(d, s, f) PROVE Typed'
  <2>0. f \in Fds
    BY DEF FreeFds
  <2>1. /\ slots' \in [Slots -> Records] /\ Only(s) /\ HasTable(s)'
        /\ slots'[s].used /\ slots'[s].fd = f
    BY <1>5, <2>0, OpenSlot DEF Opens
  <2>2. Provided(s)'
    BY <1>5, <2>0, <2>1 DEF Opens, Provided, Accepted, Fds
  <2>3. \A r \in Slots : Provided(r)'
    BY <1>5, <2>1, <2>2, ProvidedRest DEF Opens
  <2>4. open' \in [Fds -> Nodes \cup {Foreign, Free}]
    BY <1>5, DevicesAreNodes DEF Opens, Typed
  <2>5. stale' \in [Slots -> SUBSET Vols]
    BY <1>5 DEF Opens, Typed
  <2> QED BY <1>5, <2>1, <2>3, <2>4, <2>5 DEF Opens, Typed
<1>6. ASSUME NEW d \in Devices, NEW s \in Slots, OpenFails(d, s) PROVE Typed'
  <2>1. slots' \in [Slots -> Records] /\ Only(s) /\ Gone(s)
    BY <1>6, OpenFailSlot DEF OpenFails
  <2>2. \A r \in Slots : Provided(r)'
    BY <1>6, <2>1, GoneProvided, ProvidedRest DEF OpenFails
  <2> QED BY <1>6, <2>1, <2>2, ClosesTyped DEF OpenFails, Typed
<1>7. ASSUME NEW s \in Slots, CloseDevice(s) PROVE Typed'
  <2>1. slots' \in [Slots -> Records] /\ Only(s) /\ Gone(s)
    BY <1>7, CloseSlot DEF CloseDevice
  <2>2. \A r \in Slots : Provided(r)'
    BY <1>7, <2>1, GoneProvided, ProvidedRest DEF CloseDevice
  <2>3. open' \in [Fds -> Nodes \cup {Foreign, Free}] /\ struck' \in BOOLEAN
    BY <1>7, ClosesTyped DEF CloseDevice
  <2>4. stale' \in [Slots -> SUBSET Vols]
    BY <1>7 DEF CloseDevice, Typed
  <2> QED BY <1>7, <2>1, <2>2, <2>3, <2>4 DEF CloseDevice, Typed
<1>8. ASSUME NEW s \in Slots, NEW V \in SUBSET Vols, NEW v \in Vols, NEW n \in Nat,
             Changes(s, V, v, n)
      PROVE  Typed'
  <2>1. Accepted(s) /\ HasTable(s) /\ Sized(s, v, n) \in Volumes
    BY <1>8, AcceptedHas, SizedHas DEF Changes
  <2>2. /\ device' \in [Devices -> {sizes \in [Vols -> Nat] : Fit(sizes)}]
        /\ stale' \in [Slots -> SUBSET Vols]
    BY <1>8, DeviceTyped
  <2>3. UNCHANGED inited
    BY <1>8 DEF Changes, Changed
  <2>4. CASE SetUp(s, V, Sized(s, v, n))
    <3>1. slots' \in [Slots -> Records] /\ Only(s) /\ SameHandle(s) /\ HasTable(s)'
      BY <2>1, <2>4, SetUpSlot
    <3>2. \A r \in Slots : Provided(r)'
      BY <2>1, <2>3, <3>1, SameProvided, ProvidedRest
    <3>3. open' \in [Fds -> Nodes \cup {Foreign, Free}] /\ struck' \in BOOLEAN
      BY <2>4, ClosesTyped DEF SetUp
    <3> QED BY <2>2, <2>3, <3>1, <3>2, <3>3 DEF Typed
  <2>5. CASE SetupFails(s, V)
    <3>1. slots' \in [Slots -> Records] /\ Only(s) /\ Gone(s)
      BY <2>5, FailSlot DEF SetupFails
    <3>2. \A r \in Slots : Provided(r)'
      BY <2>3, <3>1, GoneProvided, ProvidedRest
    <3>3. open' \in [Fds -> Nodes \cup {Foreign, Free}] /\ struck' \in BOOLEAN
      BY <2>5, ClosesTyped DEF SetupFails
    <3> QED BY <2>2, <2>3, <3>1, <3>2, <3>3 DEF Typed
  <2> QED BY <1>8, <2>4, <2>5 DEF Changes, Changed
<1>9. ASSUME NEW s \in Slots, NEW V \in SUBSET Vols, Accepted(s), Refused(s, V) PROVE Typed'
  <2>1. slots' \in [Slots -> Records] /\ Only(s) /\ SameHandle(s) /\ HasTable(s)'
    BY <1>9, AcceptedHas, RefusedSlot
  <2>2. \A r \in Slots : Provided(r)'
    BY <1>9, <2>1, SameProvided, ProvidedRest DEF Refused
  <2>3. open' \in [Fds -> Nodes \cup {Foreign, Free}] /\ struck' \in BOOLEAN
    BY <1>9, ClosesTyped DEF Refused
  <2>4. stale' \in [Slots -> SUBSET Vols]
    BY <1>9 DEF Refused, Typed
  <2> QED BY <1>9, <2>1, <2>2, <2>3, <2>4 DEF Refused, Typed
<1>10. ASSUME NEW s \in Slots, NEW v \in Vols, NEW f \in FreeFds, Accesses(s, v, f) PROVE Typed'
  <2>1. f \in Fds /\ VolumeNode(s, v) \in Nodes
    BY NodesHave DEF FreeFds
  <2>2. slots' \in [Slots -> Records] /\ Only(s) /\ SameHandle(s) /\ HasTable(s)'
    BY <1>10, <2>1, AcceptedHas, AccessSlot DEF Accesses
  <2>3. \A r \in Slots : Provided(r)'
    BY <1>10, <2>2, SameProvided, ProvidedRest DEF Accesses
  <2>4. open' \in [Fds -> Nodes \cup {Foreign, Free}]
    BY <1>10, <2>1 DEF Accesses, Typed
  <2> QED BY <1>10, <2>2, <2>3, <2>4 DEF Accesses, Typed
<1> QED
  BY <1>1, <1>2, <1>3, <1>4, <1>5, <1>6, <1>7, <1>8, <1>9, <1>10, Steps DEF Step

-----------------------------------------------------------------------------
(* What a handle tells *)

\* Another handle knows of the change, or it is of another device.
LEMMA ToldElsewhere ==
  ASSUME SlotsAssumption, Typed, ToldInv, NEW s \in Slots, NEW V \in SUBSET Vols,
         NEW v \in Vols, NEW n \in Nat, Changes(s, V, v, n), Only(s),
         NEW r \in Slots, r # s
  PROVE  Told(r)'
<1>1. slots'[r] = slots[r] /\ Told(r) /\ UNCHANGED inited
  BY DEF Only, ToldInv, Changes, Changed
<1>2. device' = [device EXCEPT ![slots[s].dev] = Sized(s, v, n)]
      /\ stale'[r] = IF Accepted(r) /\ slots[r].dev = slots[s].dev THEN stale[r] \cup {v}
                     ELSE stale[r]
  BY DEF Changes, Changed
<1>3. slots[s].dev \in Devices /\ slots[r].dev \in Devices
      /\ \A w \in Vols : Sized(s, v, n)[w] = IF w = v THEN n ELSE device[slots[s].dev][w]
  BY SizedHas DEF Typed, Records
<1>4. Accepted(r)' <=> Accepted(r)
  BY <1>1 DEF Accepted
<1>5. CASE ~Accepted(r)
  BY <1>4, <1>5 DEF Told
<1>6. CASE Accepted(r) /\ slots[r].dev # slots[s].dev
  <2>1. device'[slots[r].dev] = device[slots[r].dev] /\ stale'[r] = stale[r]
    BY <1>2, <1>3, <1>6 DEF Typed
  <2> QED BY <1>1, <1>4, <1>6, <2>1 DEF Told, Vol
<1>7. CASE Accepted(r) /\ slots[r].dev = slots[s].dev
  <2>1. stale'[r] = stale[r] \cup {v} /\ stale'[r] # {}
    BY <1>2, <1>7
  <2>2. \A w \in Vols \ stale'[r] : device'[slots[r].dev][w] = device[slots[r].dev][w]
    BY <1>2, <1>3, <1>7, <2>1 DEF Typed
  <2> QED BY <1>1, <1>4, <1>7, <2>1, <2>2 DEF Told, Vol
<1> QED BY <1>5, <1>6, <1>7

LEMMA ToldRest ==
  ASSUME ToldInv, NEW s \in Slots, Only(s), UNCHANGED <<inited, device>>,
         \A r \in Slots \ {s} : stale'[r] = stale[r], Told(s)'
  PROVE  ToldInv'
<1> SUFFICES ASSUME NEW r \in Slots, r # s PROVE Told(r)'
  BY DEF ToldInv
<1>1. slots'[r] = slots[r] /\ Told(r)
  BY DEF Only, ToldInv
<1> QED BY <1>1 DEF Told, Accepted, Vol

LEMMA ToldStep == ASSUME SlotsAssumption, Typed, ToldInv, [Next]_vars PROVE ToldInv'
<1>1. CASE ModuleInit
  <2>1. \A s \in Slots : slots'[s].fd = -1
    BY <1>1 DEF ModuleInit, Unopened
  <2> QED BY <2>1 DEF ToldInv, Told, Accepted
<1>2. CASE ModuleDeInit
  BY <1>2 DEF ModuleDeInit, ToldInv, Told, Accepted
<1>3. CASE OthersOpen \/ UNCHANGED vars
  <2>1. UNCHANGED <<inited, slots, device, stale>>
    BY <1>3 DEF OthersOpen, vars
  <2> QED BY <2>1 DEF ToldInv, Told, Accepted, Vol
<1>4. ASSUME NEW d \in Devices, NEW s \in Slots, NEW f \in FreeFds, Opens(d, s, f) PROVE ToldInv'
  <2>1. f \in Fds
    BY DEF FreeFds
  <2>2. /\ Only(s) /\ slots'[s].dev = d /\ slots'[s].info = Info(device[d])
        /\ \A v \in Vols : slots'[s].table[v].size = device[d][v]
    <3>1. slots' = [slots EXCEPT ![s] =
                      [used |-> TRUE, dev |-> d, fd |-> f, info |-> Info(device[d]),
                       table |-> Fresh(d)]]
      BY <1>4 DEF Opens
    <3>2. /\ Only(s) /\ slots'[s].used /\ slots'[s].dev = d /\ slots'[s].fd = f
          /\ slots'[s].info = Info(device[d])
          /\ \A v \in Vols : slots'[s].table[v].fd = -1 /\ slots'[s].table[v].size = device[d][v]
      BY <2>1, <3>1, OpenSlot
    <3> QED BY <3>2
  <2>3. Told(s)'
    BY <1>4, <2>2 DEF Told, Opens, Info, Vol
  <2>4. \A r \in Slots \ {s} : stale'[r] = stale[r]
    BY <1>4 DEF Opens
  <2> QED BY <1>4, <2>2, <2>3, <2>4, ToldRest DEF Opens
<1>5. ASSUME NEW d \in Devices, NEW s \in Slots, OpenFails(d, s) PROVE ToldInv'
  <2>1. Only(s) /\ Gone(s)
    BY <1>5, OpenFailSlot DEF OpenFails
  <2>2. Told(s)'
    BY <2>1, GoneProvided DEF Told
  <2> QED BY <1>5, <2>1, <2>2, ToldRest DEF OpenFails
<1>6. ASSUME NEW s \in Slots, CloseDevice(s) PROVE ToldInv'
  <2>1. Only(s) /\ Gone(s)
    BY <1>6, CloseSlot DEF CloseDevice
  <2>2. Told(s)'
    BY <2>1, GoneProvided DEF Told
  <2>3. \A r \in Slots \ {s} : stale'[r] = stale[r]
    BY <1>6 DEF CloseDevice
  <2> QED BY <1>6, <2>1, <2>2, <2>3, ToldRest DEF CloseDevice
<1>7. ASSUME NEW s \in Slots, NEW V \in SUBSET Vols, NEW v \in Vols, NEW n \in Nat,
             Changes(s, V, v, n)
      PROVE  ToldInv'
  <2>1. Accepted(s) /\ HasTable(s) /\ Sized(s, v, n) \in Volumes /\ Told(s) /\ UNCHANGED inited
    BY <1>7, AcceptedHas, SizedHas DEF Changes, Changed, ToldInv
  <2>2. /\ slots[s].dev \in Devices
        /\ \A w \in Vols : Sized(s, v, n)[w] = IF w = v THEN n ELSE device[slots[s].dev][w]
    BY SizedHas
  <2>3. device'[slots[s].dev] = Sized(s, v, n)
        /\ stale'[s] = stale[s] \ (V \cup Reread(Sized(s, v, n)))
    BY <1>7, <2>2 DEF Changes, Changed, Typed
  <2>4. CASE SetUp(s, V, Sized(s, v, n))
    <3>1. /\ Only(s) /\ SameHandle(s)
          /\ slots'[s].info = Info(Sized(s, v, n))
          /\ \A w \in Vols :
               slots'[s].table[w].size = IF Sized(s, v, n)[w] > 0 THEN Sized(s, v, n)[w]
                                 ELSE IF w \in V THEN 0 ELSE Vol(s, w).size
      BY <2>1, <2>4, SetUpSlot
    <3>2. ASSUME NEW w \in Vols \ stale'[s]
          PROVE  slots'[s].table[w].size = device'[slots'[s].dev][w]
      <4>1. device'[slots'[s].dev][w] = Sized(s, v, n)[w] /\ Sized(s, v, n)[w] \in Nat
        BY <2>1, <2>3, <3>1 DEF SameHandle, Volumes
      <4>2. CASE Sized(s, v, n)[w] > 0
        BY <3>1, <4>1, <4>2
      <4>3. CASE Sized(s, v, n)[w] = 0 /\ w \in V
        BY <3>1, <4>1, <4>3
      <4>4. CASE Sized(s, v, n)[w] = 0 /\ w \notin V
        <5>1. w \notin stale[s]
          BY <2>3, <4>4 DEF Reread, Existing
        <5>2. slots'[s].table[w].size = device[slots[s].dev][w]
          BY <2>1, <3>1, <4>4, <5>1 DEF Told
        <5>3. CASE w # v
          BY <2>2, <4>1, <5>2, <5>3
        <5>4. CASE w = v
          <6>1. ~(device[slots[s].dev][v] > 0) /\ device[slots[s].dev][v] \in Nat
            BY <1>7, <4>4, <5>4, SizedHas DEF Changes, Exists, Volumes
          <6> QED BY <4>1, <4>4, <5>2, <5>4, <6>1
        <5> QED BY <5>3, <5>4
      <4> QED BY <4>1, <4>2, <4>3, <4>4
    <3>3. Told(s)'
      BY <2>3, <3>1, <3>2 DEF Told, Info, SameHandle, Vol
    <3> QED BY <1>7, <3>1, <3>3, ToldElsewhere DEF ToldInv
  <2>5. CASE SetupFails(s, V)
    <3>1. Only(s) /\ Gone(s)
      BY <2>5, FailSlot DEF SetupFails
    <3>2. Told(s)'
      BY <3>1, GoneProvided DEF Told
    <3> QED BY <1>7, <3>1, <3>2, ToldElsewhere DEF ToldInv
  <2> QED BY <1>7, <2>4, <2>5 DEF Changes, Changed
<1>8. ASSUME NEW s \in Slots, NEW V \in SUBSET Vols, Accepted(s), Refused(s, V) PROVE ToldInv'
  <2>1. /\ Only(s) /\ SameHandle(s) /\ slots'[s].info = slots[s].info
        /\ \A v \in Vols : slots'[s].table[v].size = IF v \in V THEN 0 ELSE Vol(s, v).size
    BY <1>8, AcceptedHas, RefusedSlot
  <2>2. stale'[s] = stale[s] \cup V /\ UNCHANGED <<inited, device>>
        /\ \A r \in Slots \ {s} : stale'[r] = stale[r]
    BY <1>8 DEF Refused, Typed
  <2>3. Told(s)'
    BY <1>8, <2>1, <2>2 DEF Told, Vol, SameHandle, ToldInv
  <2> QED BY <2>1, <2>2, <2>3, ToldRest
<1>9. ASSUME NEW s \in Slots, NEW v \in Vols, NEW f \in FreeFds, Accesses(s, v, f) PROVE ToldInv'
  <2>1. f \in Fds
    BY DEF FreeFds
  <2>2. /\ Only(s) /\ SameHandle(s) /\ slots'[s].info = slots[s].info
        /\ \A w \in Vols : slots'[s].table[w].size = Vol(s, w).size
    BY <1>9, <2>1, AcceptedHas, AccessSlot DEF Accesses
  <2>3. Told(s)'
    BY <1>9, <2>2 DEF Told, Vol, SameHandle, ToldInv, Accesses
  <2> QED BY <1>9, <2>2, <2>3, ToldRest DEF Accesses
<1> QED
  BY <1>1, <1>2, <1>3, <1>4, <1>5, <1>6, <1>7, <1>8, <1>9, Steps DEF Step

LEMMA ToldAgrees == ASSUME SlotsAssumption, Typed, ToldInv PROVE TableAgrees
<1> SUFFICES ASSUME NEW s \in Slots, Accepted(s), HasTable(s)
             PROVE  /\ \A v \in Vols \ stale[s] :
                         /\ GetVolumeSize(s, v) = device[slots[s].dev][v] * GetBlockSize(s)
                         /\ GetVolumeBlockCount(s, v) = device[slots[s].dev][v]
                         /\ CheckVolumeExist(s, v) <=> Exists(s, v)
                    /\ stale[s] = {} =>
                         /\ GetVolumeCount(s) = Cardinality({v \in Vols : CheckVolumeExist(s, v)})
                         /\ \A v \in Vols : GetVolumeSize(s, v) <= GetTotalSize(s)
  BY DEF TableAgrees
<1>1. Told(s) /\ slots[s].dev \in Devices /\ device[slots[s].dev] \in Volumes
      /\ Fit(device[slots[s].dev])
  BY DEF ToldInv, Typed, Records, Volumes
<1>2. \A v \in Vols : device[slots[s].dev][v] \in Nat /\ device[slots[s].dev][v] <= Blocks
  BY <1>1, FitBounds DEF Volumes
<1>3. \A v \in Vols \ stale[s] :
        /\ GetVolumeSize(s, v) = device[slots[s].dev][v] * GetBlockSize(s)
        /\ GetVolumeBlockCount(s, v) = device[slots[s].dev][v]
        /\ CheckVolumeExist(s, v) <=> Exists(s, v)
  BY <1>1, <1>2 DEF Told, GetVolumeSize, GetBlockSize, GetVolumeBlockCount, CheckVolumeExist, Exists
<1>4. ASSUME stale[s] = {}
      PROVE  /\ GetVolumeCount(s) = Cardinality({v \in Vols : CheckVolumeExist(s, v)})
             /\ \A v \in Vols : GetVolumeSize(s, v) <= GetTotalSize(s)
  <2>1. {v \in Vols : CheckVolumeExist(s, v)} = Existing(device[slots[s].dev])
    BY <1>3, <1>4 DEF Existing, Exists
  <2>2. GetVolumeCount(s) = Cardinality({v \in Vols : CheckVolumeExist(s, v)})
    BY <1>1, <1>4, <2>1 DEF Told, GetVolumeCount
  <2>3. ASSUME NEW v \in Vols PROVE GetVolumeSize(s, v) <= GetTotalSize(s)
    <3>1. \A a, b, c \in Nat : a <= b => a * c <= b * c
      OBVIOUS
    <3>2. GetVolumeSize(s, v) = device[slots[s].dev][v] * LebSize
          /\ GetTotalSize(s) = Blocks * LebSize
      BY <1>1, <1>4 DEF Told, GetVolumeSize, GetTotalSize
    <3> QED BY <1>2, <3>1, <3>2 DEF SlotsAssumption
  <2> QED BY <2>2, <2>3
<1> QED BY <1>3, <1>4

\* A handle tells the sizes of the volumes that are there (MI_UBI_GetVolumeSize,
\* MI_UBI_CheckVolumeExist and the others), unless it has not seen the last change.
THEOREM TableIsRight == ASSUME SlotsAssumption PROVE Spec => []TableAgrees
<1>1. Init => ToldInv
  BY DEF Init, ToldInv, Told, Accepted
<1> QED
  BY <1>1, TypedInit, TypedStep, ToldStep, ToldAgrees, PTL DEF Spec

-----------------------------------------------------------------------------
(* Descriptors *)
LEMMA HeldHas ==
  ASSUME SlotsAssumption, Typed, NEW s \in Slots, HasTable(s)
  PROVE  \A f : f \in Held(s) <=>
                  /\ f \in Fds
                  /\ slots[s].fd = f \/ \E v \in Vols : slots[s].table[v].fd = f
<1>1. slots[s].fd \in Fds \cup {-1} /\ slots[s].table \in Tables
  BY DEF Typed, Records, HasTable, Tables
<1>2. \A v \in Vols : slots[s].table[v].fd \in Fds \cup {-1}
  BY <1>1 DEF Tables, Entries
<1>3. -1 \notin Fds
  BY DEF Fds, SlotsAssumption
<1> QED BY <1>1, <1>2, <1>3 DEF Held, VolumeFds, Vol

\* What a handle's slot names refers to its device or one of its volumes.
LEMMA HeldIsOwned ==
  ASSUME SlotsAssumption, Typed, NEW s \in Slots, Accepted(s), Own(s)
  PROVE  Held(s) = Owned(s) /\ \A f \in Held(s) : open[f] \in Nodes
<1>1. HasTable(s) /\ DeviceNode(s) \in Nodes /\ \A v \in Vols : VolumeNode(s, v) \in Nodes
  BY AcceptedHas, NodesHave
<1>2. -1 \notin Fds
  BY DEF Fds, SlotsAssumption
<1>3. \A f \in Fds : /\ slots[s].fd = f => open[f] = DeviceNode(s)
                     /\ \A v \in Vols : slots[s].table[v].fd = f => open[f] = VolumeNode(s, v)
  BY <1>2 DEF Own, Vol
<1>4. ASSUME NEW f \in Held(s) PROVE f \in Owned(s) /\ open[f] \in Nodes
  BY <1>1, <1>3, HeldHas DEF Owned, Accepted, Vol
<1>5. ASSUME NEW f \in Owned(s) PROVE f \in Held(s)
  BY <1>1, HeldHas DEF Owned, Vol
<1> QED BY <1>4, <1>5

LEMMA HeldHasNext ==
  ASSUME SlotsAssumption, Typed', NEW s \in Slots, HasTable(s)'
  PROVE  \A f : f \in Held(s)' <=>
                  /\ f \in Fds
                  /\ slots'[s].fd = f \/ \E v \in Vols : slots'[s].table[v].fd = f
<1>1. slots'[s].fd \in Fds \cup {-1} /\ slots'[s].table \in Tables
  BY DEF Typed, Records, HasTable, Tables
<1>2. \A v \in Vols : slots'[s].table[v].fd \in Fds \cup {-1}
  BY <1>1 DEF Tables, Entries
<1>3. -1 \notin Fds
  BY DEF Fds, SlotsAssumption
<1> QED BY <1>1, <1>2, <1>3 DEF Held, VolumeFds, Vol

LEMMA HeldElsewhere ==
  ASSUME NEW s \in Slots, Only(s), UNCHANGED inited
  PROVE  \A r \in Slots \ {s} :
           /\ slots'[r] = slots[r] /\ Held(r)' = Held(r)
           /\ Accepted(r)' <=> Accepted(r)
           /\ DeviceNode(r)' = DeviceNode(r)
           /\ \A v \in Vols : Vol(r, v)' = Vol(r, v) /\ VolumeNode(r, v)' = VolumeNode(r, v)
<1> SUFFICES ASSUME NEW r \in Slots \ {s}
             PROVE  /\ slots'[r] = slots[r] /\ Held(r)' = Held(r)
                    /\ Accepted(r)' <=> Accepted(r)
                    /\ DeviceNode(r)' = DeviceNode(r)
                    /\ \A v \in Vols : Vol(r, v)' = Vol(r, v) /\ VolumeNode(r, v)' = VolumeNode(r, v)
  OBVIOUS
<1>1. slots'[r] = slots[r]
  BY DEF Only
<1> QED BY <1>1 DEF Held, VolumeFds, HasTable, Accepted, DeviceNode, Vol, VolumeNode

\* Slot s no longer names what is closed, and the rest stays what it was.
Keeps(s, F) ==
  /\ SameHandle(s) /\ HasTable(s)' /\ slots[s].fd \notin F
  /\ \A v \in Vols :
       slots'[s].table[v].fd =
         IF slots[s].table[v].fd \in F THEN -1 ELSE slots[s].table[v].fd

LEMMA Sheds ==
  ASSUME SlotsAssumption, Typed, Typed', HoldInv, ~struck, NEW s \in Slots, Accepted(s),
         NEW F, F \subseteq Held(s) \cup {-1}, Closes(s, F), UNCHANGED <<inited, left>>, Only(s),
         (~Accepted(s)' /\ Held(s) \subseteq F) \/ Keeps(s, F)
  PROVE  ~struck' /\ HoldInv'
<1>1. Own(s) /\ HasTable(s)
  BY AcceptedHas DEF HoldInv
<1>2. Held(s) = Owned(s) /\ \A f \in Held(s) : open[f] \in Nodes /\ f \in Fds
  BY <1>1, HeldIsOwned, HeldHas
<1>3. -1 \notin Fds /\ 0 \in Fds
  BY DEF Fds, SlotsAssumption
<1>4. ~struck'
  BY <1>2, <1>3 DEF Closes
<1>5. \A f \in Fds : open'[f] = IF f \in F THEN Free ELSE open[f]
  BY ClosesTyped
<1>6. open'[0] = Foreign
  <2>1. 0 \notin Held(s)
    BY <1>2 DEF HoldInv, SlotsAssumption
  <2> QED BY <1>3, <1>5, <2>1 DEF HoldInv
<1>7. \A r \in Slots \ {s} :
        /\ slots'[r] = slots[r] /\ Held(r)' = Held(r)
        /\ Accepted(r)' <=> Accepted(r)
        /\ DeviceNode(r)' = DeviceNode(r)
        /\ \A v \in Vols : Vol(r, v)' = Vol(r, v) /\ VolumeNode(r, v)' = VolumeNode(r, v)
  BY HeldElsewhere
<1>8. \A r \in Slots \ {s} : Accepted(r) => Held(r) \cap F = {}
  <2> SUFFICES ASSUME NEW r \in Slots \ {s}, Accepted(r) PROVE Held(r) \cap F = {}
    OBVIOUS
  <2>1. Held(r) \cap Held(s) = {}
    BY DEF HoldInv, Apart
  <2> QED BY <2>1 DEF Held
<1>9. ASSUME NEW r \in Slots \ {s} PROVE Own(r)'
  <2> SUFFICES ASSUME Accepted(r)
               PROVE  /\ open'[slots[r].fd] = DeviceNode(r)
                      /\ \A v \in Vols : Vol(r, v).fd # -1 => open'[Vol(r, v).fd] = VolumeNode(r, v)
    BY <1>7 DEF Own
  <2>1. HasTable(r) /\ Own(r)
    BY AcceptedHas DEF HoldInv
  <2>2. \A f \in Held(r) : f \in Fds /\ f \notin F
    BY <1>8, <2>1, HeldHas
  <2>3. slots[r].fd \in Held(r) /\ \A v \in Vols : Vol(r, v).fd # -1 => Vol(r, v).fd \in Held(r)
    BY <2>1 DEF Held, VolumeFds, Accepted
  <2> QED BY <1>5, <2>1, <2>2, <2>3 DEF Own
<1>10. CASE ~Accepted(s)' /\ Held(s) \subseteq F
  <2>1. \A r \in Slots : Own(r)'
    BY <1>9, <1>10 DEF Own
  <2>2. \A q, r \in Slots : Apart(q, r)'
    BY <1>7, <1>10 DEF Apart, HoldInv
  <2>3. ASSUME NEW f \in Fds PROVE Kept(f)'
    <3> SUFFICES ASSUME open'[f] \in Nodes
                 PROVE  f \in left \/ \E r \in Slots : f \in Held(r)' /\ Accepted(r)'
      BY DEF Kept
    <3>1. f \notin F /\ open[f] \in Nodes
      BY <1>5 DEF SlotsAssumption
    <3>2. f \in left \/ \E r \in Slots : f \in Held(r) /\ Accepted(r)
      BY <3>1 DEF HoldInv, Kept
    <3> QED BY <1>7, <1>10, <3>1, <3>2
  <2> QED BY <1>4, <1>6, <2>1, <2>2, <2>3 DEF HoldInv
<1>11. CASE Keeps(s, F)
  <2>1. Accepted(s)' /\ slots'[s].fd = slots[s].fd /\ slots'[s].dev = slots[s].dev /\ HasTable(s)'
    BY <1>11 DEF Keeps, SameHandle, Accepted
  <2>2. \A f \in Fds : f \in Held(s)' <=> f \in Held(s) \ F
    <3>1. \A f \in Fds : f \in Held(s)' <=>
            slots'[s].fd = f \/ \E v \in Vols : slots'[s].table[v].fd = f
      BY <2>1, HeldHasNext
    <3>2. \A f \in Fds : f \in Held(s) <=>
            slots[s].fd = f \/ \E v \in Vols : slots[s].table[v].fd = f
      BY <1>1, HeldHas
    <3> QED BY <1>3, <1>11, <2>1, <3>1, <3>2 DEF Keeps
  <2>3. Own(s)'
    <3>1. open'[slots'[s].fd] = DeviceNode(s)'
      <4>1. slots[s].fd \in Fds
        BY DEF Accepted, Typed, Records
      <4> QED BY <1>1, <1>5, <1>11, <2>1, <4>1 DEF Keeps, Own, DeviceNode
    <3>2. ASSUME NEW v \in Vols, slots'[s].table[v].fd # -1
          PROVE  open'[slots'[s].table[v].fd] = VolumeNode(s, v)'
      <4>1. slots[s].table[v].fd \notin F /\ slots'[s].table[v].fd = slots[s].table[v].fd
        BY <1>11, <3>2 DEF Keeps
      <4>2. open[slots[s].table[v].fd] = VolumeNode(s, v)
        BY <1>1, <3>2, <4>1 DEF Own, Vol
      <4>3. slots[s].table[v].fd \in Fds
        <5>1. slots[s].table[v].fd \in Held(s)
          BY <1>1, <3>2, <4>1 DEF Held, VolumeFds, Vol
        <5> QED BY <1>2, <5>1
      <4> QED BY <1>5, <2>1, <4>1, <4>2, <4>3 DEF VolumeNode
    <3> QED BY <3>1, <3>2 DEF Own, Vol
  <2>4. ASSUME NEW q \in Slots, NEW r \in Slots PROVE Apart(q, r)'
    <3> SUFFICES ASSUME q # r, Accepted(q)', Accepted(r)', NEW f \in Held(q)', f \in Held(r)'
                 PROVE  FALSE
      BY DEF Apart
    <3>1. Accepted(q) /\ Accepted(r) /\ HasTable(q)' /\ HasTable(r)'
      BY <1>7 DEF Typed, Provided
    <3>2. f \in Fds
      BY <3>1, HeldHasNext
    <3>3. f \in Held(q) /\ f \in Held(r)
      BY <1>7, <2>2, <3>2
    <3> QED BY <3>1, <3>3 DEF HoldInv, Apart
  <2>5. ASSUME NEW f \in Fds PROVE Kept(f)'
    <3> SUFFICES ASSUME open'[f] \in Nodes
                 PROVE  f \in left \/ \E r \in Slots : f \in Held(r)' /\ Accepted(r)'
      BY DEF Kept
    <3>1. f \notin F /\ open[f] \in Nodes
      BY <1>5 DEF SlotsAssumption
    <3>2. f \in left \/ \E r \in Slots : f \in Held(r) /\ Accepted(r)
      BY <3>1 DEF HoldInv, Kept
    <3> QED BY <1>7, <2>1, <2>2, <3>1, <3>2
  <2> QED BY <1>4, <1>6, <1>9, <2>3, <2>4, <2>5 DEF HoldInv
<1> QED BY <1>10, <1>11

\* Clearing the entries of V leaves no descriptor of them, and the others theirs.
LEMMA ShedsVolumes ==
  ASSUME SlotsAssumption, Typed, HoldInv, NEW s \in Slots, Accepted(s), HasTable(s),
         NEW V \in SUBSET Vols, SameHandle(s), HasTable(s)',
         \A v \in Vols : slots'[s].table[v].fd = IF v \in V THEN -1 ELSE Vol(s, v).fd
  PROVE  Keeps(s, VolumeFds(s, V)) /\ VolumeFds(s, V) \subseteq Held(s) \cup {-1}
<1> DEFINE F == VolumeFds(s, V)
<1>1. F = {Vol(s, v).fd : v \in V} /\ F \subseteq Held(s) \cup {-1}
  BY DEF Held, VolumeFds
<1>2. /\ slots[s].fd # -1 /\ open[slots[s].fd] = DeviceNode(s)
      /\ \A v \in Vols : Vol(s, v).fd # -1 => open[Vol(s, v).fd] = VolumeNode(s, v)
  BY DEF HoldInv, Own, Accepted
<1>3. \A v, w \in Vols : /\ VolumeNode(s, v) # DeviceNode(s)
                         /\ VolumeNode(s, v) = VolumeNode(s, w) => v = w
  <2> TAKE v, w \in Vols
  <2>1. {v} # {} /\ ({v} = {w} => v = w)
    OBVIOUS
  <2>2. VolumeNode(s, v).vol = {v} /\ VolumeNode(s, w).vol = {w} /\ DeviceNode(s).vol = {}
    BY DEF VolumeNode, DeviceNode
  <2> QED BY <2>1, <2>2
<1>4. slots[s].fd \notin F
  BY <1>1, <1>2, <1>3
<1>5. ASSUME NEW v \in Vols
      PROVE  slots'[s].table[v].fd = IF Vol(s, v).fd \in F THEN -1 ELSE Vol(s, v).fd
  <2>1. CASE v \in V
    BY <1>1, <2>1
  <2>2. CASE v \notin V /\ Vol(s, v).fd # -1
    <3>1. Vol(s, v).fd \notin F
      BY <1>1, <1>2, <1>3, <2>2
    <3> QED BY <2>2, <3>1
  <2>3. CASE v \notin V /\ Vol(s, v).fd = -1
    BY <2>3
  <2> QED BY <2>1, <2>2, <2>3
<1> QED BY <1>1, <1>4, <1>5 DEF Keeps, Vol

\* Slot s gets one more descriptor, which was free.
LEMMA Takes ==
  ASSUME SlotsAssumption, Typed, Typed', HoldInv, NEW s \in Slots, NEW f \in FreeFds, NEW node,
         open' = [open EXCEPT ![f] = node], UNCHANGED <<inited, left>>, Only(s), Accepted(s)',
         Own(s)',
         \A g \in Fds : g \in Held(s)' <=> g = f \/ (Accepted(s) /\ g \in Held(s))
  PROVE  HoldInv'
<1>1. f \in Fds /\ open[f] = Free /\ 0 \in Fds
  BY DEF FreeFds, Fds, SlotsAssumption
<1>2. \A g \in Fds : open'[g] = IF g = f THEN node ELSE open[g]
  BY <1>1 DEF Typed
<1>3. open'[0] = Foreign
  BY <1>1, <1>2 DEF HoldInv, SlotsAssumption
<1>4. \A r \in Slots \ {s} :
        /\ slots'[r] = slots[r] /\ Held(r)' = Held(r)
        /\ Accepted(r)' <=> Accepted(r)
        /\ DeviceNode(r)' = DeviceNode(r)
        /\ \A v \in Vols : Vol(r, v)' = Vol(r, v) /\ VolumeNode(r, v)' = VolumeNode(r, v)
  BY HeldElsewhere
<1>5. ASSUME NEW r \in Slots, Accepted(r), NEW g \in Held(r) PROVE g \in Fds /\ g # f
  <2>1. HasTable(r) /\ Own(r)
    BY <1>5, AcceptedHas DEF HoldInv
  <2>2. g \in Fds /\ open[g] \in Nodes
    BY <1>5, <2>1, HeldHas, HeldIsOwned
  <2> QED BY <1>1, <2>2 DEF SlotsAssumption
<1>6. ASSUME NEW r \in Slots \ {s} PROVE Own(r)'
  <2> SUFFICES ASSUME Accepted(r)
               PROVE  /\ open'[slots[r].fd] = DeviceNode(r)
                      /\ \A v \in Vols : Vol(r, v).fd # -1 => open'[Vol(r, v).fd] = VolumeNode(r, v)
    BY <1>4 DEF Own
  <2>1. HasTable(r) /\ Own(r)
    BY AcceptedHas DEF HoldInv
  <2>2. slots[r].fd \in Held(r) /\ \A v \in Vols : Vol(r, v).fd # -1 => Vol(r, v).fd \in Held(r)
    BY <2>1 DEF Held, VolumeFds, Accepted
  <2> QED BY <1>2, <1>5, <2>1, <2>2 DEF Own
<1>7. ASSUME NEW q \in Slots, NEW r \in Slots PROVE Apart(q, r)'
  <2> SUFFICES ASSUME q # r, Accepted(q)', Accepted(r)', NEW g \in Held(q)', g \in Held(r)'
               PROVE  FALSE
    BY DEF Apart
  <2>1. HasTable(q)' /\ HasTable(r)'
    BY DEF Typed, Provided
  <2>2. g \in Fds
    BY <2>1, HeldHasNext
  <2>3. CASE q # s /\ r # s
    BY <1>4, <2>3 DEF HoldInv, Apart
  <2>4. CASE q = s
    <3>1. Accepted(r) /\ g \in Held(r) /\ g # f
      BY <1>4, <1>5, <2>4
    <3>2. Accepted(s) /\ g \in Held(s)
      BY <2>2, <2>4, <3>1
    <3> QED BY <2>4, <3>1, <3>2 DEF HoldInv, Apart
  <2>5. CASE r = s
    <3>1. Accepted(q) /\ g \in Held(q) /\ g # f
      BY <1>4, <1>5, <2>5
    <3>2. Accepted(s) /\ g \in Held(s)
      BY <2>2, <2>5, <3>1
    <3> QED BY <2>5, <3>1, <3>2 DEF HoldInv, Apart
  <2> QED BY <2>3, <2>4, <2>5
<1>8. ASSUME NEW g \in Fds PROVE Kept(g)'
  <2> SUFFICES ASSUME open'[g] \in Nodes
               PROVE  g \in left \/ \E r \in Slots : g \in Held(r)' /\ Accepted(r)'
    BY DEF Kept
  <2>1. CASE g = f
    BY <2>1
  <2>2. CASE g # f
    <3>1. g \in left \/ \E r \in Slots : g \in Held(r) /\ Accepted(r)
      BY <1>2, <2>2 DEF HoldInv, Kept
    <3> QED BY <1>4, <3>1
  <2> QED BY <2>1, <2>2
<1> QED BY <1>3, <1>6, <1>7, <1>8 DEF HoldInv

\* A slot that is not accepted, before and after, does not matter.
LEMMA HoldRest ==
  ASSUME HoldInv, NEW s \in Slots, Only(s), UNCHANGED <<inited, open, left>>,
         ~Accepted(s), ~Accepted(s)'
  PROVE  HoldInv'
<1>1. \A r \in Slots \ {s} :
        /\ slots'[r] = slots[r] /\ Held(r)' = Held(r)
        /\ Accepted(r)' <=> Accepted(r)
        /\ DeviceNode(r)' = DeviceNode(r)
        /\ \A v \in Vols : Vol(r, v)' = Vol(r, v) /\ VolumeNode(r, v)' = VolumeNode(r, v)
  BY HeldElsewhere
<1>2. \A r \in Slots : Own(r)'
  BY <1>1 DEF HoldInv, Own
<1>3. \A q, r \in Slots : Apart(q, r)'
  BY <1>1 DEF HoldInv, Apart
<1>4. \A f \in Fds : Kept(f)'
  BY <1>1 DEF HoldInv, Kept
<1> QED BY <1>2, <1>3, <1>4 DEF HoldInv

\* The descriptor struck is 0, by a slot that is not in use.
ZeroStruck ==
  /\ \A f \in Fds : open'[f] # open[f] => f = 0
  /\ \E s \in Slots : ~slots[s].used /\ slots[s].fd = 0

LEMMA HoldStep ==
  ASSUME SlotsAssumption, Typed, Typed', HoldInv, ~struck, [Next]_vars
  PROVE  (~struck' /\ HoldInv') \/ (struck' /\ ZeroStruck)
<1>1. CASE ModuleInit
  <2>1. \A s \in Slots : ~Accepted(s) /\ ~Accepted(s)'
    BY <1>1 DEF ModuleInit, Accepted, Unopened
  <2>2. \A s \in Slots : Own(s)'
    BY <2>1 DEF Own
  <2>3. \A r, s \in Slots : Apart(r, s)'
    BY <2>1 DEF Apart
  <2>4. \A f \in Fds : Kept(f)'
    BY <1>1, <2>1 DEF ModuleInit, HoldInv, Kept
  <2> QED BY <1>1, <2>2, <2>3, <2>4 DEF ModuleInit, HoldInv
<1>2. CASE ModuleDeInit
  <2>1. \A s \in Slots : ~Accepted(s)'
    BY <1>2 DEF ModuleDeInit, Accepted
  <2>2. \A s \in Slots : Own(s)'
    BY <2>1 DEF Own
  <2>3. \A r, s \in Slots : Apart(r, s)'
    BY <2>1 DEF Apart
  <2>4. ASSUME NEW f \in Fds PROVE Kept(f)'
    <3> SUFFICES ASSUME open[f] \in Nodes PROVE f \in left'
      BY <1>2 DEF ModuleDeInit, Kept
    <3>1. f \in left \/ \E s \in Slots : f \in Held(s) /\ Accepted(s)
      BY DEF HoldInv, Kept
    <3>2. f \in left \/ \E s \in Slots : f \in Owned(s)
      BY <3>1, HeldIsOwned DEF HoldInv
    <3> QED BY <1>2, <3>2 DEF ModuleDeInit
  <2> QED BY <1>2, <2>2, <2>3, <2>4 DEF ModuleDeInit, HoldInv
<1>3. CASE OthersOpen
  <2>1. PICK f \in FreeFds : open' = [open EXCEPT ![f] = Foreign]
    BY <1>3 DEF OthersOpen, Lowest
  <2>2. f \in Fds /\ open[f] = Free /\ 0 \in Fds
    BY DEF FreeFds, Fds, SlotsAssumption
  <2>3. \A g \in Fds : open'[g] = IF g = f THEN Foreign ELSE open[g]
    BY <2>1, <2>2 DEF Typed
  <2>4. \A s \in Slots : (Accepted(s)' <=> Accepted(s)) /\ Held(s)' = Held(s)
    BY <1>3 DEF OthersOpen, Accepted, Held, VolumeFds, HasTable, Vol
  <2>5. ASSUME NEW s \in Slots PROVE Own(s)'
    <3> SUFFICES ASSUME Accepted(s)
                 PROVE  /\ open'[slots[s].fd] = DeviceNode(s)
                        /\ \A v \in Vols : Vol(s, v).fd # -1 => open'[Vol(s, v).fd] = VolumeNode(s, v)
      BY <1>3, <2>4 DEF OthersOpen, Own, DeviceNode, VolumeNode, Vol
    <3>1. HasTable(s) /\ Own(s)
      BY AcceptedHas DEF HoldInv
    <3>2. slots[s].fd \in Held(s) /\ \A v \in Vols : Vol(s, v).fd # -1 => Vol(s, v).fd \in Held(s)
      BY <3>1 DEF Held, VolumeFds, Accepted
    <3>3. \A g \in Held(s) : g \in Fds /\ g # f
      BY <2>2, <3>1, HeldHas, HeldIsOwned DEF SlotsAssumption
    <3> QED BY <2>3, <3>1, <3>2, <3>3 DEF Own
  <2>6. \A r, s \in Slots : Apart(r, s)'
    BY <2>4 DEF HoldInv, Apart
  <2>7. \A g \in Fds : Kept(g)'
    BY <1>3, <2>3, <2>4 DEF OthersOpen, HoldInv, Kept, SlotsAssumption
  <2>8. open'[0] = Foreign
    BY <2>2, <2>3 DEF HoldInv
  <2> QED BY <1>3, <2>5, <2>6, <2>7, <2>8 DEF OthersOpen, HoldInv
<1>4. CASE UNCHANGED vars
  <2>1. \A s \in Slots : /\ Accepted(s)' <=> Accepted(s)
                         /\ Held(s)' = Held(s) /\ (Own(s)' <=> Own(s))
    BY <1>4 DEF vars, Accepted, Held, VolumeFds, HasTable, Vol, Own, DeviceNode, VolumeNode
  <2>2. \A r, s \in Slots : Apart(r, s)'
    BY <2>1 DEF HoldInv, Apart
  <2>3. \A f \in Fds : Kept(f)'
    BY <1>4, <2>1 DEF vars, HoldInv, Kept
  <2> QED BY <1>4, <2>1, <2>2, <2>3 DEF vars, HoldInv
<1>5. ASSUME NEW d \in Devices, NEW s \in Slots, NEW f \in FreeFds, ~slots[s].used,
             Opens(d, s, f)
      PROVE  ~struck' /\ HoldInv'
  <2>1. f \in Fds /\ -1 \notin Fds
    BY DEF FreeFds, Fds
  <2>2. /\ Only(s) /\ HasTable(s)' /\ slots'[s].used /\ slots'[s].dev = d /\ slots'[s].fd = f
        /\ \A v \in Vols : slots'[s].table[v].fd = -1
    <3>1. slots' = [slots EXCEPT ![s] =
                      [used |-> TRUE, dev |-> d, fd |-> f, info |-> Info(device[d]),
                       table |-> Fresh(d)]]
      BY <1>5 DEF Opens
    <3>2. /\ Only(s) /\ HasTable(s)' /\ slots'[s].used /\ slots'[s].dev = d /\ slots'[s].fd = f
          /\ slots'[s].info = Info(device[d])
          /\ \A v \in Vols : slots'[s].table[v].fd = -1 /\ slots'[s].table[v].size = device[d][v]
      BY <2>1, <3>1, OpenSlot
    <3> QED BY <3>2
  <2>3. Accepted(s)' /\ ~Accepted(s)
    BY <1>5, <2>1, <2>2 DEF Opens, Accepted
  <2>4. \A g \in Fds : g \in Held(s)' <=> g = f
    BY <2>1, <2>2, HeldHasNext
  <2>5. open' = [open EXCEPT ![f] = [dev |-> d, vol |-> {}]] /\ ~struck'
        /\ UNCHANGED <<inited, left>>
    BY <1>5 DEF Opens
  <2>6. Own(s)'
    BY <2>1, <2>2, <2>5 DEF Own, DeviceNode, Vol, Typed
  <2> QED BY <2>2, <2>3, <2>4, <2>5, <2>6, Takes
<1>6. ASSUME NEW d \in Devices, NEW s \in Slots, ~slots[s].used, OpenFails(d, s)
      PROVE  (~struck' /\ HoldInv') \/ (struck' /\ ZeroStruck)
  <2>1. Only(s) /\ ~Accepted(s)' /\ ~Accepted(s)
    BY <1>6, OpenFailSlot, GoneProvided DEF OpenFails, Accepted
  <2>2. slots[s].fd \in {0, -1} /\ Owned(s) = {} /\ -1 \notin Fds /\ 0 \in Fds
    BY <1>6, <2>1 DEF OpenFails, Typed, Provided, Owned, Fds, SlotsAssumption
  <2>3. \A f \in Fds : open'[f] = IF f = slots[s].fd THEN Free ELSE open[f]
    BY <1>6, ClosesTyped DEF OpenFails
  <2>4. CASE slots[s].fd = -1
    <3>1. open' = open
      BY <2>2, <2>3, <2>4 DEF Typed
    <3>2. ~struck'
      BY <1>6, <2>2, <2>4 DEF OpenFails, Closes
    <3> QED BY <1>6, <2>1, <3>1, <3>2, HoldRest DEF OpenFails
  <2>5. CASE slots[s].fd = 0
    <3>1. open[0] # Free
      BY DEF HoldInv, SlotsAssumption
    <3>2. struck'
      BY <1>6, <2>2, <2>5, <3>1 DEF OpenFails, Closes
    <3>3. ZeroStruck
      BY <1>6, <2>3, <2>5 DEF ZeroStruck
    <3> QED BY <3>2, <3>3
  <2> QED BY <2>2, <2>4, <2>5
<1>7. ASSUME NEW s \in Slots, CloseDevice(s) PROVE ~struck' /\ HoldInv'
  <2> DEFINE F == {slots[s].fd} \cup VolumeFds(s, Vols)
  <2>1. Only(s) /\ ~Accepted(s)'
    BY <1>7, CloseSlot, GoneProvided DEF CloseDevice
  <2>2. Accepted(s) /\ Closes(s, F) /\ UNCHANGED <<inited, left>>
    BY <1>7 DEF CloseDevice
  <2>3. F \subseteq Held(s) \cup {-1} /\ Held(s) \subseteq F
    BY DEF Held
  <2> HIDE DEF F
  <2> QED BY <2>1, <2>2, <2>3, Sheds
<1>8. ASSUME NEW s \in Slots, NEW V \in SUBSET Vols, NEW v \in Vols, NEW n \in Nat,
             Changes(s, V, v, n)
      PROVE  ~struck' /\ HoldInv'
  <2>1. Accepted(s) /\ UNCHANGED <<inited, left>> /\ HasTable(s) /\ Sized(s, v, n) \in Volumes
    BY <1>8, AcceptedHas, SizedHas DEF Changes, Changed
  <2>2. CASE SetUp(s, V, Sized(s, v, n))
    <3>1. Only(s) /\ Keeps(s, VolumeFds(s, V)) /\ VolumeFds(s, V) \subseteq Held(s) \cup {-1}
      <4>1. /\ Only(s) /\ SameHandle(s) /\ HasTable(s)'
            /\ \A w \in Vols : slots'[s].table[w].fd = IF w \in V THEN -1 ELSE Vol(s, w).fd
        BY <2>1, <2>2, SetUpSlot
      <4> QED BY <2>1, <4>1, ShedsVolumes
    <3> QED BY <2>1, <2>2, <3>1, Sheds DEF SetUp
  <2>3. CASE SetupFails(s, V)
    <3> DEFINE F == {slots[s].fd} \cup VolumeFds(s, Vols)
    <3>1. Only(s) /\ ~Accepted(s)' /\ Closes(s, F)
      BY <2>3, FailSlot, GoneProvided DEF SetupFails
    <3>2. F \subseteq Held(s) \cup {-1} /\ Held(s) \subseteq F
      BY DEF Held
    <3> HIDE DEF F
    <3> QED BY <2>1, <3>1, <3>2, Sheds
  <2> QED BY <1>8, <2>2, <2>3 DEF Changes, Changed
<1>9. ASSUME NEW s \in Slots, NEW V \in SUBSET Vols, Accepted(s), Refused(s, V)
      PROVE  ~struck' /\ HoldInv'
  <2>1. HasTable(s) /\ Closes(s, VolumeFds(s, V)) /\ UNCHANGED <<inited, left>>
    BY <1>9, AcceptedHas DEF Refused
  <2>2. /\ Only(s) /\ SameHandle(s) /\ HasTable(s)'
        /\ \A v \in Vols : slots'[s].table[v].fd = IF v \in V THEN -1 ELSE Vol(s, v).fd
    BY <1>9, <2>1, RefusedSlot
  <2>3. Keeps(s, VolumeFds(s, V)) /\ VolumeFds(s, V) \subseteq Held(s) \cup {-1}
    BY <1>9, <2>1, <2>2, ShedsVolumes
  <2> QED BY <1>9, <2>1, <2>2, <2>3, Sheds
<1>10. ASSUME NEW s \in Slots, NEW v \in Vols, NEW f \in FreeFds, Accesses(s, v, f)
       PROVE  ~struck' /\ HoldInv'
  <2>1. f \in Fds /\ -1 \notin Fds /\ open[f] = Free /\ 0 \in Fds
    BY DEF FreeFds, Fds, SlotsAssumption
  <2>2. /\ Accepted(s) /\ HasTable(s) /\ Own(s) /\ ~struck' /\ UNCHANGED <<inited, left>>
        /\ slots' = [slots EXCEPT ![s].table[v].fd = f]
        /\ open' = [open EXCEPT ![f] = VolumeNode(s, v)]
    BY <1>10, AcceptedHas DEF Accesses, HoldInv
  <2>3. /\ Only(s) /\ SameHandle(s) /\ HasTable(s)'
        /\ \A w \in Vols : slots'[s].table[w].fd = IF w = v THEN f ELSE Vol(s, w).fd
    <3>1. /\ Only(s) /\ SameHandle(s) /\ HasTable(s)' /\ slots'[s].info = slots[s].info
          /\ \A w \in Vols : /\ slots'[s].table[w].fd = IF w = v THEN f ELSE Vol(s, w).fd
                             /\ slots'[s].table[w].size = Vol(s, w).size
      BY <2>1, <2>2, AccessSlot
    <3> QED BY <3>1
  <2>4. Accepted(s)' /\ slots'[s].fd = slots[s].fd /\ slots'[s].dev = slots[s].dev
    BY <2>2, <2>3 DEF SameHandle, Accepted
  <2>5. Vol(s, v).fd = -1
    <3>1. Vol(s, v).fd # -1 => Vol(s, v).fd \in Held(s)
      BY <2>2 DEF Held, VolumeFds
    <3>2. Vol(s, v).fd # -1 => Vol(s, v).fd \in Fds /\ open[Vol(s, v).fd] \in Nodes
      BY <2>2, <3>1, HeldHas, HeldIsOwned
    <3>3. Vol(s, v).fd \in Fds => Vol(s, v).fd = 0
      BY <1>10 DEF Accesses, Fds, SlotsAssumption
    <3> QED BY <3>2, <3>3 DEF HoldInv, SlotsAssumption
  <2>6. \A g \in Fds : open'[g] = IF g = f THEN VolumeNode(s, v) ELSE open[g]
    BY <2>1, <2>2 DEF Typed
  <2>7. \A g \in Fds : g \in Held(s)' <=> g = f \/ (Accepted(s) /\ g \in Held(s))
    <3>1. \A g \in Fds : g \in Held(s)' <=>
            slots'[s].fd = g \/ \E w \in Vols : slots'[s].table[w].fd = g
      BY <2>3, HeldHasNext
    <3>2. \A g \in Fds : g \in Held(s) <=>
            slots[s].fd = g \/ \E w \in Vols : slots[s].table[w].fd = g
      BY <2>2, HeldHas
    <3> QED BY <2>1, <2>2, <2>3, <2>4, <2>5, <3>1, <3>2 DEF Vol
  <2>8. Own(s)'
    <3>1. \A g \in Held(s) : g \in Fds /\ g # f
      BY <2>1, <2>2, HeldHas, HeldIsOwned DEF SlotsAssumption
    <3>2. open'[slots'[s].fd] = DeviceNode(s)'
      <4>1. slots[s].fd \in Held(s)
        BY <2>2 DEF Held, Accepted
      <4> QED BY <2>2, <2>4, <2>6, <3>1, <4>1 DEF Own, DeviceNode
    <3>3. ASSUME NEW w \in Vols, slots'[s].table[w].fd # -1
          PROVE  open'[slots'[s].table[w].fd] = VolumeNode(s, w)'
      <4>1. CASE w = v
        BY <2>1, <2>3, <2>4, <2>6, <4>1 DEF VolumeNode
      <4>2. CASE w # v
        <5>1. slots'[s].table[w].fd = Vol(s, w).fd /\ open[Vol(s, w).fd] = VolumeNode(s, w)
          BY <2>2, <2>3, <3>3, <4>2 DEF Own
        <5>2. Vol(s, w).fd \in Held(s)
          BY <2>2, <3>3, <5>1 DEF Held, VolumeFds
        <5> QED BY <2>4, <2>6, <3>1, <5>1, <5>2 DEF VolumeNode
      <4> QED BY <4>1, <4>2
    <3> QED BY <3>2, <3>3 DEF Own, Vol
  <2> QED BY <2>2, <2>3, <2>4, <2>7, <2>8, Takes
<1> QED
  BY <1>1, <1>2, <1>3, <1>4, <1>5, <1>6, <1>7, <1>8, <1>9, <1>10, Steps
     DEF Step, ModuleInit, ModuleDeInit, OthersOpen, vars

\* Until descriptor 0 is struck.
SafeInv == ~struck => HoldInv

LEMMA HoldInit == ASSUME SlotsAssumption, Init PROVE HoldInv
<1>1. 0 \in Fds /\ \A s \in Slots : ~Accepted(s)
  BY DEF Init, Fds, Accepted, SlotsAssumption
<1>2. open[0] = Foreign /\ \A f \in Fds : open[f] \notin Nodes
  BY <1>1 DEF Init, SlotsAssumption
<1> QED BY <1>1, <1>2 DEF HoldInv, Own, Apart, Kept

LEMMA StruckStays == ASSUME struck, Step PROVE struck'
<1>1. \A s \in Slots : \A F : Closes(s, F) => struck'
  BY DEF Closes
<1>2. CASE ModuleInit \/ ModuleDeInit \/ OthersOpen \/ UNCHANGED vars
  BY <1>2 DEF ModuleInit, ModuleDeInit, OthersOpen, vars
<1>3. \A d \in Devices, s \in Slots : OpenFails(d, s) => struck'
  BY <1>1 DEF OpenFails
<1>4. \A s \in Slots : CloseDevice(s) => struck'
  BY <1>1 DEF CloseDevice
<1>5. \A s \in Slots, V \in SUBSET Vols, v \in Vols, n \in Nat : Changes(s, V, v, n) => struck'
  BY <1>1 DEF Changes, Changed, SetUp, SetupFails
<1>6. \A s \in Slots, V \in SUBSET Vols : Refused(s, V) => struck'
  BY <1>1 DEF Refused
<1>7. \A s \in Slots, f \in FreeFds : /\ \A d \in Devices : Opens(d, s, f) => struck'
                                      /\ \A v \in Vols : Accesses(s, v, f) => struck'
  BY DEF Opens, Accesses
<1> QED
  BY <1>2, <1>3, <1>4, <1>5, <1>6, <1>7 DEF Step

LEMMA SafeStep == ASSUME SlotsAssumption, Typed, Typed', SafeInv, [Next]_vars PROVE SafeInv'
<1>1. CASE struck
  <2>1. struck'
    BY <1>1, Steps, StruckStays
  <2> QED BY <2>1 DEF SafeInv
<1>2. CASE ~struck
  BY <1>2, HoldStep DEF SafeInv
<1> QED BY <1>1, <1>2

LEMMA HoldHolds == ASSUME SlotsAssumption, Typed, SafeInv PROVE HandlesHoldTheirs
<1> SUFFICES ASSUME HoldInv PROVE HandlesHoldTheirs
  BY DEF SafeInv, HandlesHoldTheirs
<1>1. ASSUME NEW s \in Slots, Accepted(s)
      PROVE  /\ HasTable(s) /\ Reachable(s)
             /\ \A v \in Vols : Vol(s, v).fd # -1 => open[Vol(s, v).fd] = VolumeNode(s, v)
  <2>1. HasTable(s) /\ slots[s].fd \in Fds
    BY <1>1, AcceptedHas DEF Accepted, Typed, Records
  <2> QED BY <1>1, <2>1 DEF HoldInv, Own, Reachable
<1>2. ASSUME NEW f \in Fds, open[f] \in Nodes
      PROVE  f \in left \/ \E s \in Slots : f \in Owned(s) /\ Accepted(s)
  BY <1>2, HeldIsOwned DEF HoldInv, Kept
<1> QED BY <1>1, <1>2 DEF HandlesHoldTheirs

\* A handle has its memory and its descriptors refer to its own device and
\* volumes, and none that mi_ubi.c opened is lost, whatever was opened, closed,
\* changed and failed through whatever handles.
THEOREM HandlesAreTheirs == ASSUME SlotsAssumption PROVE Spec => []HandlesHoldTheirs
<1>1. Init => SafeInv
  BY HoldInit DEF SafeInv
<1> QED
  BY <1>1, TypedInit, TypedStep, SafeStep, HoldHolds, PTL DEF Spec

\* What mi_ubi.c closes is its own, until an MI_UBI_Open that fails closes
\* descriptor 0 for a slot that was closed before.
THEOREM ZeroIsStruck == ASSUME SlotsAssumption PROVE Spec => OnlyZeroIsStruck
<1> DEFINE Act == struck' /\ ~struck =>
                    /\ \A f \in Fds : open'[f] # open[f] => f = 0
                    /\ \E s \in Slots : ~slots[s].used /\ slots[s].fd = 0
<1>1. ASSUME Typed, Typed', SafeInv, [Next]_vars PROVE [Act]_vars
  BY <1>1, HoldStep DEF SafeInv, ZeroStruck
<1>2. Init => SafeInv
  BY HoldInit DEF SafeInv
<1> QED
  BY <1>1, <1>2, TypedInit, TypedStep, SafeStep, PTL DEF Spec, OnlyZeroIsStruck
=============================================================================
