------------------------------ MODULE UbiSlots ------------------------------
(***************************************************************************)
(* The table of open UBI devices (mi_ubi.c): a handle is a slot, which     *)
(* holds the descriptor of the device and, for each volume, what was read  *)
(* of it and the descriptor it is accessed by.  Volumes are created,       *)
(* removed and resized through a handle; then the whole slot is set up     *)
(* again.  Descriptors are numbers, as open() gives them out: the lowest   *)
(* that is free, 0 included.                                               *)
(***************************************************************************)
EXTENDS Integers, FiniteSets

CONSTANTS
  Devices,    \* the attached UBI devices
  Vols,       \* the volume ids, of MI_UBI_MAX_VOLUME
  SlotMax,    \* MI_UBI_SLOT_MAX
  Sizes,      \* the sizes volumes are given, in erase blocks
  Blocks,     \* the erase blocks of a device
  LebSize,    \* the bytes of one
  FdMax,      \* how many descriptors the process may have
  Taken,      \* descriptors that other parts of the process have at first
  Foreign,    \* such a descriptor
  Free,       \* a number that is not in use
  NoTable,    \* pstUbiVolInfoTbl without memory
  MaxFaults   \* bound: calls of malloc or the kernel that fail for no reason shown here

Fds == 0..(FdMax - 1)
Slots == 1..SlotMax
Nodes == {[dev |-> d, vol |-> {}] : d \in Devices}
           \cup {[dev |-> d, vol |-> {v}] : d \in Devices, v \in Vols}

VARIABLES
  inited,   \* _bIsUBIModuleInit
  slots,    \* _astUbiSlot
  device,   \* the size of each volume of each device, 0: there is none
  open,     \* what each descriptor of the process refers to
  faults,
  left,     \* the descriptors the client had open at MI_UBI_DeInit (history)
  stale,    \* the volumes of which a slot has not seen the last change (history)
  struck    \* a close() hit a descriptor that was not the slot's (history)

vars == <<inited, slots, device, open, faults, left, stale, struck>>

NoVolumeZeroed == [fd |-> 0, size |-> 0]
NoVolume == [fd |-> -1, size |-> 0]
NoInfo == [count |-> 0, block |-> 0, total |-> 0]
Unopened(d, f) == [used |-> FALSE, dev |-> d, fd |-> f, info |-> NoInfo, table |-> NoTable]

Existing(sizes) == {v \in Vols : sizes[v] > 0}
\* The kernel gives volumes no more than the device has.
Fit(sizes) == Cardinality(UNION {{v} \X (1..sizes[v]) : v \in Vols}) <= Blocks

Init ==
  /\ inited = FALSE
  /\ \E d \in Devices : slots = [s \in Slots |-> Unopened(d, 0)]
  /\ device \in [Devices -> {sizes \in [Vols -> {0} \cup Sizes] : Fit(sizes)}]
  /\ open = [f \in Fds |-> IF f \in Taken THEN Foreign ELSE Free]
  /\ faults = 0 /\ left = {} /\ stale = [s \in Slots |-> {}] /\ struck = FALSE

-----------------------------------------------------------------------------
(* Descriptors *)

Fault == faults < MaxFaults /\ faults' = faults + 1
Sound == UNCHANGED faults

FreeFds == {f \in Fds : open[f] = Free}
Lowest == {f \in FreeFds : \A g \in FreeFds : f <= g}
DeviceNode(s) == [dev |-> slots[s].dev, vol |-> {}]
VolumeNode(s, v) == [dev |-> slots[s].dev, vol |-> {v}]

Vol(s, v) == slots[s].table[v]
HasTable(s) == slots[s].table # NoTable
VolumeFds(s, V) == IF HasTable(s) THEN {Vol(s, v).fd : v \in V} ELSE {}

\* The descriptors that slot s has opened and still has.
Owned(s) ==
  {f \in Fds :
     slots[s].used /\ \/ slots[s].fd = f /\ open[f] = DeviceNode(s)
                      \/ HasTable(s) /\ \E v \in Vols : Vol(s, v).fd = f /\ open[f] = VolumeNode(s, v)}

\* close() of each descriptor of F that is not -1.
Closes(s, F) ==
  /\ open' = [f \in Fds |-> IF f \in F THEN Free ELSE open[f]]
  /\ struck' = (struck \/ \E f \in (F \cap Fds) \ Owned(s) : open[f] # Free)

\* _MI_UBI_Handle2Slot
Accepted(s) == inited /\ slots[s].used /\ slots[s].fd # -1

-----------------------------------------------------------------------------
ModuleInit ==
  /\ ~inited /\ inited' = TRUE
  /\ slots' = [s \in Slots |-> Unopened(slots[s].dev, -1)]
  /\ stale' = [s \in Slots |-> {}]
  /\ UNCHANGED <<device, open, faults, left, struck>>

ModuleDeInit ==
  /\ inited /\ inited' = FALSE
  /\ left' = left \cup UNION {Owned(s) : s \in Slots}
  /\ UNCHANGED <<slots, device, open, faults, stale, struck>>

-----------------------------------------------------------------------------
(* _MI_UBI_Setup reads all volumes that exist and leaves the others' entries
   as they are.  When it fails, _MI_UBI_ReleaseResource closes everything. *)
ReadNew(table, sizes) ==
  [v \in Vols |-> IF sizes[v] > 0 /\ table[v].size = 0
                    THEN [table[v] EXCEPT !.size = sizes[v]] ELSE table[v]]
Read(table, sizes) ==
  [v \in Vols |-> IF sizes[v] > 0 THEN [table[v] EXCEPT !.size = sizes[v]] ELSE table[v]]

\* _MI_UBI_SetupDeviceInfo
Info(sizes) ==
  [count |-> Cardinality(Existing(sizes)), block |-> LebSize, total |-> Blocks * LebSize]

\* What else is left in the slot is not looked at before the next setup.
Release(slot) == [slot EXCEPT !.fd = -1, !.info = NoInfo, !.table = NoTable]

\* The first slot that is free: bUsed is what counts.
FirstFree ==
  {s \in Slots : ~slots[s].used /\ \A r \in 1..(s - 1) : slots[r].used}

Fresh(d) == Read([v \in Vols |-> NoVolume], device[d])

OpenDevice(d) ==
  \E s \in FirstFree, f \in Lowest :
    /\ inited
    /\ slots' = [slots EXCEPT ![s] =
                   [used |-> TRUE, dev |-> d, fd |-> f, info |-> Info(device[d]),
                    table |-> Fresh(d)]]
    /\ open' = [open EXCEPT ![f] = [dev |-> d, vol |-> {}]]
    /\ stale' = [stale EXCEPT ![s] = {}]
    /\ UNCHANGED <<inited, device, faults, left, struck>>

\* malloc, the setup or open() fails, the last also for want of a number.
OpenDeviceFails(d) ==
  \E s \in FirstFree :
    /\ inited
    /\ Fault \/ (Lowest = {} /\ Sound)
    /\ Closes(s, {slots[s].fd})
    /\ slots' = [slots EXCEPT ![s] = Release([@ EXCEPT !.dev = d])]
    /\ UNCHANGED <<inited, device, left, stale>>

CloseDevice(s) ==
  /\ Accepted(s)
  /\ Closes(s, {slots[s].fd} \cup VolumeFds(s, Vols))
  /\ slots' = [slots EXCEPT ![s] = [Release(@) EXCEPT !.used = FALSE, !.fd = 0]]
  /\ stale' = [stale EXCEPT ![s] = {}]
  /\ UNCHANGED <<inited, device, faults, left>>

-----------------------------------------------------------------------------
(* Volumes.  MI_UBI_DestroyVolume and MI_UBI_ResizeVolume close the volume of
   this slot and clear its entry before they ask the kernel. *)
Cleared(s, V) == [v \in Vols |-> IF v \in V THEN NoVolume ELSE Vol(s, v)]

\* The kernel has changed volume v, whose entries in V were cleared; the slot
\* is set up again, for which sysfs must be opened.
SetUp(s, V, sizes) ==
  /\ Closes(s, VolumeFds(s, V)) /\ FreeFds' # {} /\ Sound
  /\ slots' = [slots EXCEPT ![s].table = Read(Cleared(s, V), sizes), ![s].info = Info(sizes)]

SetupFails(s, V) ==
  /\ Fault \/ (FreeFds = {} /\ VolumeFds(s, V) \cap Fds = {} /\ Sound)
  /\ Closes(s, {slots[s].fd} \cup VolumeFds(s, Vols))
  /\ slots' = [slots EXCEPT ![s] = Release(@)]

\* The volumes that sysfs shows are read anew.
Reread(sizes) == Existing(sizes)

Sized(s, v, n) == [device[slots[s].dev] EXCEPT ![v] = n]

Changed(s, V, v, n) ==
  LET sizes == Sized(s, v, n) IN
  /\ device' = [device EXCEPT ![slots[s].dev] = sizes]
  /\ SetUp(s, V, sizes) \/ SetupFails(s, V)
  /\ stale' = [r \in Slots |->
                 IF r = s THEN stale[s] \ (V \cup Reread(sizes))
                 ELSE IF Accepted(r) /\ slots[r].dev = slots[s].dev THEN stale[r] \cup {v}
                 ELSE stale[r]]
  /\ UNCHANGED <<inited, left>>

\* The ioctl() fails.
Refused(s, V) ==
  /\ Closes(s, VolumeFds(s, V))
  /\ slots' = [slots EXCEPT ![s].table = Cleared(s, V)]
  /\ stale' = [stale EXCEPT ![s] = @ \cup V]
  /\ UNCHANGED <<inited, device, left>>

Exists(s, v) == device[slots[s].dev][v] > 0
Reachable(s) == slots[s].fd \in Fds /\ open[slots[s].fd] = DeviceNode(s)
\* The kernel leaves a volume alone that is open anywhere else.
Busy(s, v) == \E f \in Fds \ VolumeFds(s, {v}) : open[f] = VolumeNode(s, v)
Obeys(s, v) == Reachable(s) /\ Exists(s, v) /\ ~Busy(s, v)

FreeVols(s) == {v \in Vols : ~Exists(s, v)}

CreateVolume(s, n) ==
  /\ Accepted(s)
  /\ \/ /\ Reachable(s)
        /\ \E v \in FreeVols(s) :
             /\ \A w \in FreeVols(s) : v <= w
             /\ Fit(Sized(s, v, n)) /\ Changed(s, {}, v, n)
     \/ Fault /\ Refused(s, {})

DestroyVolume(s, v) ==
  /\ Accepted(s)
  /\ \/ Obeys(s, v) /\ Changed(s, {v}, v, 0)
     \/ Fault /\ Refused(s, {v})
     \/ ~Obeys(s, v) /\ Sound /\ Refused(s, {v})

ResizeVolume(s, v, n) ==
  /\ Accepted(s)
  /\ LET can == Obeys(s, v) /\ Fit(Sized(s, v, n)) IN
     \/ can /\ Changed(s, {v}, v, n)
     \/ Fault /\ Refused(s, {v})
     \/ ~can /\ Sound /\ Refused(s, {v})

\* _MI_UBI_OpenVolume, for MI_UBI_ReadVolumeBytes and MI_UBI_WriteVolumeBytes.
AccessAgain(s, v) ==
  /\ Accepted(s) /\ Exists(s, v)
  /\ \E f \in Lowest :
       /\ slots' = [slots EXCEPT ![s].table[v].fd = f]
       /\ open' = [open EXCEPT ![f] = VolumeNode(s, v)]
  /\ UNCHANGED <<inited, device, faults, left, stale, struck>>
Access(s, v) ==
  /\ Accepted(s) /\ ~(Vol(s, v).fd > 0) /\ Exists(s, v)
  /\ \E f \in Lowest :
       /\ slots' = [slots EXCEPT ![s].table[v].fd = f]
       /\ open' = [open EXCEPT ![f] = VolumeNode(s, v)]
  /\ UNCHANGED <<inited, device, faults, left, stale, struck>>

\* Another part of the process opens a file.
OthersOpen ==
  /\ \E f \in Lowest : open' = [open EXCEPT ![f] = Foreign]
  /\ UNCHANGED <<inited, slots, device, faults, left, stale, struck>>

-----------------------------------------------------------------------------
(* What a handle tells of the device and of a volume. *)
GetBlockSize(s) == slots[s].info.block
GetTotalSize(s) == slots[s].info.total
GetVolumeCount(s) == slots[s].info.count
GetVolumeBlockCount(s, v) == Vol(s, v).size
GetVolumeSize(s, v) == Vol(s, v).size * LebSize
CheckVolumeExist(s, v) == Vol(s, v).size # 0

Next ==
  \/ ModuleInit \/ ModuleDeInit
  \/ \E d \in Devices : OpenDevice(d) \/ OpenDeviceFails(d)
  \/ \E s \in Slots :
       \/ CloseDevice(s)
       \/ \E n \in Sizes : CreateVolume(s, n)
       \/ \E v \in Vols :
            \/ DestroyVolume(s, v) \/ Access(s, v)
            \/ \E n \in Sizes : ResizeVolume(s, v, n)
  \/ OthersOpen

Spec == Init /\ [][Next]_vars

-----------------------------------------------------------------------------
(* Properties *)

\* A handle that _MI_UBI_Handle2Slot accepts has its memory, and its descriptors
\* refer to its own device and volumes: no call goes astray, whatever calls of
\* whatever handles have failed before.  And no descriptor is lost: each one that
\* was opened here is held by a slot that will close it, but those of clients that
\* called MI_UBI_DeInit without closing.
HandlesHoldTheirs ==
  ~struck =>
    /\ \A s \in Slots : Accepted(s) =>
         /\ HasTable(s) /\ Reachable(s)
         /\ \A v \in Vols : Vol(s, v).fd # -1 => open[Vol(s, v).fd] = VolumeNode(s, v)
    /\ \A f \in Fds : open[f] \in Nodes =>
         f \in left \/ \E s \in Slots : f \in Owned(s) /\ Accepted(s)

\* What a handle tells of a volume's size, and of whether it exists, is so,
\* unless it was changed through another handle, or a removal or resize through
\* this one was refused, since the slot was last set up with the volume there;
\* and as long as that is so of no volume, it counts those there are, none
\* larger than what it tells of the device.
TableAgrees ==
  \A s \in Slots : Accepted(s) /\ HasTable(s) =>
    /\ \A v \in Vols \ stale[s] :
         /\ GetVolumeSize(s, v) = device[slots[s].dev][v] * GetBlockSize(s)
         /\ GetVolumeBlockCount(s, v) = device[slots[s].dev][v]
         /\ CheckVolumeExist(s, v) <=> Exists(s, v)
    /\ stale[s] = {} =>
         /\ GetVolumeCount(s) = Cardinality({v \in Vols : CheckVolumeExist(s, v)})
         /\ \A v \in Vols : GetVolumeSize(s, v) <= GetTotalSize(s)

\* The first descriptor closed that belonged to someone else is 0, by an
\* MI_UBI_Open that fails in a slot that was closed before: Close leaves 0, not -1,
\* in s32DevFd.  No other call ever closes what is not its own.
OnlyZeroIsStruck ==
  [][struck' /\ ~struck =>
       /\ \A f \in Fds : open'[f] # open[f] => f = 0
       /\ \E s \in Slots : ~slots[s].used /\ slots[s].fd = 0 ]_vars
=============================================================================
