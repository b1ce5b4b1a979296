------------------------------ MODULE UbiAttach ------------------------------
(***************************************************************************)
(* Attaching MTD partitions to UBI, and finding and detaching the device   *)
(* of a partition by the partition's name (mi_ubi.c).  The numbers of the  *)
(* MTD partitions are read once; those of the devices are looked up in     *)
(* sysfs each time, up to the first number that is not there.  Commands    *)
(* do the work, and other programs run the same ones.                      *)
(***************************************************************************)
EXTENDS Naturals, Sequences

CONSTANTS
  MtdNames,   \* the names of the MTD partitions, from number 0 on
  MtdMax,     \* MI_MTD_MAX_NUM, which is MI_UBI_MAX_PART_NUM too
  DevMax,     \* the devices UBI may have
  NoMtd       \* no partition

Names == {MtdNames[i] : i \in DOMAIN MtdNames}
Mtds == 0..(Len(MtdNames) - 1)
Devs == 0..(DevMax - 1)

VARIABLES
  inited,   \* _bIsUBIModuleInit
  filled,   \* _bMtdInfoInited
  known,    \* the entries of _astMtdPartInfo that exist
  devs,     \* the partition of each UBI device
  nodes,    \* the devices that have a node in /dev/shm
  pc,       \* the command that the call runs
  mtd,      \* its u32MtdNum
  dev,      \* its u32DeviceId
  ret,      \* whether the last call has returned MI_OK
  stirred   \* others changed the devices since the call looked (history)

vars == <<inited, filled, known, devs, nodes, pc, mtd, dev, ret, stirred>>

Init ==
  /\ inited = FALSE /\ filled = FALSE /\ known = 0
  /\ devs = [d \in Devs |-> NoMtd] /\ nodes = {}
  /\ pc = "idle" /\ mtd = 0 /\ dev = 0 /\ ret = TRUE /\ stirred = FALSE

Returns(ok) == pc' = "idle" /\ ret' = ok

-----------------------------------------------------------------------------
(* _MI_UBI_InitMtdInfo: the names up to the first number without one. *)
Filled == IF filled THEN known
          ELSE IF Len(MtdNames) < MtdMax THEN Len(MtdNames) ELSE MtdMax

ModuleInit ==
  /\ pc = "idle" /\ ~inited
  /\ inited' = TRUE /\ filled' = TRUE /\ known' = Filled
  /\ UNCHANGED <<devs, nodes, pc, mtd, dev, ret, stirred>>

\* The table itself stays.
ModuleDeInit ==
  /\ pc = "idle" /\ inited
  /\ inited' = FALSE /\ filled' = FALSE
  /\ UNCHANGED <<known, devs, nodes, pc, mtd, dev, ret, stirred>>

\* _MI_UBI_FindMtdNumByName: the first of the name, in a set of at most one.
MtdOf(n, entries) ==
  {i \in 0..(entries - 1) :
     MtdNames[i + 1] = n /\ \A j \in 0..(i - 1) : MtdNames[j + 1] # n}

\* MI_UBI_GetDevIdByPartName: no device is found behind a number without one.
DevIdOf(m) ==
  {d \in Devs : d < MtdMax /\ devs[d] = m
                /\ \A e \in 0..(d - 1) : devs[e] \notin {NoMtd, m}}

-----------------------------------------------------------------------------
AttachBegins(n, entries) ==
  /\ IF MtdOf(n, entries) = {} THEN Returns(FALSE) /\ UNCHANGED mtd
       ELSE /\ pc' = "attach" /\ UNCHANGED ret
            /\ mtd' \in MtdOf(n, entries)
  /\ UNCHANGED <<inited, devs, nodes, dev, stirred>>

Attach(n) ==
  /\ pc = "idle" /\ inited
  /\ AttachBegins(n, known)
  /\ UNCHANGED <<filled, known>>

\* mi_ubi_AttachEnvPart, for the flash environment, comes before any init.
AttachEnvPart(n) ==
  /\ pc = "idle"
  /\ filled' = TRUE /\ known' = Filled
  /\ AttachBegins(n, Filled)

Attached(m) == \E d \in Devs : devs[d] = m

\* The device number that UBI gives: the lowest that is free.
Given == {d \in Devs : devs[d] = NoMtd /\ \A e \in 0..(d - 1) : devs[e] # NoMtd}

UbiAttach ==
  /\ pc = "attach"
  /\ \/ /\ ~Attached(mtd) /\ pc' = "node" /\ UNCHANGED ret
        /\ \E d \in Given : devs' = [devs EXCEPT ![d] = mtd]
     \/ Returns(FALSE) /\ UNCHANGED devs
  /\ UNCHANGED <<inited, filled, known, nodes, mtd, dev, stirred>>

\* ubiMknod.sh; when it fails the partition stays attached, and a second attach
\* is refused by UBI before it comes to the nodes.
MakeNode ==
  /\ pc = "node"
  /\ \/ Returns(TRUE) /\ nodes' = {d \in Devs : devs[d] # NoMtd}
     \/ Returns(FALSE) /\ UNCHANGED nodes
  /\ UNCHANGED <<inited, filled, known, devs, mtd, dev, stirred>>

\* Mutant: ubidetach is given the number of the partition.
DetachByMtd(n) ==
  /\ pc = "idle" /\ inited
  /\ \/ \E m \in MtdOf(n, known) \cap Devs :
          /\ mtd' = m /\ dev' = m /\ DevIdOf(m) # {}
          /\ pc' = "detach" /\ stirred' = FALSE /\ UNCHANGED ret
     \/ /\ \A m \in MtdOf(n, known) : DevIdOf(m) = {}
        /\ Returns(FALSE) /\ UNCHANGED <<mtd, dev, stirred>>
  /\ UNCHANGED <<inited, filled, known, devs, nodes>>

Detach(n) ==
  /\ pc = "idle" /\ inited
  /\ \/ \E m \in MtdOf(n, known) :
          /\ mtd' = m /\ dev' \in DevIdOf(m)
          /\ pc' = "detach" /\ stirred' = FALSE /\ UNCHANGED ret
     \/ /\ \A m \in MtdOf(n, known) : DevIdOf(m) = {}
        /\ Returns(FALSE) /\ UNCHANGED <<mtd, dev, stirred>>
  /\ UNCHANGED <<inited, filled, known, devs, nodes>>

\* By number: whatever device has it by now.
UbiDetach ==
  /\ pc = "detach"
  /\ \/ devs[dev] # NoMtd /\ devs' = [devs EXCEPT ![dev] = NoMtd] /\ Returns(TRUE)
     \/ Returns(FALSE) /\ UNCHANGED devs
  /\ UNCHANGED <<inited, filled, known, nodes, mtd, dev, stirred>>

\* Start scripts and other programs attach and detach as well.
Others ==
  /\ \/ \E m \in Mtds, d \in Given : ~Attached(m) /\ devs' = [devs EXCEPT ![d] = m]
     \/ \E d \in Devs : devs[d] # NoMtd /\ devs' = [devs EXCEPT ![d] = NoMtd]
  /\ stirred' = TRUE
  /\ UNCHANGED <<inited, filled, known, nodes, pc, mtd, dev, ret>>

Next ==
  \/ ModuleInit \/ ModuleDeInit \/ UbiAttach \/ MakeNode \/ UbiDetach \/ Others
  \/ \E n \in Names : Attach(n) \/ AttachEnvPart(n) \/ Detach(n)

Spec == Init /\ [][Next]_vars

-----------------------------------------------------------------------------
(* Properties *)

\* MI_UBI_Detach takes away the device of the partition it was given the name
\* of and no other, unless another program changed the devices after the number
\* was looked up; and when it finds none although the partition is attached, a
\* number below the device's is free, or the device's is not looked at.
DetachesNamed ==
  [][/\ pc = "detach" /\ devs' # devs /\ ~stirred /\ ~stirred' =>
          \A d \in Devs : devs'[d] # devs[d] => devs[d] = mtd
     /\ \A n \in Names :
          Detach(n) /\ pc' = "idle" =>
            \A i \in 0..(known - 1), d \in Devs :
              MtdNames[i + 1] = n /\ devs[d] = i =>
                \/ d >= MtdMax \/ \E e \in 0..(d - 1) : devs[e] = NoMtd
                \/ \E j \in 0..(i - 1) : MtdNames[j + 1] = n]_vars
=============================================================================
