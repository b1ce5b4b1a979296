--------------------------- MODULE FlashEnvProofs ---------------------------
(***************************************************************************)
(* Proofs about FlashEnv: for an environment with a variable that no       *)
(* client sets, the partition holds a good image with everything that was  *)
(* promised, unless a store was damaged or wrote back an image that a      *)
(* failed read had left.                                                   *)
(*                                                                         *)
(* How much room strings take decides whether SetEnvVar succeeds; nothing  *)
(* below depends on that decision, so Room is never expanded.              *)
(***************************************************************************)
EXTENDS FlashEnv, TLAPS

Anchored == \E n \in DOMAIN Factory : n \notin Settable

Shape ==
  /\ loaded \in BOOLEAN
  /\ misread \in BOOLEAN /\ lost \in BOOLEAN /\ damaged \in BOOLEAN
  /\ op \in {"idle", "erase", "write"}
  /\ staged \in [Names -> Values \cup {Nothing}]
  /\ promise \in [Names -> Values \cup {Nothing}]

IInv == Shape /\ StoreInv /\ FlashComplete /\ RamComplete

-----------------------------------------------------------------------------
(* The environment starts with everything it promises: the factory values. *)
LEMMA InitHolds == ASSUME Anchored PROVE Init => IInv
<1> SUFFICES ASSUME Init PROVE IInv
  OBVIOUS
<1> USE DEF Init
<1>1. Shape
  <2>1. promise \in [Names -> Values \cup {Nothing}]
    BY FlashAssumption
  <2>2. staged \in [Names -> Values \cup {Nothing}]
    BY DEF NoValues
  <2> QED BY <2>1, <2>2 DEF Shape
<1>2. StoreInv
  BY DEF StoreInv
<1>3. FlashComplete
  <2>1. \A n \in Names : promise[n] # Nothing => Holds(flash, n, promise[n])
    <3> TAKE n \in Names
    <3> HAVE promise[n] # Nothing
    <3>1. n \in DOMAIN Factory /\ promise[n] = Factory[n]
      OBVIOUS
    <3>2. String(n, Factory[n]) \in flash.vars
      BY <3>1
    <3> QED BY <3>1, <3>2 DEF Holds, String
  <2>2. \E e \in flash.vars : e.name \notin Settable
    <3>1. PICK n \in DOMAIN Factory : n \notin Settable
      BY DEF Anchored
    <3>2. String(n, Factory[n]) \in flash.vars
      OBVIOUS
    <3> QED BY <3>1, <3>2 DEF String
  <2> QED BY <2>1, <2>2 DEF FlashComplete
<1>4. RamComplete
  BY DEF RamComplete
<1> QED BY <1>1, <1>2, <1>3, <1>4 DEF IInv

-----------------------------------------------------------------------------
(* Steps that leave the partition, both promises and op alone keep the
   partition complete. *)
LEMMA FlashUntouched ==
  ASSUME FlashComplete, UNCHANGED <<flash, promise, lost, damaged, op>>
  PROVE FlashComplete'
BY DEF FlashComplete, Intact, Holds

(* Likewise for the image in memory. *)
LEMMA RamUntouched ==
  ASSUME RamComplete, loaded' => loaded, UNCHANGED <<ram, staged, promise, misread, lost, damaged>>
  PROVE RamComplete'
BY DEF RamComplete, Holds, Pending

-----------------------------------------------------------------------------
LEMMA LoadPreserves == IInv /\ LoadEnv => IInv'
<1> SUFFICES ASSUME IInv, LoadEnv PROVE IInv'
  OBVIOUS
<1> USE DEF IInv
<1>1. UNCHANGED <<op, flash, promise, lost, damaged>> /\ op = "idle"
  BY DEF LoadEnv
<1>2. Shape'
  BY <1>1 DEF LoadEnv, ReadFails, Shape, NoValues
<1>3. StoreInv'
  BY <1>1 DEF StoreInv
<1>4. FlashComplete'
  BY <1>1, FlashUntouched
<1>5. RamComplete'
  <2>1. CASE ram' = flash /\ staged' = NoValues
    <3> SUFFICES ASSUME ~damaged, ~lost PROVE RamComplete'
      BY <1>1 DEF RamComplete
    <3>1. Intact
      BY <1>1 DEF Intact
    <3>2. \A n \in Names : Pending(n)' = promise[n]
      BY <2>1, <1>1 DEF Pending, NoValues
    <3> QED BY <1>1, <2>1, <3>1, <3>2 DEF RamComplete, FlashComplete, Holds
  <2>2. CASE UNCHANGED <<loaded, ram, staged, misread>>
    BY <1>1, <2>2, RamUntouched
  <2>3. CASE ReadFails
    BY <2>3 DEF ReadFails, RamComplete
  <2> QED BY <2>1, <2>2, <2>3 DEF LoadEnv
<1> QED BY <1>2, <1>3, <1>4, <1>5

-----------------------------------------------------------------------------
LEMMA SetPreserves ==
  ASSUME NEW n \in Settable, NEW v \in Values, IInv, SetEnvVar(n, v)
  PROVE IInv'
<1> USE DEF IInv
<1>1. UNCHANGED <<loaded, op, flash, misread, lost, damaged>> /\ op = "idle"
  BY DEF SetEnvVar
<1>2. n \in Names /\ v # Nothing
  BY FlashAssumption
<1>3. CASE UNCHANGED <<ram, staged, promise>>
  BY <1>1, <1>3, FlashUntouched, RamUntouched DEF Shape, StoreInv
<1>4. ASSUME \/ Appended(n, v)
             \/ Overflow(n, v)
      PROVE IInv'
  <2>1. /\ staged' = [staged EXCEPT ![n] = IF Appended(n, v) THEN v ELSE Nothing]
        /\ \/ promise' = promise
           \/ promise' = [promise EXCEPT ![n] = Nothing]
    BY <1>4 DEF Appended, Overflow
  <2>2. Shape'
    BY <1>1, <1>2, <2>1 DEF Shape
  <2>3. StoreInv'
    BY <1>1 DEF StoreInv
  <2>4. FlashComplete'
    <3>1. \A m \in Names : promise'[m] # Nothing => promise'[m] = promise[m]
      BY <1>2, <2>1 DEF Shape
    <3>2. Intact' => Intact
      BY <1>1 DEF Intact
    <3> QED BY <1>1, <3>1, <3>2 DEF FlashComplete, Holds
  <2>5. ASSUME loaded, ~damaged, ~lost, ~misread
        PROVE /\ \A m \in Names : Pending(m)' # Nothing => Holds(ram', m, Pending(m)')
              /\ \E e \in ram'.vars : e.name \notin Settable
    <3>1. PICK a \in ram.vars : a.name \notin Settable
      BY <2>5 DEF RamComplete
    <3>2. a \in Others(n)
      BY <3>1 DEF Others
    <3>3. Others(n) \subseteq ram'.vars
      BY <1>4, <3>2 DEF Appended, Overflow
    <3>4. ASSUME NEW m \in Names, m # n, Pending(m)' # Nothing
          PROVE Holds(ram', m, Pending(m)')
      <4>1. Pending(m)' = Pending(m)
        BY <2>1, <3>4 DEF Pending, Shape
      <4>2. PICK e \in ram.vars : e.name = m /\ e.value = Pending(m)
        BY <2>5, <3>4, <4>1 DEF RamComplete, Holds
      <4>3. e \in Others(n)
        BY <3>4, <4>2 DEF Others
      <4> QED BY <3>3, <4>1, <4>2, <4>3 DEF Holds
    <3>5. ASSUME Pending(n)' # Nothing
          PROVE Holds(ram', n, Pending(n)')
      <4>1. CASE Appended(n, v)
        <5>1. Pending(n)' = v
          BY <1>2, <4>1 DEF Appended, Pending, Shape
        <5>2. String(n, v) \in ram'.vars
          BY <3>2, <4>1 DEF Appended
        <5> QED BY <5>1, <5>2 DEF Holds, String
      <4>2. CASE Overflow(n, v)
        BY <1>2, <3>5, <4>2 DEF Overflow, Pending, Shape
      <4> QED BY <1>4, <4>1, <4>2
    <3>6. \E e \in ram'.vars : e.name \notin Settable
      BY <3>1, <3>2, <3>3
    <3> QED BY <3>4, <3>5, <3>6
  <2>6. RamComplete'
    BY <1>1, <2>5 DEF RamComplete
  <2> QED BY <2>2, <2>3, <2>4, <2>6
<1> QED BY <1>3, <1>4 DEF SetEnvVar

-----------------------------------------------------------------------------
LEMMA StorePreserves == IInv /\ StoreEnv => IInv'
<1> SUFFICES ASSUME IInv, StoreEnv PROVE IInv'
  OBVIOUS
<1> USE DEF IInv
<1>1. UNCHANGED <<loaded, ram, flash, staged, promise, misread, lost, damaged>> /\ op = "idle"
  BY DEF StoreEnv, history
<1>2. op' = op \/ (op' = "erase" /\ MayStore)
  BY DEF StoreEnv
<1>3. Shape' /\ StoreInv'
  BY <1>1, <1>2 DEF Shape, StoreInv, MayStore
<1>4. FlashComplete'
  BY <1>1, <1>2 DEF FlashComplete, Intact, Holds
<1>5. RamComplete'
  BY <1>1, RamUntouched
<1> QED BY <1>3, <1>4, <1>5

LEMMA ErasePreserves == IInv /\ StoreErase => IInv'
<1> SUFFICES ASSUME IInv, StoreErase PROVE IInv'
  OBVIOUS
<1> USE DEF IInv
<1>1. UNCHANGED <<loaded, ram, staged, promise, misread, lost, damaged>> /\ op = "erase" /\ op' = "write"
  BY DEF StoreErase, history
<1>2. Shape' /\ StoreInv'
  BY <1>1 DEF Shape, StoreInv
<1>3. FlashComplete'
  BY <1>1 DEF FlashComplete, Intact
<1>4. RamComplete'
  BY <1>1, RamUntouched
<1> QED BY <1>2, <1>3, <1>4

-----------------------------------------------------------------------------
LEMMA WritePreserves == IInv /\ StoreWrite => IInv'
<1> SUFFICES ASSUME IInv, StoreWrite PROVE IInv'
  OBVIOUS
<1> USE DEF IInv
<1>1. UNCHANGED <<loaded, ram, misread>> /\ op = "write" /\ loaded /\ ram.crc
  BY DEF StoreWrite, StoreInv
<1>2. CASE op' = "erase" /\ WrittenInPart /\ UNCHANGED <<staged, promise, lost, damaged>>
  <2>1. ~flash'.crc
    BY <1>2 DEF WrittenInPart, Torn
  <2>2. Shape' /\ StoreInv'
    BY <1>1, <1>2 DEF Shape, StoreInv
  <2>3. FlashComplete'
    BY <1>2, <2>1 DEF FlashComplete, Intact
  <2>4. RamComplete'
    BY <1>1, <1>2, RamUntouched
  <2> QED BY <2>2, <2>3, <2>4
<1>3. CASE op' = "idle" /\ Promised /\ (damaged' \/ (flash' = ram /\ damaged' = damaged))
                        /\ damaged' \in BOOLEAN /\ lost' = (lost \/ misread)
  <2>1. \A n \in Names : promise'[n] = Pending(n) /\ staged'[n] = Nothing
    BY <1>3 DEF Promised, Pending, NoValues
  <2>8. lost' \in BOOLEAN /\ (~lost' => ~lost /\ ~misread)
    <3>1. lost' = (lost \/ misread)
      BY <1>3, Zenon
    <3> QED BY <3>1, Zenon
  <2>2. Shape'
    BY <1>1, <1>3, <2>8 DEF Shape, Promised, NoValues
  <2>3. StoreInv'
    BY <1>3 DEF StoreInv
  <2>4. ASSUME ~damaged' PROVE flash' = ram /\ ~damaged /\ RamComplete
    BY <1>3, <2>4
  <2>5. FlashComplete'
    BY <1>1, <2>1, <2>4, <2>8 DEF FlashComplete, Intact, RamComplete, Holds
  <2>6. \A n \in Names : Pending(n)' = Pending(n)
    BY <2>1 DEF Pending
  <2>7. RamComplete'
    BY <1>1, <2>4, <2>6, <2>8 DEF RamComplete, Holds
  <2> QED BY <2>2, <2>3, <2>5, <2>7
<1> QED BY <1>2, <1>3 DEF StoreWrite, Shape

-----------------------------------------------------------------------------
LEMMA CutPreserves == IInv /\ PowerCut => IInv'
<1> SUFFICES ASSUME IInv, PowerCut PROVE IInv'
  OBVIOUS
<1> USE DEF IInv
<1>1. UNCHANGED <<promise, lost>> /\ misread' = FALSE /\ op' = "idle" /\ loaded' = FALSE /\ staged' = NoValues
  BY DEF PowerCut
<1>2. damaged' \in BOOLEAN
  BY DEF PowerCut, Shape
<1>3. Shape' /\ StoreInv' /\ RamComplete'
  BY <1>1, <1>2 DEF Shape, StoreInv, RamComplete, NoValues
<1>4. FlashComplete'
  <2>1. CASE damaged'
    BY <2>1 DEF FlashComplete, Intact
  <2>2. CASE UNCHANGED <<flash, damaged>> /\ ~damaged /\ Intact
    BY <1>1, <2>2 DEF FlashComplete, Holds
  <2>3. \/ damaged' = TRUE
        \/ UNCHANGED <<flash, damaged>> /\ ~(op = "write" \/ (op = "erase" /\ ~flash.crc))
    BY DEF PowerCut
  <2>4. UNCHANGED <<flash, damaged>> /\ ~damaged
        /\ ~(op = "write" \/ (op = "erase" /\ ~flash.crc)) => Intact
    BY DEF Intact, Shape
  <2> QED BY <2>1, <2>2, <2>3, <2>4, <1>2
<1> QED BY <1>3, <1>4

-----------------------------------------------------------------------------
(* FlashInit and FlashDeInit only touch the flags. *)
LEMMA FlagsPreserve == IInv /\ (FlashInit \/ FlashDeInit) => IInv'
<1> SUFFICES ASSUME IInv, FlashInit \/ FlashDeInit PROVE IInv'
  OBVIOUS
<1> USE DEF IInv
<1>1. /\ UNCHANGED <<ram, flash, op, staged, promise, misread, lost, damaged>>
      /\ loaded' = loaded \/ loaded' = FALSE
      /\ op = "idle"
  BY DEF FlashInit, FlashDeInit, history
<1>2. loaded' \in BOOLEAN /\ (loaded' => loaded)
  <2>1. loaded' = loaded => loaded' \in BOOLEAN /\ (loaded' => loaded)
    BY DEF Shape
  <2>2. loaded' = FALSE => loaded' \in BOOLEAN /\ (loaded' => loaded)
    BY Zenon
  <2> QED BY <1>1, <2>1, <2>2, Zenon
<1>3. Shape' /\ StoreInv'
  BY <1>1, <1>2 DEF Shape, StoreInv
<1> QED BY <1>1, <1>2, <1>3, FlashUntouched, RamUntouched

LEMMA StepPreserves == IInv /\ [Next]_flashVars => IInv'
<1> SUFFICES ASSUME IInv, [Next]_flashVars PROVE IInv'
  OBVIOUS
<1>1. CASE UNCHANGED flashVars
  BY <1>1, FlashUntouched, RamUntouched DEF IInv, Shape, StoreInv, flashVars, history
<1>2. ASSUME NEW n \in Settable, NEW v \in Values, SetEnvVar(n, v) PROVE IInv'
  BY <1>2, SetPreserves
<1> QED BY <1>1, <1>2, FlagsPreserve, LoadPreserves, StorePreserves,
           ErasePreserves, WritePreserves, CutPreserves DEF Next

(* From an environment that holds a variable no client sets, whatever is
   called and whenever the power fails, the invariant holds. *)
THEOREM InvariantHolds == Anchored => (Spec => []IInv)
<1> SUFFICES ASSUME Anchored PROVE Spec => []IInv
  OBVIOUS
<1>1. Init => IInv
  BY InitHolds
<1>2. IInv /\ [Next]_flashVars => IInv'
  BY StepPreserves
<1> QED BY <1>1, <1>2, PTL DEF Spec

(* No image without a matching CRC is ever left in the partition, but by a
   store that was damaged. *)
THEOREM PartitionStaysGood == Anchored => (Spec => []FlashGood)
<1> SUFFICES ASSUME Anchored PROVE Spec => []FlashGood
  OBVIOUS
<1>1. IInv => FlashGood
  BY DEF IInv, FlashComplete, FlashGood, Intact
<1>2. Spec => []IInv
  BY InvariantHolds
<1> QED BY <1>1, <1>2, PTL

(* What StoreEnv has reported as stored is in the partition, unless what a
   failed read left of the image was stored over it. *)
THEOREM PromisesAreKept == Anchored => (Spec => []AckedIsDurable)
<1> SUFFICES ASSUME Anchored PROVE Spec => []AckedIsDurable
  OBVIOUS
<1>1. IInv => AckedIsDurable
  BY DEF IInv, FlashComplete, AckedIsDurable, Intact
<1>2. Spec => []IInv
  BY InvariantHolds
<1> QED BY <1>1, <1>2, PTL

-----------------------------------------------------------------------------
(* A name occurs once: MI_FLASH_GetEnvVar, which returns the first string     *)
(* that begins with it, has no second one to miss.                            *)
Once(strings) == \A e, f \in strings : e.name = f.name => e = f
NamesOnce == Once(ram.vars) /\ Once(flash.vars)

LEMMA SomeOfThem ==
  ASSUME NEW strings, Once(strings), NEW some \in SUBSET strings PROVE Once(some)
BY DEF Once

LEMMA TornKeepsOnce == ASSUME NamesOnce, WrittenInPart PROVE Once(flash'.vars)
<1>1. PICK kept \in (SUBSET flash.vars) \cup (SUBSET ram.vars) : flash' = Torn(kept)
  BY DEF WrittenInPart
<1>2. Once(kept)
  BY <1>1, SomeOfThem DEF NamesOnce
<1> QED BY <1>1, <1>2 DEF Torn

LEMMA SetKeepsOnce ==
  ASSUME NamesOnce, NEW n, NEW v, Appended(n, v) \/ Overflow(n, v)
  PROVE Once(ram'.vars)
<1>1. Once(Others(n)) /\ \A e \in Others(n) : e.name # n
  BY DEF NamesOnce, Once, Others
<1>2. \/ ram'.vars \subseteq Others(n)
      \/ \E e : e.name = n /\ ram'.vars = Others(n) \cup {e}
  <2>1. CASE Appended(n, v)
    <3>1. String(n, v).name = n
      BY DEF String
    <3>2. ram'.vars = {} \/ ram'.vars = Others(n) \cup {String(n, v)}
      BY <2>1 DEF Appended
    <3> QED BY <3>1, <3>2
  <2>2. CASE Overflow(n, v)
    BY <2>2 DEF Overflow
  <2> QED BY <2>1, <2>2
<1> QED BY <1>1, <1>2 DEF Once

THEOREM NamesOccurOnce == Spec => []NamesOnce
<1>1. Init => NamesOnce
  BY DEF Init, NamesOnce, Once, Zeroed, String
<1>2. NamesOnce /\ [Next]_flashVars => NamesOnce'
  <2> SUFFICES ASSUME NamesOnce, [Next]_flashVars PROVE NamesOnce'
    OBVIOUS
  <2>1. CASE UNCHANGED <<ram, flash>>
    BY <2>1 DEF NamesOnce
  <2>2. CASE LoadEnv
    <3>1. flash' = flash /\ (ram' = ram \/ ram' = flash \/ \E kept \in SUBSET flash.vars : ram' = Torn(kept))
      BY <2>2 DEF LoadEnv, ReadFails
    <3> QED BY <3>1, SomeOfThem DEF NamesOnce, Torn
  <2>3. ASSUME NEW n \in Settable, NEW v \in Values, SetEnvVar(n, v) PROVE NamesOnce'
    BY <2>1, <2>3, SetKeepsOnce DEF SetEnvVar, NamesOnce
  <2>4. CASE StoreErase
    <3>1. ram' = ram /\ (flash' = Torn({}) \/ flash' = flash)
      BY <2>4 DEF StoreErase
    <3> QED BY <3>1 DEF NamesOnce, Once, Torn
  <2>5. CASE StoreWrite
    BY <2>5, TornKeepsOnce DEF StoreWrite, NamesOnce
  <2>6. CASE PowerCut
    <3>1. ram' = Zeroed /\ (WrittenInPart \/ flash' = flash)
      BY <2>6 DEF PowerCut
    <3> QED BY <3>1, TornKeepsOnce DEF NamesOnce, Once, Zeroed
  <2>7. FlashInit \/ FlashDeInit \/ StoreEnv \/ UNCHANGED flashVars => UNCHANGED <<ram, flash>>
    BY DEF FlashInit, FlashDeInit, StoreEnv, flashVars
  <2> QED BY <2>1, <2>2, <2>3, <2>4, <2>5, <2>6, <2>7 DEF Next
<1> QED BY <1>1, <1>2, PTL DEF Spec
=============================================================================
