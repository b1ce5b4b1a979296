------------------------------ MODULE FlashEnv ------------------------------
(***************************************************************************)
(* The boot environment of mi_flash.c: one image of NAME=VALUE strings     *)
(* with a CRC in the "env" partition, and the one copy of it in memory     *)
(* that every client of the library works on (GetCurEnv of mi_loader.c).   *)
(*                                                                         *)
(* The library has no lock; one thread at a time calls it, in any order.   *)
(* MI_FLASH_StoreEnv is the call with steps of its own, because the power  *)
(* may fail between them: it erases the block and then writes it.          *)
(*                                                                         *)
(* An image is the set of its strings.  Their order does not matter to any *)
(* operation; the room they take does.                                     *)
(***************************************************************************)
EXTENDS Naturals, FiniteSets, FiniteSetsExt

CONSTANTS
  Names,      \* the names of the variables
  Settable,   \* those that clients pass to MI_FLASH_SetEnvVar
  Values,     \* their values
  Size,       \* the room "name=value" takes, for each value
  Capacity,   \* MI_FLASH_ENV_DATA_SIZE, in the same unit
  Cut,        \* a value that was cut off
  Nothing,    \* no value
  Factory,    \* the variables the factory image holds, a function
  MaxCuts,    \* bound: power cuts in a behaviour
  MaxFaults   \* bound: calls of the MTD driver that fail

ASSUME FlashAssumption ==
  /\ Size \in [Values -> Nat \ {0}]
  /\ Capacity \in Nat
  /\ Cut \notin Values /\ Nothing \notin Values \cup {Cut}
  /\ Settable \subseteq Names
  /\ DOMAIN Factory \subseteq Names
  /\ \A n \in DOMAIN Factory : Factory[n] \in Values
  /\ MaxCuts \in Nat /\ MaxFaults \in Nat

VARIABLES
  inited,   \* _gbIsFlashModuleInit
  loaded,   \* _bLoadEnvSuccess[E_MI_FLASH_TYPE_NAND]
  ram,      \* GetCurEnv: its strings and whether u32Crc matches them
  flash,    \* the env partition, likewise
  op,       \* where MI_FLASH_StoreEnv stands
  erased,   \* the block was erased since it was last written
  ret,      \* what the last call returned
  cuts,     \* MaxCuts budget used
  faults,   \* MaxFaults budget used
  staged,   \* values SetEnvVar accepted since LoadEnv (history)
  promise,  \* values StoreEnv has reported as stored (history)
  misread,  \* ram is what a read() that failed left of the image (history)
  lost,     \* a store wrote such an image back (history)
  damaged   \* a store was cut off, or wrote to a block it had not erased
            \* (history)

budgets   == <<cuts, faults>>
history   == <<staged, promise, misread, lost, damaged>>
flashVars == <<inited, loaded, ram, flash, op, erased, ret, budgets, history>>

\* junk is the room taken by strings that were cut off before their '='.
Entry == [name : Names, value : Values \cup {Cut}, size : Nat \ {0}]
Image == [vars : SUBSET Entry, junk : Nat, crc : BOOLEAN]

String(n, v) == [name |-> n, value |-> v, size |-> Size[v]]

\* What MI_FLASH_GetEnvVar finds of n in an image.
Holds(image, n, v) == \E e \in image.vars : e.name = n /\ e.value = v

\* GetCurEnv at start-up: all zero, and the CRC of zeros is not zero.
Zeroed == [vars |-> {}, junk |-> 0, crc |-> FALSE]

\* A block that was not erased, or not written to its end, holds some of the
\* strings and no matching CRC.
Torn(strings) == [vars |-> strings, junk |-> 0, crc |-> FALSE]

NoValues == [n \in Names |-> Nothing]

Init ==
  /\ inited = FALSE /\ loaded = FALSE
  /\ ram = Zeroed
  /\ flash = [vars |-> {String(n, Factory[n]) : n \in DOMAIN Factory},
              junk |-> 0, crc |-> TRUE]
  /\ op = "idle" /\ erased = FALSE /\ ret = "none"
  /\ cuts = 0 /\ faults = 0
  /\ staged = NoValues
  /\ promise = [n \in Names |-> IF n \in DOMAIN Factory THEN Factory[n] ELSE Nothing]
  /\ misread = FALSE /\ lost = FALSE /\ damaged = FALSE

Returns(code) == ret' = code

Fault == faults < MaxFaults /\ faults' = faults + 1 /\ UNCHANGED cuts

-----------------------------------------------------------------------------
(* MI_FLASH_Init, MI_FLASH_DeInit, MI_FLASH_LoadEnv *)

FlashInit ==
  /\ op = "idle"
  /\ \/ inited /\ Returns("hasInited") /\ UNCHANGED <<inited, budgets>>
     \/ ~inited /\ Fault /\ Returns("failed") /\ UNCHANGED inited
     \/ ~inited /\ inited' = TRUE /\ Returns("ok") /\ UNCHANGED budgets
  /\ UNCHANGED <<loaded, op, erased, ram, flash, history>>

FlashDeInit ==
  /\ op = "idle"
  /\ inited' = FALSE /\ loaded' = FALSE
  /\ Returns("ok")
  /\ UNCHANGED <<op, erased, ram, flash, budgets, history>>

\* The result of read() is not looked at (mi_flash.c:394): when it fails, the
\* cleared buffer, with as much as came in, is taken for the image.  Its CRC
\* does not match, but an earlier load stays good, and so SetEnvVar, which
\* makes a new CRC, and StoreEnv go on with it.
ReadFails ==
  /\ Fault
  /\ \E kept \in SUBSET flash.vars : ram' = Torn(kept)
  /\ misread' = TRUE
  /\ UNCHANGED loaded

\* A CRC that does not match makes it "return false", which is MI_OK; the
\* caller's copy is overwritten before the CRC is looked at.
LoadEnv ==
  /\ op = "idle"
  /\ \/ /\ ~inited /\ Returns("notInited")
        /\ UNCHANGED <<loaded, ram, budgets, staged, misread>>
     \/ /\ inited /\ Fault /\ Returns("failed")
        /\ UNCHANGED <<loaded, ram, staged, misread>>
     \/ /\ inited /\ Returns("ok")
        /\ staged' = NoValues
        /\ \/ /\ ram' = flash
              /\ loaded' = (loaded \/ flash.crc)
              /\ misread' = FALSE
              /\ UNCHANGED budgets
           \/ ReadFails
  /\ UNCHANGED <<inited, op, erased, flash, promise, lost, damaged>>

-----------------------------------------------------------------------------
(* MI_FLASH_SetEnvVar *)

\* Mutant: the other strings are not copied back.
ForgetOthers(n) == {}

\* The image is rebuilt from the strings that do not name n.
Others(n) == {e \in ram.vars : e.name # n}

Total(strings) == MapThenSumSet(LAMBDA e : e.size, strings)

Room(n) == Capacity - (ram.junk + Total(Others(n)))

\* The new string goes behind the others.  With no others the tail search
\* stops at data[0..1], and the string starts at data[1]: behind the zero
\* that ends the list, where neither GetEnvVar nor SetEnvVar finds it.
Appended(n, v) ==
  /\ Returns("ok")
  /\ ram' = [vars |-> IF Others(n) = {} /\ ram.junk = 0 THEN {}
                      ELSE Others(n) \cup {String(n, v)},
             junk |-> ram.junk, crc |-> TRUE]
  /\ staged' = [staged EXCEPT ![n] = v]
  /\ UNCHANGED promise

\* No room: the new string is cut where the array ends (nothing marks the
\* end of it; what follows the array is taken to be zero), before its '=',
\* behind it or where its terminator belongs, or it is not even begun; and
\* u32Crc stays 0.
Overflow(n, v) ==
  /\ Returns("failed")
  /\ \/ \E what \in {v, Cut} :
          /\ Room(n) > 0
          /\ ram' = [vars |-> Others(n) \cup {[name |-> n, value |-> what, size |-> Room(n)]},
                     junk |-> ram.junk, crc |-> FALSE]
     \/ ram' = [vars |-> Others(n),
                junk |-> IF Room(n) > 0 THEN ram.junk + Room(n) ELSE ram.junk,
                crc |-> FALSE]
  /\ staged' = [staged EXCEPT ![n] = Nothing]
  /\ promise' = [promise EXCEPT ![n] = Nothing]

SetEnvVar(n, v) ==
  /\ op = "idle"
  /\ \/ ~inited /\ Returns("notInited") /\ UNCHANGED <<ram, staged, promise>>
     \/ inited /\ Size[v] <= Room(n) /\ Appended(n, v)
     \/ inited /\ ~(Size[v] <= Room(n)) /\ Overflow(n, v)
  /\ UNCHANGED <<inited, loaded, op, erased, flash, budgets, misread, lost, damaged>>

-----------------------------------------------------------------------------
(* MI_FLASH_StoreEnv *)

\* Mutant: the CRC of the image is not looked at.
MayStoreUnchecked == inited /\ loaded

MayStore == inited /\ loaded /\ ram.crc

StoreEnv ==
  /\ op = "idle"
  /\ \/ ~inited /\ Returns("notInited") /\ UNCHANGED <<op, budgets>>
     \/ inited /\ ~MayStore /\ Returns("failed") /\ UNCHANGED <<op, budgets>>
     \/ MayStore /\ Fault /\ Returns("failed") /\ UNCHANGED op
     \/ MayStore /\ op' = "erase" /\ UNCHANGED <<ret, budgets>>
  /\ UNCHANGED <<inited, loaded, erased, ram, flash, history>>

\* MEMERASE; when it fails, it is tried once more and then the block is
\* written as it is (the inner "int retry" hides the one that is tested).
StoreErase ==
  /\ op = "erase"
  /\ op' = "write"
  /\ \/ flash' = Torn({}) /\ erased' = TRUE /\ UNCHANGED budgets
     \/ Fault /\ UNCHANGED <<flash, erased>>
  /\ UNCHANGED <<inited, loaded, ram, ret, history>>

WrittenInPart ==
  \E kept \in (SUBSET flash.vars) \cup (SUBSET ram.vars) : flash' = Torn(kept)

\* The history of a store that reports MI_OK.
Promised ==
  /\ promise' = [n \in Names |-> IF staged[n] = Nothing THEN promise[n] ELSE staged[n]]
  /\ staged' = NoValues

\* write(); a failure goes round the loop: erase again, for ever.
StoreWrite ==
  /\ op = "write"
  /\ \/ /\ op' = "idle" /\ Returns("ok")
        /\ \/ erased /\ flash' = ram /\ UNCHANGED damaged
           \/ ~erased /\ WrittenInPart /\ damaged' = TRUE
        /\ Promised
        /\ lost' = (lost \/ misread)
        /\ UNCHANGED budgets
     \/ /\ Fault /\ op' = "erase"
        /\ WrittenInPart
        /\ UNCHANGED <<damaged, ret, staged, promise, lost>>
  /\ erased' = FALSE
  /\ UNCHANGED <<inited, loaded, ram, misread>>

-----------------------------------------------------------------------------
\* The power fails: memory is gone, and so is a block being rewritten.
PowerCut ==
  /\ cuts < MaxCuts /\ cuts' = cuts + 1 /\ UNCHANGED faults
  /\ inited' = FALSE /\ loaded' = FALSE
  /\ ram' = Zeroed
  /\ op' = "idle" /\ erased' = FALSE /\ Returns("none")
  /\ IF op = "write" \/ (op = "erase" /\ ~flash.crc)
       THEN WrittenInPart /\ damaged' = TRUE
       ELSE UNCHANGED <<flash, damaged>>
  /\ staged' = NoValues /\ misread' = FALSE
  /\ UNCHANGED <<promise, lost>>

-----------------------------------------------------------------------------
Next ==
  \/ FlashInit \/ FlashDeInit \/ LoadEnv
  \/ \E n \in Settable, v \in Values : SetEnvVar(n, v)
  \/ StoreEnv \/ StoreErase \/ StoreWrite
  \/ PowerCut

Spec == Init /\ [][Next]_flashVars

-----------------------------------------------------------------------------
(* Whatever the clients call, in whatever order, and whenever the power
   fails: unless a store was cut off or wrote to a block it had not erased,
   the partition holds an image whose CRC matches.  An image that failed to
   take a variable is never written (mi_flash.c:979). *)
FlashGood == op = "idle" /\ ~damaged => flash.crc

(* A value that MI_FLASH_StoreEnv has reported as stored, and a factory
   value, is in the partition until a client sets that very variable again:
   setting other variables, failing to set them, DeInit, a second LoadEnv
   and a power cut outside a store do not touch it (mi_flash.c:948-1105).
   The promise is withdrawn when SetEnvVar fails for that variable.  It ends
   when a read() fails unnoticed in a second LoadEnv and what is left of the
   image is stored (mi_flash.c:394). *)
AckedIsDurable ==
  op = "idle" /\ ~damaged /\ ~lost =>
    \A n \in Names : promise[n] # Nothing => Holds(flash, n, promise[n])

(* MI_OK from MI_FLASH_LoadEnv means that an environment was loaded;
   mi_flash.h:170 documents MI_ERR_FAILED for a failure. *)
LoadReportsFailure == [][LoadEnv /\ ret' = "ok" => ram'.crc]_flashVars

(* What FlashGood and AckedIsDurable rest on: the partition is as good at the
   start of a store as it was before it; the image in memory, once it was
   loaded by a read() that did not fail, holds what the next store will
   promise; a store runs only on a loaded image with a matching CRC; and a
   variable that nobody sets keeps the list of strings from becoming empty. *)
Intact == ~damaged /\ (op = "idle" \/ (op = "erase" /\ flash.crc))

FlashComplete ==
  Intact =>
    /\ flash.crc
    /\ ~lost =>
         /\ \A n \in Names : promise[n] # Nothing => Holds(flash, n, promise[n])
         /\ \E e \in flash.vars : e.name \notin Settable

Pending(n) == IF staged[n] = Nothing THEN promise[n] ELSE staged[n]

RamComplete ==
  loaded /\ ~damaged /\ ~lost /\ ~misread =>
    /\ \A n \in Names : Pending(n) # Nothing => Holds(ram, n, Pending(n))
    /\ \E e \in ram.vars : e.name \notin Settable

StoreInv == op # "idle" => loaded /\ ram.crc
=============================================================================
