# Verification of uart_tool and the mi library

This directory holds TLA+ models of the programs under `src/uart`, the TLC runs
that check them and the TLAPS proofs about them. Every definition is translated
from the C and C++ sources; `PROJECT.json` maps each one to the lines it stands
for, lists the runs, a mutant for every checked property, the findings, the
hazards at their lines, and the theorems.

Contents: 1 the system; 2 the modules and the code; 3 the runs; 4 fairness;
5 the proofs; 6 what the work has brought to light; 7 what is not modelled;
8 the plan.

## 1. The system

`src/uart` builds `uart_tool`, a daemon for the factory of an ARM Linux audio
device, and `libmi.so`, its hardware library (`src/uart/mi`). `SerialCommand.cpp`
is the driver for the controller of a sound bar at the end of another serial
line.

| component | state it keeps | operations | what is hard | what makes it correct |
|---|---|---|---|---|
| **SerialCommand driver** (`SerialCommand.cpp`) | `m_mutex`, `m_cond`, `Now_cmd_e`, `S_Read`, `FLAG_READ_THREAD`, the port | `iniSer`, `deInitSer`, thirteen `onXxx()`, the reader thread | an operation waits with the mutex released, the reader takes no mutex; answers are lost, late or garbled | one operation publishes at a time, none leaves its command behind, each gets its own answer, everything returns |
| **Serial frames** (`SerWrite_rk3229_t`, `SerParse`, the assembler in `SerRead`) | `ser_data`, the hex buffer | encode, assemble, decode | any number of characters per `read()`; a space ends a byte; volume frames have another layout | what is delivered was sent, in order; the reader is back in step after a disturbance |
| **Flash environment** (`mi_flash.c`, `MI_FLASH_*Env*`) | the image in memory, the block of the partition, the flags `env_init`, `env_load` | Init, DeInit, LoadEnv, GetEnvVar, SetEnvVar, StoreEnv | power cuts between erase and write, driver faults, an image that is full | no image without a matching CRC is left, what was reported as stored stays stored |
| **MTD partitions** (`mi_flash.c`, `mtd_*`) | the partition table, the name and the bad-block count of the last access | `mtd_write_data`, `mtd_read_data` | bad blocks, chunks that end within erase blocks, failures of MEMERASE and `write()` | every byte lands at its place among the good blocks, and is read from there |
| **uart_tool daemon** (`main.cpp`) | `n_store_bytes`, `pReponsebuf`, `MacAdd`, `BarCode`, `ev_mutex`, counters of rounds | `main`, the reading thread, the thread that serves a START | packets in pieces or run together, a shared buffer, two threads | what is stored was announced, only after a handshake; what it was told is stored stays stored |
| **OTA loader** (`mi_loader.c`) | `ota_partition_info` with `haswrite`, `cur_offset`, `data_total_size`, `runMode`, `bootcmd`, `has_prepare_ota` | `ms_parse_otainfo`, `ms_ota_update_start`, `ms_update_recovery`, `prepare_ota`, `ms_getenv`, `ms_setenv`, `thread_update` | chunks cut anywhere, failures half way, an interrupted update, a damaged file | every byte at its place, the running system untouched, a boot command that fits the kernel, no image thrown away before it is written |
| **UBI volume access** (`mi_ubi.c`, read and write of bytes) | `s32VolFd`, its file offset, `stMutex` | `MI_UBI_ReadVolumeBytes`, `MI_UBI_WriteVolumeBytes` | threads share one descriptor; a block is read, changed and written back | a written byte stays, a read comes from its place, the mutex is free again |
| **UBI devices** (`mi_ubi.c`, the rest) | `_astUbiSlot`, the table of open devices: the device's descriptor, what was read of each volume, its descriptor; the table of MTD names | Init, DeInit, Open, Close, Attach, Detach, create, resize, remove, set up again | failures half way through a call, two handles on one device, descriptor 0, numbers looked up before | no descriptor is lost or closed twice, an accepted handle works, what it tells of a volume is so, only the named device is detached |
| **Keypad, SAR** (`mi_sar.c`) | the key table, the previous key and its time, a sampling thread | `MI_SAR_Config`, the sampling thread, reads of the converter | samples come late, the table is replaced under the thread | a press is reported once, repeats keep their distance |
| **WLAN** (`mi_wlan.c`) | a status EMPTY…CONNECTED, the module, the list of scanned cells, the chip's name, two files in `/tmp` | Init, DeInit, Open, Close, Scan, Connect, Disconnect, StartAP, GetAttr, GetStatus, SetChannel, SetNetworkType, the detector threads | locks that do nothing, results of shell commands, files that threads share | the status is that of the last script, a detector's round puts the interface right, a list entry is one cell's |
| **GPIO, Input** (`mi_gpio.c`, `mi_input.c`) | descriptors, a polling thread | open, ioctl, close; two devices kept open for keys | numbers that are used again, failures that leave a device open | a number that is kept stands for its own device |
| **Infrared** (`mi_ir.c`) | the lines of a bit-banged I2C bus, the learn thread | wake-up, learn, read the code | an external chip that drives one of the lines in turn; a pin change that fails; a restart in a byte | the bus finds back, what is read is what was learnt |
| **Display, framebuffer, GPIO as SPI** (`mi_display.c`, `mi_fb.c`, `mi_gpio_spi.c`) | the panel's registers, mapped memory | the table of registers, bit-banged words, dots, lines, boxes | two transfers per address, a row longer than the screen | the panel is programmed before it is on, the screen shows what was drawn |
| **PWM, RGB LED** (`mi_pwm.c`, `mi_rgbled.c`) | none of their own | shell commands | the kernel may refuse | the channel runs as the calls reported |
| **System** (`mi_sys.c`) | counters of time | `MI_Delayms`, `MI_Delayus` | counters that wrap | a delay lasts |

Interactions. `uart_tool` calls `prepare_ota`, `ms_getenv` and `ms_setenv` of
the loader, and these the flash environment. The loader's update writes to MTD
partitions through `mtd_write_data`, to UBI volumes through the UBI part, and
changes `bootcmd` in the flash environment; `thread_update` and
`ms_update_recovery` read whole images from files. The display is programmed
through GPIO-SPI, that and the infrared bus move pins through GPIO, and all three
wait with the delays of `mi_sys.c`. The drivers share the process's table of
descriptors and nothing else. The SerialCommand driver uses none of the others.

## 2. The modules and the code

| module | models | extends or instantiates |
|---|---|---|
| `CommandSlot` | the abstract promise of the driver: a slot that at most one operation claims, and that every claim leaves | |
| `SerialCommand` | the driver, the reader, the line and the speaker | `CommandSlot` (refinement) |
| `SerialFrame` | the encoder, the line, the assembler and the decoder | |
| `FlashEnv` | the environment API and the partition | |
| `UartTool` | the daemon and the host | `FlashEnv` (composition) |
| `UbiVolume` | reading and writing the bytes of a volume | |
| `UbiSlots` | the table of open devices and the volumes' life | |
| `UbiAttach` | the MTD names, attaching and detaching | |
| `MtdWrite`, `MtdRead` | `mtd_write_data`, `mtd_read_data` | |
| `OtaUpdate` | the update of partitions | `MtdWrite` |
| `RecoveryImage` | `prepare_ota`, `ms_update_recovery` | `MtdWrite` |
| `Crc` | the CRC-32, `thread_update`, `update_ota_test_demo` | |
| `Keypad` | the sampling thread and `MI_SAR_Config` | |
| `Wlan` | the status, the calls that check or set it, the detector threads | |
| `WlanScan`, `WlanRadio`, `WlanStatus` | the parser of the scan's report; chip, channel and network type; what the status calls read from two shared files | |
| `Board` | the descriptors of the process, and the settings of uart_tool's lines | |
| `Panel`, `SpiModes`, `Framebuffer` | the display's registers by bit-banged words; the other transfer modes; drawing | |
| `IrBus` | the infrared chip's bus and the learn thread | |
| `Delay`, `Pwm`, `RgbLed` | the delays; the channels; the lamps | |
| `XxxProofs` | theorems about `Xxx` | `Xxx`, `TLAPS` |
| `Storage` | the parts of the storage as one: instances of `UbiSlots`, `UbiAttach`, `MtdRead`, `RecoveryImage` beside `UbiVolume`, with what their constants must be | `UbiVolume` |
| `Peripherals` | the same of `Board`, `SerialFrame`, `Framebuffer`, `SpiModes`, `WlanScan`, `Delay`, `Pwm`, `RgbLed`, `WlanRadio`, `WlanStatus` beside `Keypad` | `Keypad` |
| `StorageProofs`, `PeripheralsProofs` | theorems about the parts of these two | `Storage`, `Peripherals`, `TLAPS` |
| `MCXxx` | the values for TLC | `Xxx`, `TLC` |
| `MCStorage`, `MCPeripherals` | all parts side by side | `Storage`, `Peripherals`, and the other parts |

`MCStorage` puts `UbiVolume`, `UbiSlots`, `UbiAttach`, `MtdRead` and `RecoveryImage`
side by side, `MCPeripherals` the fourteen parts `SerialFrame` and `Crc` to `RgbLed` but `Wlan`.
The parts of one such module share no state in the code, so an interleaving of
their steps shows nothing that each alone does not: the variable `which` names
the part that moves, the others stay as they began, and the properties are
the parts' own.

**SerialCommand.** `pc[c]` is where caller `c` stands in its `onXxx()`. All
thirteen operations have one shape: lock, store `Now_cmd_e`, write the frame,
wait with a time limit, reset `Now_cmd_e`, unlock, and look at `S_Read`. They
are one set of actions and differ in the command only, which `SerialFrame` has as
thirteen operations of their own; the map names `onBooting` for each action, its
twelve copies repeat it line by line. `pthread_cond_timedwait` is modelled with its release
of the mutex and its wait to have it again, with the signal, the time-out and
the spurious wake-up as separate ways out. The reader reads `Now_cmd_e` twice
without the mutex, as the code does, in two steps. The speaker answers, answers
late, garbles, stays silent and speaks unasked.

**SerialFrame.** Each operation sends the frame of its command: `SerWrite_rk3229_t`
writes four raw bytes (the variant with hexadecimal characters is under `#if 0`). The
speaker's answers and events are text, two hexadecimal characters and a space for each
byte; the line loses, changes or adds a character; `SerRead`
takes what has come in, up to any character, and its assembler and `SerParse`
are the functions `Assemble` and the decoder's operators. A byte's `|` and `^` are sums of its
bits (`Or`, `Xor`). `heard` is what was delivered.

**FlashEnv.** The image in memory is a sequence of strings with their sizes,
`Cut` standing for what is left of a string the end of the array cut off. Erase
and write of the block are steps of their own, so that a power cut or a fault of
the driver can come between. A power cut loses the memory and keeps the
partition. `ReadFails` is the `read()` of `mtd_read_data` whose result nobody looks at:
LoadEnv then works on an image of zeros, returns `MI_OK`, and leaves the flag of an
earlier load set; `misread` and `lost` remember that the memory, then the partition, may
hold what it left. `Factory` is the environment the board leaves the factory with.

**UartTool.** The state of the two threads and of the devices' lines. A packet is
a sequence of bytes; `read()` returns part of what was sent or all of it, and
`n_store_bytes` collects the pieces as the code does. Environment calls are steps of the
instance `Env` of `FlashEnv`, whose variables are the composition's; `ImplementsEnv`
states that the daemon is a client `FlashEnv` allows. The host writes values, sends
handshakes and STARTs in any order, and keeps what it was told.

**UbiVolume.** Each user is a thread in `MI_UBI_ReadVolumeBytes` or
`MI_UBI_WriteVolumeBytes`. System calls are steps; the file offset belongs to the
descriptor and so to all threads, and stays where it was when `lseek` refuses an offset
behind the volume's end. `KeptIntact` excludes exactly one thing, by
the value `Unsure`: bytes of a block another writer had read before they were
written and wrote back afterwards.

**UbiSlots.** A handle is a slot. Descriptors are numbers, given out as `open()` does,
the lowest that is free, so that the code's two marks for "none", -1 and what memset
leaves, can be told apart. A call is one action: the loader, their only user, makes
one after the other. What a call closes on its way is part of the action
(`Closes`), and a call that fails half way is a disjunct of its own. Three variables are
history: `left` (descriptors open at `MI_UBI_DeInit`, which forgets them), `stale`
(volumes of which a slot has not seen the last change) and `struck` (a `close()` has
hit what was not the slot's).

**UbiAttach.** `MI_UBI_Attach` and `_Detach` are a look-up, by name in a table read
once from the kernel's list, and a shell command with the number found; another
process may attach and detach in between. A partition's name may occur twice, and
the list may be longer than the table.

**MtdRead, RecoveryImage, Crc.** `mtd_read_data` goes block by block, past bad ones,
and takes a first piece, whole blocks and a last piece; what `read()` returned is
not looked at. `ms_update_recovery` is on top of `MtdWrite`, with restarts between.
In `Crc` a word is the set of the bits in it that are 1; an image ends in its CRC,
and its file is damaged by up to 32 bits in a row, anywhere, or cut short.

**Keypad.** Time counts in samples' ticks of 10 ms: a sample comes a `Gap` after
the one before. A sample is a key, a stray voltage or none. The table may be
replaced (`MI_SAR_Config`: cleared, then filled) between samples.

**Wlan.** The calls that set the status are single actions where nothing can come
between, and two where a script runs in between; a detector's round is its two looks (at
the link, through the file it shares with the caller; at the address, through a pipe
it never closes) and its remedy. Each command of theirs may fail, which nobody looks at.
`station` is the script run last, those of the access point not counted; softap.sh and
closeSoftAP.sh change link and address and leave the status. `fds` counts the descriptors
left.
**WlanScan** reads `iwlist`'s report line by line into the list that callers read
meanwhile; `pipe` is the line that comes next. **WlanRadio** has the chip's name as the commands see it. **WlanStatus**
has each reader's structure and the two files.

**Board.** `open` is the file behind each descriptor; a call that opens and closes is one
action with what it leaves (`Brief`, `Leaky`). Keys are read whether or not the module is
initialised, so `source` says from which file they came. `SetOpt` is what `tty_dev_set_opt`
makes of a line, which it changes and does not replace; the arguments are those of its
one call.

**Panel, SpiModes, IrBus.** Pins have levels; a word is a sequence of pin
changes, and the device at the other end acts on edges. In `Panel` a step is one
16-bit word, with every pin change made for it; in `SpiModes` one word, or as much of
it as a process makes that ends in the middle; in `IrBus` one pin change, a GPIO call
that may fail, and the process may end at any of them. The chip is an ordinary I2C
slave (external).

**Framebuffer.** `mem` is the mapped memory byte by byte, `picture` what was drawn. A line
is drawn dot by dot, a filled rectangle row by row (`Dots`, `Fill`).
**Delay** has counters of `Word` and `Wide` values instead of 2^32 and 2^64.
**Pwm** and **RgbLed** have what the kernel makes of the commands.

**MtdWrite, OtaUpdate.** A byte of an image is its update and its place, so that
"at its place" can be stated. `mtd_write_data` runs block by block: bad blocks
are skipped and counted, a whole block is erased and written, a part of one is
read, merged, erased and written, by calls each of which may fail. `OtaUpdate` models the cursor over the image,
`haswrite`, `runMode`, the three ways to treat a volume, and the size that
`bootcmd` and `recoverycmd` load, in memory and in the partition. The module
`FlashEnv` is not part of it: of the environment only that size matters here, and
a store that fails leaves memory and partition different, as in `FlashEnv`.
`update_bootcmd` and `update_recoverycmd` have one shape and are one operator.
A power cut ends the behaviour at any state; as the safety properties hold in
every state they hold at a cut. The record fields in `MCOtaUpdate` keep the order
of `Entry`.

## 3. The runs

Every property of a passing run has a mutant in `PROJECT.json`: a plausible bug in one mapped
definition under which TLC finds the property violated in the same run.

| run | asks | bounds, and why they are enough |
|---|---|---|
| `serial_safety` | `SerialInv`, `OwnAnswer` | two callers, two commands, two calls, one unasked packet, one spurious wake-up: the races are between two operations and the reader, and a third operation adds no new neighbour in the code |
| `serial_live` | `CallReturns`, `DeInitReturns`, and `SlotSpec`: the driver implements `CommandSlot` with its liveness | as above without unasked packets and spurious wake-ups |
| `serial_no_response` | violates `TimeoutMeansNoResponse` | two callers |
| `flash_safety` | `FlashGood`, `AckedIsDurable` | three variables with a short and a long value, room for four units so that the image overflows, two power cuts (the second meets what the first has left) and one fault |
| `flash_load_result` | violates `LoadReportsFailure` | one power cut |
| `uart_safety` | `StoreNeedsHandshake`, `ToldIsStored`, `PropFollowsStore` | one device, five packets (a handshake and write + START for both variables), one power cut or one fault; the constraint `Sparse` keeps one value per variable and a short line |
| `uart_split` | `StoredWasAnnounced`, `StartIsServed`, `DaemonEnds` | two devices, three packets, one of them in two pieces, one power cut, so that the daemon starts twice |
| `storage` | `Sharing`, `KeptIntact`, `ReadsItsPlace`, `CountsWritten` (volumes); `HandlesHoldTheirs`, `TableAgrees`, `OnlyZeroIsStruck` (slots); `DetachesNamed`; `ReadsBack`; `ImageNotLost` | table below |
| `ota` | `ImageInPlace`, `CursorAgrees`, `BootLoadsAll`, `RunningSystemKept`, `UpdateReturns` | erase blocks of two bytes, three to a partition, five tables (partitions that begin and end within a block, one that no longer fits beside a bad block, volumes added, resized and removed), four patterns of bad blocks, chunks of two and five bytes, a trailer, two updates, one fault |
| `ota_names` | violates `ImageInPlace` | names as long as the board's, one update, no fault |
| `peripherals` | `SentIsRead`, `DamageIsContained`, `ListedAsReported`, `DisplayRight`, `PinsAreUnderstood`, `CommandsTakeEffect`, `NumbersAreOwn`, `PressesReported`, `DelayKept` | table below |
| `wlan` | `RoundSettles`, `ConnectedAfterScript` | two detectors, so that one works on what the other is changing; a module with a script and one without; two descriptors left, so that a detector runs out of them |

The parts of the two runs that have several:

| part | bounds, and why they are enough |
|---|---|
| `UbiVolume` | two threads, two blocks of two bytes, requests of three bytes (a part of a block and a whole one, in either order, over the end, at it or behind it) and, at first, of none (which writes back what it read); three calls, or two of which a system call fails: a third thread or call meets nothing new, as what passes between calls is the volume and one descriptor |
| `UbiSlots` | two handles on one device, two volumes of two sizes, four descriptors of which others have 0 at first, so that they run out; the constraint `Kept` stops at the state in which a descriptor of others was closed, and has two at a time of: another file of others, a descriptor a client forgot, a failed call, a volume of which a handle missed a change |
| `UbiAttach` | three partitions, two of one name, and room for two names; three device numbers |
| `MtdRead` | four blocks of three bytes, every set of bad blocks, every range: it begins and ends anywhere in a block |
| `RecoveryImage` | four blocks of three bytes, every set of bad blocks, an image that ends within a block and one that fills its last block, two starts, one fault |
| `Crc` | a body of nine bytes and one of zeros only; the damage patterns (one bit, two, a byte, a word, the two ends of a word) at every bit of the file, and each length it may be cut to |
| `Keypad` | the code's own delays (50 ms, 2000 ms, 330 ms in ticks of 10 ms), samples that come on time (30 ms) and late (60 ms), two keys, one sample that meets a replacement of the table |
| `SerialFrame` | three frames, one disturbance; a volume byte equal to a command; a space or a zero as the added character; every cut of the characters into reads |
| `WlanScan` | three cells, of every mixture of encryption the parser tells apart, hidden or not |
| `Panel`, `SpiModes` | all levels of the pins at the start and a half-taken word; one word broken off at any pin change |
| `IrBus` | two codes, one pin change lost or one restart, anywhere |
| `Delay` | counters of 16 and 64 values, jumps of up to 3: they wrap within every length |
| `Framebuffer` | three by two pixels in rows of 16 bytes with the mapping 4 bytes in, so that rows are longer than the screen |
| `Board` | three descriptors, two lines in two states |
| `Pwm`, `RgbLed`, `WlanRadio`, `WlanStatus` | two channels; two lamps and colours whose bytes reach into one another; two chips; two networks, one in a band the code does not know, and two readers |

What the passing runs show, in words:

- *SerialInv*: one operation publishes at a time, `Now_cmd_e` never names an
  operation that has ended (`PendingBelongsToACall`), so no packet is taken for the
  answer to nothing, and the port is closed after the reader has left. *OwnAnswer*:
  operations that take turns on a quiet line get the answer to their own command; what
overlapping operations and late answers do is what `serial_no_response` shows.
- *SentIsRead*: on a line that nothing disturbs, frames arrive as they were sent, all of
  them, in order and once, in whatever pieces they are read (`FramesArrive`), and the
  daemon's lines change no byte (`BytesPass`). *DamageIsContained*: noise makes no other
  frame of one than the parser cannot know (`DeliveredWasSent`); a disturbed character costs its own frame and at most the
  next one, as long as frames come whole (`BackInStep`); and a file that `thread_update`
  goes on with is the one that was made, to the last bit (`OnlyWholeIsUpdated`).
- *FlashGood*: unless a power cut or a driver fault interrupts it, no store leaves
  a block without a matching CRC. *AckedIsDurable*: what StoreEnv reported stays
  in the partition until that variable is set again, or until the power fails in
  the middle of a store — the partition has one copy — or until an image is stored of
  which a `read()` that failed unnoticed has left nothing (section 6).
- *StoredWasAnnounced*: what reaches the partition has the length and XOR the host
  announced for that variable, however packets are cut and mixed, and is what it wrote for
  it as long as no read cut a packet; a value the end of the image cut off is excepted. *StoreNeedsHandshake*,
  *ToldIsStored*, *PropFollowsStore*: no store without a handshake; what the host was
  told stays; the property is set from what is stored.
- *Sharing*, *KeptIntact*, *ReadsItsPlace*, *CountsWritten*: the volume's bytes,
  through one descriptor that all threads move. A read from behind the end is excepted.
- *HandlesHoldTheirs*: whatever call has failed before, a handle that is accepted has
  its memory and its own device behind its descriptors, and every descriptor is held
  by one slot that still closes it. *TableAgrees*: what a handle tells of a volume is
  so, unless the volume was changed through another handle or a change through this
  one was refused. *OnlyZeroIsStruck*: what others have open is closed in one case
  only (section 6). Up to that step, `~struck`, the first one holds.
- *DetachesNamed*: the device that is detached is that of the named partition, unless
  another program changed the devices after the look-up.
- *ReadsBack*: a read finds what a write has put, whichever blocks are bad. *ImageNotLost*: the recovery image is thrown away when the partition holds it, or
  in the cases of failure that section 6 names.
- *ImageInPlace*, *CursorAgrees*: whatever the cuts, bad blocks and faults, a byte
  counted as written is at its place. *RunningSystemKept*: neither mode writes
  what it runs from. *BootLoadsAll*: the stored boot command loads every byte of
  the kernel, as long as memory and partition agree on it. *UpdateReturns*:
  every call ends, except the ones the model names (below).
- *PressesReported*: each press once, then repeats at their distance and with their
  flag. A finger that slides from a repeating key onto another gives a first report
  with the repeat flag, and the key it has left is not reported at all: both are what
  the code does, and the property excepts them by name (`slid`). It speaks of a
  keypad that has been seen released with a whole table (`settled`); before that, and
  when two samples in a row meet an empty table, the codes are uninitialised memory.
- *RoundSettles*: a detector's round that nobody came between and none of whose commands
  failed leaves an address on a complete link and none while the supplicant scans.
  *ConnectedAfterScript*: CONNECTED means that the last script, the access point's not
  counted, was one by which `MI_WLAN_Connect` joins a network.
- *ListedAsReported*: an entry that can be had is one cell's, whole. *CommandsTakeEffect*:
  a PWM channel runs as the calls reported, lamps show their colours, a channel is
  set with the command of the chip that is plugged in, and the status names the channel of its own
  access point — each with the exceptions of section 6.
- *DisplayRight*: the screen shows what was drawn (`ScreenShowsPicture`), and in the serial
  modes of `mi_gpio_spi.c` with 8 or 9 bits a device takes each byte once and as what it is
  (`TakesWhatIsSent`); the one with 16 bits is excepted (section 6). *PinsAreUnderstood*: the chips behind pins that the program moves
  itself: the panel is on only when its registers are programmed (`OnWhenProgrammed`), and
  the infrared chip listens again after two clean transactions at most, and its code is
  read as it was learnt (`LearnsAndReads`).
- *DelayKept*: no delay is cut short by a wrap, but in the cases of section 6.
- *NumbersAreOwn*: whatever was opened and closed meanwhile, the next read or close
  of a driver hits its own device.

`CHECK_DEADLOCK FALSE` stands in the serial, uart, ota, wlan and peripherals
configurations: nobody needs to call an operation again, the daemon ends by itself, the
updates are used up, and lines, threads and buses may have nothing more to do. In
`MCStorage` the parts that end on purpose stutter (`Stops`), and the volumes and slots
may not deadlock. Symmetry is used only in runs without liveness.

## 4. Fairness

Fairness is asked only of threads: each step of an operation and of the reader in
`SerialCommand` (`Fairness`), the reading and the serving thread in `UartTool`,
the loader in `OtaUpdate`. The kernel schedules them and no step of theirs waits
for another but where the model says so (a mutex, a join). Weak fairness is enough:
a thread that waits for a mutex finds it free for good once the others have ended,
and the runs bound the calls. No fairness is asked of the host, the speaker, the
download module, the keys, the driver's faults or the power supply. The modules of
`storage`, `peripherals` and `wlan` state safety only and need none.

## 5. The proofs

The theorems hold for every value of the constants that the modules' assumptions
allow; those assumptions are as the code has them (a block has a size, special
values differ from data) and TLC evaluates them in the runs of the modules that extend theirs. Those that need
more name it in their statement.

**SerialCommandProofs.** `SerialInv` = `TypeOK` and: the reader and the port follow
the phase of the driver; the mutex is held exactly from lock to wait and from
wake-up to unlock; the three safety properties. `InvariantHolds`
proves it; `TypeCorrect`, `PublishingIsExclusive` and `PortOutlivesReader` are its parts.
`ImplementsSlot`: every step claims the slot for one operation, ends one
operation's claim, or leaves both, so `Spec` implements `CommandSlot`'s safety.
`AnswersAreOwn` carries a second invariant, `TurnsInv`: while nothing has disturbed the
turns, at most one operation is between its lock and its return, and the published
command, the frame on the line, the packet in the reader's hands and `S_Read` are all of
that one's request, in each place where the request or its answer can be.

**FlashEnvProofs.** `IInv` = `Shape` and `StoreInv` and `FlashComplete` and
`RamComplete`. That the partition is good after a store cannot be carried over a
step on its own: the image that is written comes from memory, so memory must be
complete whenever the flags allow a store, and it is because a failing SetEnvVar
withdraws the promise and the flag of LoadEnv guards the rest. What a failed `read()`
has left is outside of it: `RamComplete` speaks of memory that is not `misread`,
`FlashComplete` of a partition that is not `lost`. `PartitionStaysGood`
and `PromisesAreKept` assume `Anchored`: the factory gave the environment a variable
that nobody sets. The board has one, `OTA_STATUS`, without which the daemon ends at
once (`prepare_ota`); without any, the image may become empty, and the first
variable set into an empty image is not found again. How the room is computed plays no part.
`NamesOccurOnce` needs no anchor: in memory and partition a name stands once, although
what overflows is cut off anywhere.

**UartToolProofs.** `UartInv` = `Typed` and `Books` (what was told and staged agrees
with what the environment has promised) and `Serving` (where the thread that serves
a START stands agrees with the environment's store). `ImplementsEnv` shows every
step to be a step of `FlashEnv` or a stutter; `ToldStaysStored` then follows from
`FlashEnv`'s own theorem through the instance, as the board is anchored: the daemon loads
the environment once in each start (`LoadedOnce`), so that a failed `read()` finds no flag
of an earlier load and nothing is stored after it.
`HandshakeGuardsStore` comes from `Serving`. `PropsFollow` adds `PropInv`: what the
start-up has read back so far, and which property the serving thread still has to set.
What it reads back is what was promised only because a name stands once in the image, and
`NamesOccurOnce` comes through the instance too.
`StoredWasAnnounced` says two things, which have an invariant each:
- `OnlyWrittenIsStored`, of sessions in which no `read()` has cut a packet: `WholeInv` has
  every line, and the buffer, begin with a packet of whose bytes alone the parser takes a
  value. It assumes `ExtrasApart`: what else a host sends and begins with the header's byte has
  a code, and not one of the three that the parser acts on.
- `OnlyAnnouncedIsStored`, of any cuts: `MarkedInv` has every header's byte in the lines stand
  before a code and, for a START, before what it announces. It assumes `HeaderMarks`: the
  header's byte (0x5A, 'Z') only begins packets, and `OverReadLen >= 7`, so that a START is
  read to what it announces before it is looked at. Hosts whose values contain a 'Z' are thereby
  outside this theorem: for them a cut may make the parser begin in the middle of a value.

**StorageProofs.** *UbiVolume.* `MutexExcludes`; `OpensAreBounded` counts: descriptors opened
and threads about to open are together no more than the threads. Together they are
`SharingIsOrderly`. `VolumeInv` =
`Typed` and `MutexReleased` and `Aimed` (each thread's block and remainder are those
of its request, and the file offset is that block's while it holds the mutex) and
`Fresh` (the block a thread has read differs from the volume only where another
thread wrote since) and `KeptIntact`. `WritesAreKept` and `ReadsAreInPlace` follow.
`CountIsTrue` adds `Counted`: at each place of a write, every byte up to its count has
reached the volume; a byte reached stays so, whoever writes over it.

*UbiSlots*: what `UbiSlotsProofs` proves, for `Storage`'s instance, whose
`TableAssumption` gives `SlotsAssumption`.
*UbiAttach*: `AttachInv` has a partition attached to one device at most
(the kernel refuses a second), and the device about to be detached is the named
partition's while nobody else has changed the devices; `DetachesTheNamed` follows.
*RecoveryImage*: `RecoveryIsInPlace`, the claim about *ImageNotLost*. `RecoveryInv` counts
blocks: what is filled is the first m blocks' worth of the image, in the m first good blocks
(`FilledTo`), and the position is that many blocks and `skipped` further, which are
the bad ones before it (`Aligned`). A power failure leaves only what holds between two writes.
*MtdRead*: `mtd_read_data` counts nothing, but `Onward` has the good blocks from the offset's
one up to the position be as many as the bytes read have filled; a range that the good
blocks hold is then never read behind the partition's end. The three kinds of pieces are one
lemma (`Pieced`), and `ReadsItBack` follows.

**UbiSlotsProofs.** `Typed` has each slot's record with `Provided`: a handle is
accepted exactly if it has its table, and one that is not has no descriptor but the 0
or -1 of the code. `ToldInv`: what is told of volumes a handle has seen the last
change of; this gives `TableIsRight`. `HoldInv`: an accepted slot's descriptors are its own
device's and volumes' (`Own`), two slots have none in common (`Apart`), a descriptor that is
open for a device or volume is a slot's or is left over from before a `MI_UBI_DeInit`
(`Kept`), and 0 is another part's. Only without this last conjunct can a slot hold 0, which
its code takes for none. `HoldInv` lasts up to the step that closes a foreign descriptor, so
`HandlesAreTheirs` is carried as `SafeInv == ~struck => HoldInv`, and `ZeroIsStruck` shows what
that step can be. `SlotsAssumption` says that descriptors are numbers from 0 on, that 0 was
in use at first, and that the special values differ from data.

**WlanProofs.** `WlanInv` = `Types` and `Rounds` and `Calls`. `Rounds` says of each detector
whose round is still undisturbed (`calm`) what it knows at its place: after the look
at the link, that what it saw is the link; after the look at the address, both; after
its remedy, that they fit. It rests on `calm` being lost at every step of others that touches the
link, the address or the shared file. `Calls` has the status CONNECTING from the beginning of
`MI_WLAN_Connect` to the lease, and the script that ran for it. No assumption is needed.

**PeripheralsProofs.** Parts that are model-checked side by side, here as instances.
*Keypad*: `KeypadInv` = `Machine` (the state of the debouncer is one it can be
in) and `Stand` (what was seen and reported of the press agrees with it). From it
`RepeatsAreSpaced`, `PressesAreReported`, `FirstReportIsPlain`. `CodesAreConfigured`
assumes `MaxSamples <= 1`: two samples in a row that meet an empty table do report
what is not in the table, and `Met1` says how far one gets. `PressesAreRight`, under
the same assumption, is all four together, the property that the run checks.
*Board*: `FilesInv` adds to `NumbersAreOwn` where the numbers kept may lie, and each call
either opens numbers that were free or closes one that it names itself. *Delay*: with
`stamp` the wrapped beginning of the delay, the lemma `Elapsed` bounds what the code
computes from two readings by what has passed between them, for any number of wraps;
`Words` asks for an even word (a sign bit) and a wider one. *Pwm*, *RgbLed*, *WlanRadio*,
*WlanStatus*: `CommandsAreTrue`. The descriptor of each lamp is computed, not enumerated
(`LightsInv`); a chip's name in the memory is that of the chip plugged in while it is not
stale (`RadioInv`); and what a reader has of the two shared files belongs to the network it
names, unless another reader came between (`StatusInv`). Here the four move independently,
while the run moves one at a time.
*SerialFrame*: `WhatIsSentIsRead`. While nothing has disturbed the line, `Stream` says that the
characters in the store and then those on the wire are, from the first one after the frames
heard, the characters of the frames sent (`CharAt` finds the n-th of them by division). A
full store is thus one frame's twelve characters, whatever reads they came in, and `Assembled`
runs the assembler over those twelve: two digits of a byte give the byte back (`OrNibbles`,
`DigitsBack`, from the bits), and `Decoded` looks up the command in the two tables. The
volumes are any bytes, and the speaker sends as many frames as it likes. With it goes
*Board*'s `BytesPass`: a line's settings are those it was left with but for what
`tty_dev_set_opt` names, and none of those changes a byte.
*Framebuffer*, in `DisplayIsRight`. `Holds` has the memory show the picture and be 0 beside it.
That no two pixels share a byte (`AtApart`, from the uniqueness of quotient and remainder by
the length of a row) makes a dot change one pixel; the dots of a line and the rows of a
rectangle follow by well-founded induction on their number. The proof asks that a row of
memory has room for the visible pixels (`4 * Width <= line_length`), which the kernel's
structures say of every frame buffer.
*SpiModes*, in `DisplayIsRight`: the invariant is that a device that is not selected has seen
no bit (`TransfersInv`). A transfer is followed from one change of a pin to the next
(`RunSteps`). Up to the rise of CS the device has taken nothing (`Quiet`), which settles a word
that is broken off; after j bits of a word it has seen what it had seen at the fall of CS and
those j (`Gathered`), or too many already. The claim is about the modes with 8 and 9 bits. When CS rises it takes them if their number is the
mode's, and that can only be if it had seen none before (`TakenIsMeant`).
*WlanScan*: `ScanRight`. `Told` counts the cells before one that tell their name, and is the
place of that cell: between two lines the parser's index is that place, or the one before
it when no cell is begun or the begun one has turned out to be hidden (`Place`). Below it every
entry is its cell's already (`Done`). At it is what the lines read so far give (`Reading`):
the first known element is in the entry exactly if `firstIE` is set. From it on no
entry has anything of an element (`Pending`, `ToCome`), though it may have the signal and the
key of a hidden cell that gave the place back: the lines of the next cell write over those,
and that each of them comes before the cell's elements is why nothing is left. Assumed
is that an IE line has its Group line and that a report has no more than `MaxCells`
cells, which the code does not check.

**OtaUpdateProofs.** `LoaderInv`: what a piece being written belongs to; from it
`RunningSystemIsKept` for every table whatever. `CursorInv`, under `Layout` (entries do
not overlap, lie within `data_total_size`, and removed ones have no data):
`CursorIsRight`. `AimInv`: position in the partition and place in the data agree
modulo the erase block, so a block takes no bytes but those of the chunk, which needs
the arithmetic of `mtd_write_data` with the blocks already counted and skipped. With
`BootInv`, and `OnceEach` (a table names a partition once): `BootCommandIsLarge`.
`ImageIsInPlace` puts `ImageInv` on top: the bytes counted of each entry are in
their places (`EntriesHold`); between chunks the loader remembers how many bad blocks
lie before the next byte of an entry begun (`Trail`), and within `mtd_write_data`
so does `skipped` (`UnderWay`); a block is skipped and the rest of the chunk moves on by a block,
while what was written lies before it. A block for which a call of the driver has failed,
the `read()` of its rest among them, is excepted from then on (`hurt`). `NamesFit` (no partition that has a bad block has
a shorter name than another one) is needed because the code forgets the bad blocks
otherwise: that is what `ota_names` shows. With two entries of one name, or entries that
overlap, the second would be written over the first.

Only model-checked:
- everything under fairness (`CallReturns`, `DeInitReturns`, `SlotSpec`'s liveness,
  `StartIsServed`, `DaemonEnds`, `UpdateReturns`), which is out of the prover's reach;
- `DamageIsContained`: what becomes of a damaged frame or file depends on every bit of the
  damage; the CRC's strength is a fact about its polynomial, and the runs enumerate each place;
- `PinsAreUnderstood`: the panel gets one sequence of words, and TLC goes through all of it
  from every level of its pins, so that a proof would add nothing but other counts of bits
  seen before; of the infrared bus each change of a pin may be lost, and what the chip makes
  of the rest of a transaction is found by evaluating it.

## 6. What the work has brought to light

Three runs violate what the repository says of itself:

1. `serial_no_response`: an operation says that there was no response although the
   reader took it from the line in time; a second operation had published its
   command over the first one's, or the signal came before the wait.
2. `flash_load_result`: `MI_FLASH_LoadEnv` returns `false` for a CRC mismatch, which is
   `MI_OK`.
3. `ota_names`: `mtd_write_data` copies a partition's name without its end, so that
   after a longer name bad blocks are forgotten between chunks, and one chunk is
   written over the end of the one before.

Other things the models show and the properties except, each at its line under
"hazards", in the map or in the modules' comments:

*SerialCommand*
- After an `iniSer` that failed there is no reader, but `FLAG_READ_THREAD` keeps its
  first value, and `deInitSer` waits for ever for an exit nobody makes.
- A space that disturbs the line within byte AB ("7A 01 A B") splits the byte into two
  whose XOR is still right; the frame is delivered with an unknown command.
- A volume that equals the command byte (A1, A2) has the check byte 0, and a doubled
  space is then read as volume 0.
- When frames come in slowly, one disturbed character can keep the reader out of
  step for as long as they do: it flushes (`SerialCommand.cpp:464`) in the middle of
  the next frame. `BackInStep` is about frames that come whole.

*Storage*
- `mtd_read_data` ignores a failing `read()`. In a second `MI_FLASH_LoadEnv` the image is
  then zeros, `MI_OK` comes back, and the flag of the first load lets the next SetEnvVar and
  StoreEnv write an environment in which every other variable is gone (`mi_flash.c:394`). So
  does `mtd_write_data` with the rest of a block it reads back (lines 476, 553).
- `MI_UBI_ReadVolumeBytes` ignores a failing `lseek`: asked for bytes from behind the
  volume's end it returns, as a success, those where the last call has left the offset.
- `MI_UBI_Close` leaves 0, not -1, in `s32DevFd`. An `MI_UBI_Open` that fails in that slot
  closes descriptor 0, whoever has it. `_MI_UBI_OpenVolume` tests `> 0`, so a volume that
  got descriptor 0 is opened again and the first one is lost; the run has 0 in use.
- When the set-up after a change of volumes fails, the slot stays in use without a
  device: the handle is refused for good, `MI_UBI_Close` included, until the next
  `MI_UBI_Init`. Volumes removed through another handle stay in a slot's table.
- A removal or resize that the kernel refuses (the volume is open elsewhere) has already
  cleared the volume's entry, and `MI_UBI_CheckVolumeExist` denies a volume that is there.
- `MI_UBI_GetDevIdByPartName` gives up at the first number that has no device, and
  `_MI_UBI_InitMtdInfo` at the first partition that is missing. `MI_UBI_Attach` returns
  a failure, and leaves the device attached, when the script after it fails.
  `MI_UBI_Detach` acts by a number it has looked up before.
- A writer of a UBI volume may undo another one's write to the same erase block, as
  the mutex is released between reading and writing it.
- The retry counter that `mtd_write_data` tests after MEMERASE jumps over 3 in one
  branch and is shadowed by another in the other: a failing erase is never marked
  as a bad block, and the block is written unerased.
- The unaligned branch counts its bytes before it writes them: a failed write is
  then reported as success. An image that does not fit beside its bad blocks, and a
  table entry without data, keep the loop going for ever.
- Behind the partition's end, where `read()` returns nothing, `mtd_read_data`
  hands out the block before once more, as a success.

*Update*
- A volume is created or resized for each piece, so that adding a volume fails at
  the second chunk.
- Retrying a chunk that failed misplaces data, as `haswrite` is not set back; the
  model's download module parses the table again, as a fresh start would.
- After a StoreEnv that failed, the next update finds the new size in memory and
  writes the kernel without having stored the boot command.
- `ms_update_recovery` keeps the unsigned result of the write: -1 counts as
  success, and the image is removed. Called a second time, `prepare_ota` fails at
  `MI_UBI_Init` and takes the permission to update back.
- `thread_update` in the file's test program passes offset 0 with the header, and
  `0 - 0x1000` wraps: it reports success and writes nothing. `update_suc` is never set,
  and `update_ota_test_demo` waits for it for ever.

*Daemon*
- `main.cpp` looks neither at a packet's Verify byte nor at its length field, and its
  comment for `P_header` gives 0x5B where the code compares with 0x5A.
- `tty_dev_set_opt` leaves `c_iflag` as it is: a line that was left with ICRNL, IXON or
  ISTRIP goes on changing bytes, and `'D'` leaves the parity as it was. `BytesPass` has
  lines without these flags.

*WLAN*
- `MI_WLAN_Connect` sets CONNECTING before `CHECK_OPENED`, so that the check passes in
  every state; without parameters it returns an error and leaves CONNECTING. It
  returns `MI_OK` when the script has failed.
- softap.sh and closeSoftAP.sh take the interface over and leave `_eWLanStatus` as it
  is: CONNECTED outlives the connection they end. For a network type it does not know,
  `MI_WLAN_Connect` runs a script whose name was never written; for an access point it
  calls ifconfig and udhcpd with names that are empty.
- Nobody looks whether `wpa_cli`, ifconfig, the flush or udhcpc has failed: a round of a
  detector may act on what an earlier one has read.
- `_hWLanHandle` stays NULL, so that Close and SetAttr refuse once the module is
  open, and INITED is never reached again (`mi_wlan.c:1947` says it is). The lock macros
  are empty. `_eModule` is never set, so that DeInit runs "sh /DeInit.sh".
- A detector leaks a pipe in each round and ends when the descriptors run out, which
  takes about 51 minutes. A second start loses the first thread's identifier. A round that
  acts on a scan which has ended may flush a fresh address; the next one repairs it.
- `MI_WLAN_GetWlanChipVersion` clears the name it has before it looks, and goes by
  the caller's buffer. `MI_WLAN_SetNetworkType` reports success whatever its command did.
- `MI_WLAN_GetStatus`: a report without a BSSID leaves the caller's, a second file that
  cannot be opened leaves the old channel beside it, a frequency above 2.4 GHz gives 0.
- A caller may see an entry that the scan has just cleared; names with a colon are cut.

*Peripherals*
- Every GPIO call opens the device, and leaks it when its ioctl fails (not
  `EnableInterrupt` and `GetLevel`). `MI_SAR_Init` and the framebuffer's opening leak on
  failure too. `MI_INPUT_DeInit` closes nothing, and `GetKey` reads without looking whether
  the module is initialised. `GetKey`'s number survives a second open that failed.
- The serial mode of 8 bits has no bit that tells a command from data. The mode of 16
  bits (3LINE16B, not selected) does not send what it is documented to send:
  `_SDI_write_16bit` tests bit 7 of the value it shifts sixteen times, and so sends the low
  byte and zeros, where `mi_gpio_spi.h:151` has "2Bytes(ex.0xFF00)". *DisplayRight* is
  about the modes of 8 and 9 bits.
- The last lamp's blue is wrong unless its green is 0: `MI_RGBLED_SetColor` masks with
  0x0000ffff. Lines are half open and a frame lacks one corner; `getRGBT` reads
  uninitialised memory and leaks it.
- `MI_Delayms` begun at a counter of 0 returns at once; the wrap formula is one too
  short; the microseconds are a signed 32-bit number widened, so that a delay over its
  change of sign, every 71.6 minutes, is cut short; `MI_Delayms(0xFFFFFFFF)` never returns.
- The infrared thread looks at no acknowledgement. One transaction after a pin change
  that was lost may go unheard; two clean ones suffice, and the thread tries again after
  15 s. `MI_IR_Init` joins a thread that never ends; `currentTime` is read uninitialised.

## 7. What is not modelled

- *Code nobody runs*: `uart_test` (it would leave `ev_mutex` locked),
  `send_responecmd_Retrans`, `SHFailed`, `mi_ir_write_test` and `writeI2C`, `ScanIwpriv`,
  `SetSecurity`, `SetSSID`, `SetBridge` and the AP-client branches of `mi_wlan.c`, what
  stands under `#if 0` in `mi_ubi.c`, the 9-bit table of `mi_display.c` (not compiled).
- *Overruns of arrays*: in `main.cpp` the model's host sends no more than fits; the
  64-cell list and the fields of 10 bytes of `mi_wlan.c` are as large as needed.
- *Circles* of the framebuffer (floating point).
- *Texts*: the partition table, `bootcmd`, `/proc/mtd`, the reports of `iwlist` and
  `wpa_cli` and packets' wording are the values the code parses from them.
- *A second sampling thread and the callback* of the keypad; *closing or destroying*
  a UBI volume while another thread reads it: `UbiSlots` makes one call after the other.
- The *names* of UBI volumes: volumes are numbers.
- *A failing GPIO call of the panel* (`MI_SetIO_Out_*` of `mi_gpio_spi.c`, whose results
  nobody looks at): in `Panel` and `SpiModes` every pin change arrives. Only the infrared
  bus has such failures, where the code tries again.
- *Cancelling a detector before one was started*: `pthread_cancel` with an identifier that
  was never set. *An unknown mode* in `onSetSoundMode`, whose command byte is then uninitialised.
- `RunsAsReported` of `Pwm`, a part of *CommandsTakeEffect*, says little more than its
  actions do: three commands and what the kernel makes of them.
- *A failing write of the daemon* flushes what it has not read yet (`TCIOFLUSH`); a
  downloaded file of less than four bytes.
- *Data races* on `Now_cmd_e` and the keypad's table are modelled as atomic reads and
  writes in any order, which is what aligned words give on this CPU; `S_Read` and
  `packet` are written and read as wholes.
- *Headers, second copies of them, build files and binaries* hold nothing that moves.

## 8. The plan

In this order:

1. `SerialFrame` as what carries `SerialCommand`'s packets: what the assembler delivers
   is what the reader takes.
2. Threads in `UbiSlots`: a close or a removal while another thread reads the volume; the
   volumes' names.
