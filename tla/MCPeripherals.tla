---------------------------- MODULE MCPeripherals ----------------------------
(* The parts of the process that move on their own, side by side: each        *)
(* behaviour is one of one part, and the others stay where they began.  The   *)
(* keypad has two keys and times in units of 10 ms: samples come after 30 or, *)
(* when the thread is late, 60 ms.                                            *)
EXTENDS Peripherals, TLC

CONSTANTS k1, k2

VARIABLES
    which,                                                   \* the part that moves
    wires, chip, step, part, awake,                          \* Panel
    pins, slave, work, buf, waited, whole, clean, losses,    \* IrBus
    download, ota, stage                                     \* Crc

\* Lines left as a terminal, and as a raw line of seven bits.
MCLeft ==
    {[speed |-> 9600, bits |-> 8, cooked |-> TRUE, strip |-> FALSE, edit |-> TRUE],
     [speed |-> 9600, bits |-> 7, cooked |-> FALSE, strip |-> FALSE, edit |-> FALSE]}

\* Colours whose blue is cut out with another byte, with one digit of it, and
\* with nothing.
MCColours == {0, 1320, 61440, 1057023, 16711695}

\* One colour whose four bytes differ.
MCPaints == {[r |-> 1, g |-> 2, b |-> 3, t |-> 4]}

\* An access point on the last regular channel of the band the switch knows,
\* and one in another band.
MCFrequency == [n \in {"near", "fast"} |-> IF n = "near" THEN 2472 ELSE 5180]

\* Cells without a key, with WEP, with WPA and with both, some of them hidden.
Cell(hidden, key, ies, groups, psk) ==
    [hidden |-> hidden, key |-> key, ies |-> ies, groups |-> groups, psk |-> psk]

MCCells ==
    {Cell(h, FALSE, <<>>, <<>>, FALSE) : h \in BOOLEAN}
        \cup {Cell(h, TRUE, <<"other", "WPA2">>, <<"other", "AES">>, TRUE) : h \in BOOLEAN}
        \cup {Cell(FALSE, TRUE, <<>>, <<>>, FALSE),
              Cell(FALSE, TRUE, <<"WPA2", "WPA">>, <<"TKIP", "AES">>, FALSE)}

Display ==
    INSTANCE Panel WITH
        Starts <- [wires : [{"CS", "SCLK", "SDI"} -> {0, 1}], count : {0, 9}]

Infrared ==
    INSTANCE IrBus WITH
        Codes <- {<<0, 0>>, <<165, 255>>}, Stamps <- {0, 20}, MaxLosses <- 1

\* One body of more than eight bytes, one of nothing but zeros; damage up to the
\* greatest length that the CRC must find.
Checking ==
    INSTANCE Crc WITH
        Bodies <- {<<{0}, {1, 7}, {}, {}, {3}, 0..7, {5}, {2}, {1, 6}>>, [k \in 1..5 |-> {}]},
        Patterns <- {{0}, {0, 1}, 0..7, 0..31, {0, 31}},
        image <- download

serialVars == <<wire, store, meant, heard, faults, lost, slow>>
scanVars == <<latest, pipe, scanning, list, number, at>>
displayVars == <<wires, chip, step, part, awake>>
transfersVars == <<levels, seen, got, sent, breaks>>
infraredVars == <<pins, slave, work, buf, waited, whole, clean, losses>>
waitVars == <<time, unit, phase, wanted, stamp, begun>>
drawingVars == <<mem, picture>>
checkVars == <<download, ota, stage>>
filesVars == <<open, _gInputFd, _gI2cFd, gInitDoneFlag, fb, m_serial_handle, fds, source>>
pulsesVars == <<pwm, reported>>
lightsVars == <<shown, asked>>
radioVars == <<plugged, _u8chipname, buffer, named, mode, command>>
statusVars == <<joined, bssid, signal, turn, statu, told>>

Parts == {"keypad", "serial", "scan", "display", "transfers", "infrared", "wait", "drawing",
          "checking", "files", "pulses", "lights", "radio", "status"}

PartsInit ==
    /\ which \in Parts
    /\ Init
    /\ Serial!Init
    /\ Scan!Init
    /\ Display!Init /\ (which # "display" => wires.CS + wires.SCLK + wires.SDI + chip.count = 0)
    /\ Transfers!Init /\ (which # "transfers" => levels.CS + levels.SCLK + levels.SDI = 0)
    /\ Infrared!Init /\ (which # "infrared" => waited = 0)
    /\ Wait!Init /\ (which # "wait" => time = 0 /\ unit = "ms")
    /\ Drawing!Init
    /\ Checking!Init /\ (which # "checking" => download[1] = {})
    /\ Files!Init
    /\ Pulses!Init
    /\ Lights!Init
    /\ Status!Init
    /\ Radio!Init /\ (which # "radio" => plugged = "")

Still(p) ==
    /\ UNCHANGED which
    /\ p # "keypad" => UNCHANGED vars
    /\ p # "serial" => UNCHANGED serialVars
    /\ p # "scan" => UNCHANGED scanVars
    /\ p # "display" => UNCHANGED displayVars
    /\ p # "transfers" => UNCHANGED transfersVars
    /\ p # "infrared" => UNCHANGED infraredVars
    /\ p # "wait" => UNCHANGED waitVars
    /\ p # "drawing" => UNCHANGED drawingVars
    /\ p # "checking" => UNCHANGED checkVars
    /\ p # "files" => UNCHANGED filesVars
    /\ p # "pulses" => UNCHANGED pulsesVars
    /\ p # "lights" => UNCHANGED lightsVars
    /\ p # "radio" => UNCHANGED radioVars
    /\ p # "status" => UNCHANGED statusVars

PartsNext ==
    \/ which = "keypad" /\ Next /\ Still("keypad")
    \/ which = "serial" /\ Serial!Next /\ Still("serial")
    \/ which = "scan" /\ Scan!Next /\ Still("scan")
    \/ which = "display" /\ Display!Next /\ Still("display")
    \/ which = "transfers" /\ Transfers!Next /\ Still("transfers")
    \/ which = "infrared" /\ Infrared!Next /\ Still("infrared")
    \/ which = "wait" /\ Wait!Next /\ Still("wait")
    \/ which = "drawing" /\ Drawing!Next /\ Still("drawing")
    \/ which = "checking" /\ Checking!Next /\ Still("checking")
    \/ which = "files" /\ Files!Next /\ Still("files")
    \/ which = "pulses" /\ Pulses!Next /\ Still("pulses")
    \/ which = "lights" /\ Lights!Next /\ Still("lights")
    \/ which = "radio" /\ Radio!Next /\ Still("radio")
    \/ which = "status" /\ Status!Next /\ Still("status")

PartsSpec ==
    PartsInit /\ [][PartsNext]_<<which, vars, serialVars, scanVars, displayVars,
                                  transfersVars, infraredVars, waitVars, drawingVars,
                                  checkVars, filesVars, pulsesVars, lightsVars, radioVars,
                                  statusVars>>

-----------------------------------------------------------------------------
(* The properties of the parts *)

\* Of what was damaged on its way nothing else is made: the reader of
\* SerialCommand.cpp takes no frame for another, and a disturbed character costs
\* its own frame and the next one at most; and the loader goes on with the image
\* that was downloaded or with none.
DamageIsContained ==
    /\ Serial!DeliveredWasSent
    /\ Serial!BackInStep
    /\ Checking!OnlyWholeIsUpdated

\* The chips behind GPIO pins that the program moves itself do what they are
\* told: the panel is switched on when the words sent to it have programmed it, and
\* the infrared chip gets back to listening and its codes are read right.
PinsAreUnderstood ==
    /\ Display!OnWhenProgrammed
    /\ Infrared!LearnsAndReads

Symmetry == Permutations(Keys)
=============================================================================
