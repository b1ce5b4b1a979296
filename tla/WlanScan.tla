------------------------------ MODULE WlanScan ------------------------------
(* MI_WLAN_Scan on an opened wireless module: iwlist reports the cells around *)
(* it, awk cuts the report into lines, and _MI_WLAN_Scan turns the lines into *)
(* the list _stAPInfo that MI_WLAN_GetAttr hands out one entry at a time.     *)
(* The parser keeps an index and two flags from line to line, and takes back  *)
(* the index when a cell turns out not to tell its name.                      *)
(*                                                                            *)
(* A line is what its first word says it is; its value is the cell's.         *)
(* Frequency, channel and signal, each parsed from a line of its own and      *)
(* stored without a look at anything else, are one value, and so are the      *)
(* names.  The locks are empty, so an entry may be asked for between any two  *)
(* lines.                                                                     *)
EXTENDS Integers, Sequences, FiniteSets

CONSTANTS
    Cells,       \* kinds of cells: [hidden, key, ies, groups, psk]
    MaxCells,    \* cells in a report at most
    NameFirst    \* orders of iwlist: is the name reported before the signal?

VARIABLES
    latest,    \* the cells of the latest scan
    pipe,      \* the line the pipe gives next: the number of its cell, its tag
               \* and its element; and the order of iwlist
    scanning,  \* is _MI_WLAN_Scan reading them?
    list,      \* _stAPInfo
    number,    \* _u8APNum
    at         \* s8Idx, bFindCell, bFindFirstIE and au8MacBuffer

vars == <<latest, pipe, scanning, list, number, at>>

(* An entry after memset: MI_WLAN_Security_e and MI_WLAN_Encrypt_e are NONE. *)
NoEntry == [ssid |-> "", mac |-> 0, signal |-> 0, mode |-> FALSE,
            security |-> "NONE", encrypt |-> "NONE", psk |-> FALSE]

NoCell == [idx |-> -1, cell |-> FALSE, firstIE |-> FALSE, mac |-> 0]

-----------------------------------------------------------------------------
(* The report: cell after cell, each from its Cell line to its information    *)
(* elements, which come in groups of an IE line, its Group line and its PSK   *)
(* line.                                                                      *)
Beginning(i, first) == [cell |-> i, tag |-> "Cell", elem |-> 0, first |-> first]

TheCell == latest[pipe.cell]
AtEnd == pipe.cell > Len(latest)

Then(tag) == pipe' = [pipe EXCEPT !.tag = tag]

ThenElement(k) ==
    pipe' = IF k <= Len(TheCell.ies) THEN [pipe EXCEPT !.tag = "IE", !.elem = k]
            ELSE Beginning(pipe.cell + 1, pipe.first)

(* What comes after a line; the name stands before or behind the signal. *)
Follows ==
    \/ pipe.tag = "Cell" /\ Then(IF pipe.first THEN "ESSID" ELSE "Signal")
    \/ pipe.tag = "ESSID" /\ Then(IF pipe.first THEN "Signal" ELSE "Mode")
    \/ pipe.tag = "Signal" /\ Then("key")
    \/ pipe.tag = "key" /\ Then(IF pipe.first THEN "Mode" ELSE "ESSID")
    \/ pipe.tag = "Mode" /\ ThenElement(1)
    \/ /\ pipe.tag = "IE"
       /\ IF TheCell.ies[pipe.elem] = "other" THEN ThenElement(pipe.elem + 1)
          ELSE Then("Group")
    \/ pipe.tag = "Group" /\ IF TheCell.psk THEN Then("PSK") ELSE ThenElement(pipe.elem + 1)
    \/ pipe.tag = "PSK" /\ ThenElement(pipe.elem + 1)

-----------------------------------------------------------------------------
Init ==
    /\ latest = <<>> /\ scanning = FALSE
    /\ pipe = Beginning(1, FALSE)
    /\ list = [i \in 0 .. MaxCells - 1 |-> NoEntry]
    /\ number = 0
    /\ at = NoCell

(* The list is cleared before the command is run; a pipe that cannot be      *)
(* opened gives no lines.                                                     *)
ScanBegin(cells, first) ==
    /\ ~scanning
    /\ scanning' = TRUE
    /\ latest' = cells
    /\ pipe' = Beginning(1, first)
    /\ list' = [i \in 0 .. MaxCells - 1 |-> NoEntry]
    /\ number' = 0
    /\ at' = NoCell

Line(tag) ==
    /\ scanning /\ ~AtEnd
    /\ pipe.tag = tag /\ Follows
    /\ UNCHANGED <<latest, scanning, number>>

InCell == at.cell /\ at.idx >= 0

Secure(security) == list' = [list EXCEPT ![at.idx].security = security]

CellLine ==
    /\ Line("Cell")
    /\ at' = [idx |-> at.idx + 1, cell |-> TRUE, firstIE |-> FALSE, mac |-> pipe.cell]
    /\ UNCHANGED list

Name == list' = [list EXCEPT ![at.idx].ssid = "name", ![at.idx].mac = at.mac]

(* What might go wrong: the cell without a name keeps its place. *)
EssidLineKeeps ==
    /\ Line("ESSID") /\ InCell
    /\ IF TheCell.hidden
       THEN at' = [at EXCEPT !.cell = FALSE] /\ UNCHANGED list
       ELSE Name /\ UNCHANGED at

(* The lines that follow an empty name are passed over up to the next cell,  *)
(* which takes the same place in the list.                                    *)
EssidLine ==
    /\ Line("ESSID") /\ InCell
    /\ IF TheCell.hidden
       THEN at' = [at EXCEPT !.cell = FALSE, !.idx = @ - 1] /\ UNCHANGED list
       ELSE Name /\ UNCHANGED at

SignalLine ==
    /\ Line("Signal") /\ InCell
    /\ list' = [list EXCEPT ![at.idx].signal = pipe.cell]
    /\ UNCHANGED at

ModeLine ==
    /\ Line("Mode") /\ InCell
    /\ list' = [list EXCEPT ![at.idx].mode = TRUE]
    /\ UNCHANGED at

(* A key makes the security unknown until an information element tells it. *)
KeyLine ==
    /\ Line("key") /\ InCell
    /\ IF ~TheCell.key THEN Secure("NONE")
       ELSE IF list[at.idx].security = "NONE" THEN Secure("UNKNOWTYPE")
       ELSE UNCHANGED list
    /\ UNCHANGED at

IELine ==
    /\ Line("IE") /\ InCell
    /\ IF /\ ~at.firstIE /\ list[at.idx].security = "UNKNOWTYPE"
          /\ TheCell.ies[pipe.elem] # "other"
       THEN Secure(TheCell.ies[pipe.elem])
       ELSE UNCHANGED list
    /\ UNCHANGED at

GroupLine ==
    /\ Line("Group") /\ InCell
    /\ IF at.firstIE
       THEN UNCHANGED <<list, at>>
       ELSE /\ list' = [list EXCEPT ![at.idx].encrypt = TheCell.groups[pipe.elem]]
            /\ at' = [at EXCEPT !.firstIE = TRUE]

PskLine ==
    /\ Line("PSK") /\ InCell
    /\ list' = [list EXCEPT ![at.idx].psk = TRUE]
    /\ UNCHANGED at

(* A line outside a cell. *)
SkipLine ==
    /\ \E tag \in {"Signal", "key", "ESSID", "Mode", "IE", "Group", "PSK"} : Line(tag)
    /\ ~InCell
    /\ UNCHANGED <<list, at>>

ScanEnd ==
    /\ scanning /\ AtEnd
    /\ scanning' = FALSE
    /\ number' = at.idx + 1
    /\ UNCHANGED <<latest, pipe, list, at>>

(* Does MI_WLAN_GetAttr have an entry of that index? *)
GetAPInfoByIdx(i) == i < number

Next ==
    \/ \E n \in 0 .. MaxCells, first \in NameFirst :
           \E cells \in [1 .. n -> Cells] : ScanBegin(cells, first)
    \/ CellLine \/ EssidLine \/ SignalLine \/ ModeLine \/ KeyLine \/ IELine
    \/ GroupLine \/ PskLine \/ SkipLine \/ ScanEnd

Spec == Init /\ [][Next]_vars

-----------------------------------------------------------------------------
(* What the i-th cell ought to be listed as: its own signal and address, the  *)
(* security of the first element it is known by and the cipher of its group.  *)
FirstKnown(c, k) ==
    c.ies[k] # "other" /\ \A j \in 1 .. (k - 1) : c.ies[j] = "other"

Unknown(c) == \A k \in 1 .. Len(c.ies) : c.ies[k] = "other"

ListedAs(e, i, c) ==
    /\ e.ssid = "name" /\ e.mac = i /\ e.signal = i /\ e.mode
    /\ \/ /\ Unknown(c)
          /\ e.security = IF c.key THEN "UNKNOWTYPE" ELSE "NONE"
          /\ e.encrypt = "NONE" /\ ~e.psk
       \/ \E k \in 1 .. Len(c.ies) :
              /\ FirstKnown(c, k)
              /\ e.security = IF c.key THEN c.ies[k] ELSE "NONE"
              /\ e.encrypt = c.groups[k] /\ e.psk = c.psk

(* The cells before the i-th that tell their name. *)
Before(i) == Cardinality({j \in 1 .. Len(latest) : j < i /\ ~latest[j].hidden})

(* Whenever an entry can be had it is the whole and only the information of  *)
(* one cell that tells its name: nothing of a hidden cell and nothing of a    *)
(* neighbour is mixed in, no cell is missing and they come in the order of    *)
(* the report; while the lines are being read no entry can be had.            *)
ListedAsReported ==
    /\ number = IF scanning THEN 0 ELSE Before(Len(latest) + 1)
    /\ \A i \in 1 .. Len(latest) :
           ~scanning /\ ~latest[i].hidden =>
               GetAPInfoByIdx(Before(i)) /\ ListedAs(list[Before(i)], i, latest[i])
=============================================================================
