-------------------------------- MODULE Board --------------------------------
(* The descriptors of the process and the drivers that open a device and keep *)
(* or give back its number: the GPIO calls of mi_gpio.c, the keys of          *)
(* mi_input.c, the framebuffer of mi_fb.c, the scaler of mi_display.c, the    *)
(* converter of mi_sar.c, the serial line of SerialCommand.cpp and the serial *)
(* devices of uart_tool.                                                      *)
(* The kernel hands out the lowest free number, so a number that was closed   *)
(* soon stands for another file.                                              *)
EXTENDS Naturals, Integers, Sequences

CONSTANTS
    Numbers,      \* descriptors the process may have: 0 .. n
    Ttys,         \* how many serial devices there are
    Left          \* how the lines of serial devices may have been left: speed,
                  \* bits, cooked, and the input flags strip (ISTRIP) and
                  \* edit (ICRNL, IXON)

VARIABLES
    open,          \* the file behind each number, "none" when it is free
    _gInputFd,     \* -1 before the first open
    _gI2cFd,
    gInitDoneFlag,
    fb,            \* pFbdev->fb
    m_serial_handle,
    fds,           \* tty_fds of uart_tool's reading thread, in the order found,
                   \* each with its line and how that was left
    source         \* the file the keys were last read from by the initialised
                   \* module (history)

vars == <<open, _gInputFd, _gI2cFd, gInitDoneFlag, fb, m_serial_handle, fds, source>>
input == <<_gInputFd, _gI2cFd, gInitDoneFlag>>

-----------------------------------------------------------------------------
(* The kernel: the numbers open(2) may return for a device in a table, and    *)
(* the table after open and close.  Closing what is not open does nothing.    *)
Free(t) == {n \in Numbers : t[n] = "none"}

Opens(t) ==
    {-1} \cup {n \in Free(t) : \A k \in Free(t) : n <= k}

With(t, n, device) == IF n = -1 THEN t ELSE [t EXCEPT ![n] = device]

Closed(t, n) == IF n \in Numbers THEN [t EXCEPT ![n] = "none"] ELSE t

Behind(n) == IF n \in Numbers THEN open[n] ELSE "none"

-----------------------------------------------------------------------------
Init ==
    /\ open = [n \in Numbers |-> "none"]
    /\ _gInputFd = -1 /\ _gI2cFd = -1
    /\ gInitDoneFlag = FALSE
    /\ fb = -1
    /\ m_serial_handle = -1
    /\ fds = <<>>
    /\ source = "none"

OnlyOpen == UNCHANGED <<input, fb, m_serial_handle, fds, source>>

(* What a call leaves that opens a device and closes it again; some of them   *)
(* return without the close when their ioctl fails.                           *)
Brief(t, device) == {Closed(With(t, n, device), n) : n \in Opens(t)}
Leaky(t, device) == Brief(t, device) \cup {With(t, n, device) : n \in Opens(t)}

(* MI_GPIO_Init, _DeInit, _SetInput and _SetOutput. *)
GpioCall == open' \in Leaky(open, "gpioioctl") /\ OnlyOpen

(* MI_GPIO_GetLevel takes what its ioctl returns for the level. *)
GetLevel(t) == Brief(t, "gpioioctl")

(* MI_GPIO_EnableInterrupt keeps the result of its ioctl in a byte without a  *)
(* sign, which never is less than 0: the device is always closed.             *)
EnableInterrupt == open' \in Brief(open, "gpioioctl") /\ OnlyOpen

(* A round of GPIO_Interrupt, which asks for the levels of two pins; what it  *)
(* calls then only logs.                                                      *)
PollPins ==
    /\ \E first \in GetLevel(open) : open' \in GetLevel(first)
    /\ OnlyOpen

SarInit == open' \in Leaky(open, "saradc") /\ OnlyOpen
SarGetValue == open' \in Brief(open, "saradc") /\ OnlyOpen
VoltageVBat == open' \in Brief(open, "saradc") /\ OnlyOpen

(* MI_INPUT_Init. *)
InputInit ==
    /\ ~gInitDoneFlag
    /\ \E i \in Opens(open) :
           /\ _gInputFd' = i
           /\ LET first == With(open, i, "event0")
              IN  IF i = -1 THEN UNCHANGED <<open, _gI2cFd, gInitDoneFlag>>
                  ELSE \E c \in Opens(first) :
                           /\ _gI2cFd' = c
                           /\ open' = IF c = -1 THEN Closed(first, i)
                                      ELSE With(first, c, "cst066")
                           /\ gInitDoneFlag' = (c # -1)
    /\ UNCHANGED <<fb, m_serial_handle, fds, source>>

(* MI_INPUT_DeInit: nothing is closed. *)
InputDeInit ==
    /\ gInitDoneFlag
    /\ gInitDoneFlag' = FALSE
    /\ UNCHANGED <<open, _gInputFd, _gI2cFd, fb, m_serial_handle, fds, source>>

(* MI_INPUT_GetKeyStatus and _GetKeyValue read whether or not the module is   *)
(* initialised.                                                               *)
KeyFrom(n) ==
    /\ source' = IF gInitDoneFlag THEN Behind(n) ELSE source
    /\ UNCHANGED <<open, input, fb, m_serial_handle, fds>>

GetKeyStatus == KeyFrom(_gInputFd)
GetKeyValue == KeyFrom(_gI2cFd)

(* MI_fb_open: the number is kept when one of the calls after open fails. *)
FbOpen ==
    /\ \E n \in Opens(open) : fb' = n /\ open' = With(open, n, "fb")
    /\ UNCHANGED <<input, m_serial_handle, fds, source>>

(* What might go wrong: the number is kept after it was closed. *)
FbCloseKeeps ==
    /\ open' = Closed(open, fb)
    /\ UNCHANGED <<input, fb, m_serial_handle, fds, source>>

(* MI_fb_close: the mapping stays. *)
FbClose ==
    /\ open' = Closed(open, fb)
    /\ fb' = -1
    /\ UNCHANGED <<input, m_serial_handle, fds, source>>

(* SCL_IOCTL_init: the device is closed again unless its number is 0. *)
SclInit ==
    /\ \E n \in Opens(open) :
           open' = IF n = 0 THEN With(open, n, "scl") ELSE open
    /\ UNCHANGED <<input, fb, m_serial_handle, fds, source>>

(* SerialCommand::SerOpen: when the line cannot be set up, the number is kept. *)
SerOpen ==
    /\ \E n \in Opens(open) :
           m_serial_handle' = n /\ open' = With(open, n, "serial")
    /\ UNCHANGED <<input, fb, fds, source>>

SerClose ==
    /\ open' = Closed(open, m_serial_handle)
    /\ m_serial_handle' = -1
    /\ UNCHANGED <<input, fb, fds, source>>

(* What might go wrong: even parity instead of 'D'. *)
SetOptEven(line) == [line EXCEPT !.speed = 115200, !.bits = 8, !.cooked = FALSE, !.strip = TRUE]

(* tty_dev_set_opt, as it is called: 115200 baud, 8 bits, 'D'.  Only 'O' and  *)
(* 'E' would set ISTRIP, and the other input flags stay as they were left.    *)
SetOpt(line) == [line EXCEPT !.speed = 115200, !.bits = 8, !.cooked = FALSE]

(* The next device of find_multi_tty_dev; tcgetattr or tcsetattr may fail. *)
FindTty ==
    /\ Len(fds) < Ttys
    /\ \E n \in Opens(open) \ {-1} :
           \/ /\ \E left \in Left :
                     fds' = Append(fds, [fd |-> n, left |-> left, line |-> SetOpt(left)])
              /\ open' = With(open, n, "tty")
           \/ open' = Closed(With(open, n, "tty"), n) /\ UNCHANGED fds
    /\ UNCHANGED <<input, fb, m_serial_handle, source>>

Found == {fds[k].fd : k \in DOMAIN fds}

(* The end of thread_read_sercom_fun. *)
CloseTtys ==
    /\ open' = [n \in Numbers |-> IF n \in Found THEN "none" ELSE open[n]]
    /\ fds' = <<>>
    /\ UNCHANGED <<input, fb, m_serial_handle, source>>

Next ==
    \/ GpioCall \/ EnableInterrupt \/ PollPins \/ SarInit \/ SarGetValue \/ VoltageVBat
    \/ InputInit \/ InputDeInit \/ GetKeyStatus \/ GetKeyValue \/ FindTty \/ CloseTtys
    \/ FbOpen \/ FbClose \/ SclInit \/ SerOpen \/ SerClose

Spec == Init /\ [][Next]_vars

-----------------------------------------------------------------------------
(* A number that a driver holds and will read from or close stands for the    *)
(* driver's own device, whatever else was opened and closed meanwhile: the    *)
(* two of the keys while the module is initialised, that of the frame buffer, *)
(* that of the serial line, and those of uart_tool.  So the next read or      *)
(* close hits nobody else's file, and the keys were read from the keys.       *)
NumbersAreOwn ==
    /\ gInitDoneFlag => Behind(_gInputFd) = "event0" /\ Behind(_gI2cFd) = "cst066"
    /\ source \in {"none", "event0", "cst066"}
    /\ fb # -1 => Behind(fb) = "fb"
    /\ m_serial_handle # -1 => Behind(m_serial_handle) = "serial"
    /\ \A n \in Found : Behind(n) = "tty"

(* What comes of a byte of the host on a line. *)
Through(line, byte) ==
    CASE line.speed # 115200 \/ line.bits # 8 \/ line.cooked -> -1
      [] line.strip -> byte % 128
      [] line.edit /\ byte = 13 -> 10
      [] line.edit /\ byte \in {17, 19} -> -1
      [] OTHER -> byte

(* uart_tool reads the bytes the host has sent, the command codes of 128 and  *)
(* more among them, at whatever speed the line was left and in whatever mode; *)
(* only input flags that were left on go on changing bytes.                   *)
Kept == {fds[k].line : k \in {j \in DOMAIN fds : ~fds[j].left.strip /\ ~fds[j].left.edit}}
BytesPass == \A line \in Kept, byte \in 0 .. 255 : Through(line, byte) = byte
=============================================================================
