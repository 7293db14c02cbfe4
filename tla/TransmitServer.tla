---------------------------- MODULE TransmitServer ----------------------------
(***************************************************************************)
(* The transmit servers (usr/ioserver.c), their notifiers (usr/notifier.c) *)
(* and what is below them: the UART, the interrupts that reach the         *)
(* notifier (kernel/src/iio.c) and, on the train channel, the clear-to-    *)
(* send line of the train controller.                                      *)
(*                                                                         *)
(* Three servers are modelled, one of which is chosen initially: "train"   *)
(* and "terminal" run generic_tx_server, "fifo" runs fifo_tx_server on a   *)
(* terminal with FIFOs.  Bytes are numbered in the order of the Sends.     *)
(***************************************************************************)
EXTENDS Integers, Sequences, FiniteSetsExt

CONSTANTS
    MaxBytes,   \* bytes that are printed (bound)
    MaxPrint,   \* bytes in one MESSAGE_PRINTF (bound)
    MaxCallers, \* tasks that wait in Putc or Printf at a time (bound)
    BufSize,    \* TRAIN_TX_BUF_SZ, TERMINAL_TX_BUF_SZ
    FifoSize,   \* bytes the transmit FIFO of the terminal holds
    EscBytes    \* the bytes that are ESC_CH

ASSUME TransmitAssumption ==
    /\ MaxBytes \in Nat /\ MaxPrint \in Nat /\ MaxCallers \in Nat
    /\ BufSize \in Nat \ {0} /\ FifoSize \in Nat \ {0, 1}
    /\ EscBytes \subseteq Nat

VARIABLES
    channel,    \* which of the three servers this is
    asked,      \* history: bytes sent to the server
    inbox,      \* messages sent to it and not received
    buf,        \* tx_buf
    canPut,     \* can_put
    failed,     \* the Assert that failed, or "none"
    notifier,   \* "awaiting" the interrupt, "woken" by it, "sent" to the server
    uart,       \* bytes in the transmitter
    sent,       \* bytes that have gone down the line
    txfe,       \* uart0_txfe_asserted
    ctsSeen,    \* uart0_cts_asserted
    modem,      \* the modem status interrupt is pending
    controller  \* the train controller: "ready" with CTS up, "got" a byte,
                \* "busy" with CTS down

server == <<inbox, buf, canPut, failed>>
line == <<ctsSeen, txfe, modem, controller>>
vars == <<channel, asked, server, notifier, uart, sent, line>>

Ring == INSTANCE RingBuffer WITH Size <- BufSize, CountMod <- BufSize + MaxBytes + 1, Unset <- 0

Channels == {"train", "terminal", "fifo"}
Room == IF channel = "fifo" THEN FifoSize ELSE 1

FromNotifier == [type |-> "MESSAGE_NOTIFIER", bytes |-> << >>]

\* The train's notifier begins with a message, the others with AwaitEvent.
Init ==
    /\ channel \in Channels
    /\ asked = 0 /\ inbox = << >>
    /\ buf = Ring!NewBuffer /\ canPut = FALSE /\ failed = "none"
    /\ notifier = IF channel = "train" THEN "woken" ELSE "awaiting"
    /\ uart = << >> /\ sent = << >>
    /\ txfe = FALSE /\ ctsSeen = FALSE
    /\ modem = FALSE /\ controller = "ready"

----------------------------------------------------------------------------
\* The callers of Putc and Printf.

Callers == SelectSeq(inbox, LAMBDA m : m # FromNotifier)

Prints(type, n) ==
    /\ asked + n <= MaxBytes /\ Len(Callers) < MaxCallers
    /\ inbox' = Append(inbox, [type |-> type, bytes |-> [i \in 1 .. n |-> asked + i]])
    /\ asked' = asked + n
    /\ UNCHANGED <<channel, buf, canPut, failed, notifier, uart, sent, line>>

Putc == Prints("MESSAGE_PUTC", 1)

Printf == \E n \in 0 .. MaxPrint : Prints("MESSAGE_PRINTF", n)

----------------------------------------------------------------------------
\* The hardware and the interrupts.

ShiftsOut ==
    /\ uart # << >>
    /\ sent' = Append(sent, Head(uart))
    /\ uart' = Tail(uart)
    /\ controller' = IF channel = "train" THEN "got" ELSE controller
    /\ UNCHANGED <<channel, asked, server, notifier, ctsSeen, txfe, modem>>

\* The controller lowers CTS after a byte and raises it for the next; both edges
\* interrupt.  It stays down long enough for the first interrupt to be handled.
CtsFalls ==
    /\ controller = "got"
    /\ controller' = "busy" /\ modem' = TRUE
    /\ UNCHANGED <<channel, asked, server, notifier, uart, sent, ctsSeen, txfe>>

CtsRises ==
    /\ controller = "busy" /\ ~modem
    /\ controller' = "ready" /\ modem' = TRUE
    /\ UNCHANGED <<channel, asked, server, notifier, uart, sent, ctsSeen, txfe>>

CtsUp == controller # "busy"

TryClear_KeepsCts(empty, up) ==                                    \* slip
    /\ notifier' = IF empty /\ up THEN "woken" ELSE notifier
    /\ txfe' = (empty /\ ~up)
    /\ ctsSeen' = up

\* try_clear_train_send: the notifier is woken when the transmitter is empty and
\* CTS has come up since the last time.
TryClear(empty, up) ==
    /\ notifier' = IF empty /\ up THEN "woken" ELSE notifier
    /\ txfe' = (empty /\ ~up)
    /\ ctsSeen' = (up /\ ~empty)

\* Enabled by AwaitEvent and disabled by interrupt_tx_clear; the FIFO interrupts
\* when it is half empty.
TransmitInterrupt ==
    /\ notifier = "awaiting" /\ ~txfe
    /\ Len(uart) <= Room \div 2
    /\ IF channel = "train" THEN TryClear(TRUE, ctsSeen)
       ELSE notifier' = "woken" /\ UNCHANGED <<txfe, ctsSeen>>
    /\ UNCHANGED <<channel, asked, server, uart, sent, modem, controller>>

ModemInterrupt ==
    /\ modem
    /\ modem' = FALSE
    /\ TryClear(txfe, ctsSeen \/ CtsUp)
    /\ UNCHANGED <<channel, asked, server, uart, sent, controller>>

NotifierSends ==
    /\ notifier = "woken"
    /\ notifier' = "sent"
    /\ inbox' = Append(inbox, FromNotifier)
    /\ UNCHANGED <<channel, asked, buf, canPut, failed, uart, sent, line>>

----------------------------------------------------------------------------
\* The server.

\* rawcanputc
RawCanPut == Len(uart) < Room /\ (channel = "train" => CtsUp)

\* How many bytes one turn of the server moves: generic_tx_server one,
\* fifo_tx_server up to the next escape sequence or until the FIFO is full.
BurstSize(bytes) ==
    IF channel # "fifo" THEN 1
    ELSE Max({n \in 1 .. Len(bytes) :
                /\ n = 1 \/ n <= Room - Len(uart)
                /\ \A i \in 2 .. n : bytes[i] \notin EscBytes})

\* Bytes go from a non-empty buffer to the UART, and the notifier is answered.
Transmit(b) ==
    LET bytes == Ring!Contents(b)
        n == BurstSize(bytes)
    IN  /\ uart' = uart \o SubSeq(bytes, 1, n)
        /\ buf' = Ring!RemoveSome(b, n)
        /\ canPut' = FALSE
        /\ IF notifier = "sent" THEN notifier' = "awaiting" /\ UNCHANGED failed
           ELSE failed' = "reply" /\ UNCHANGED notifier

Fail(assertion) ==
    /\ failed' = assertion
    /\ UNCHANGED <<buf, canPut, notifier, uart>>

Receives(type) ==
    /\ failed = "none"
    /\ inbox # << >> /\ Head(inbox).type = type
    /\ inbox' = Tail(inbox)
    /\ UNCHANGED <<channel, asked, sent, line>>

HandleNotifier_Forgets ==                                          \* slip
    /\ Receives("MESSAGE_NOTIFIER")
    /\ IF Ring!IsEmpty(buf) THEN UNCHANGED <<canPut, buf, failed, notifier, uart>>
       ELSE Transmit(buf)

\* fifo_tx_server does not ask rawcanputc here.
HandleNotifier ==
    /\ Receives("MESSAGE_NOTIFIER")
    /\ IF Ring!IsEmpty(buf)
       THEN canPut' = TRUE /\ UNCHANGED <<buf, failed, notifier, uart>>
       ELSE IF channel # "fifo" /\ ~RawCanPut THEN Fail("canputc")
       ELSE Transmit(buf)

\* Both messages for printing: the bytes join the buffer, and when the UART has
\* been waiting for one the first go there at once.
HandlePrint(type) ==
    /\ Receives(type)
    /\ LET bytes == Head(inbox).bytes
           b == Ring!PutAll(buf, bytes)
       IN  IF Len(Ring!Contents(buf)) + Len(bytes) > BufSize THEN Fail("full")
           ELSE IF bytes = << >> \/ ~canPut
                THEN buf' = b /\ UNCHANGED <<canPut, failed, notifier, uart>>
           ELSE IF ~RawCanPut THEN Fail("canputc")
           ELSE Transmit(b)

HandlePutc == HandlePrint("MESSAGE_PUTC")
HandlePrintf == HandlePrint("MESSAGE_PRINTF")

----------------------------------------------------------------------------
ServerStep == HandleNotifier \/ HandlePutc \/ HandlePrintf
Hardware == ShiftsOut \/ CtsFalls \/ CtsRises
Interrupt == TransmitInterrupt \/ ModemInterrupt

Next == Putc \/ Printf \/ Hardware \/ Interrupt \/ NotifierSends \/ ServerStep

Spec == Init /\ [][Next]_vars

\* The line and the controller go on, interrupts are handled, and the notifier
\* and the server run before all other tasks but the clock's (usr/ioserver.c:280).
FairSpec ==
    /\ Spec
    /\ WF_vars(ShiftsOut) /\ WF_vars(CtsFalls) /\ WF_vars(CtsRises)
    /\ WF_vars(TransmitInterrupt) /\ WF_vars(ModemInterrupt)
    /\ WF_vars(NotifierSends) /\ WF_vars(ServerStep)

----------------------------------------------------------------------------
InboxBytes ==
    LET upTo[n \in 0 .. Len(inbox)] ==
            IF n = 0 THEN << >> ELSE upTo[n - 1] \o inbox[n].bytes
    IN  upTo[Len(inbox)]

\* What has been printed is on the line, in the UART, in the buffer or on its way
\* to the server: every byte once, in the order of printing, unless the server has
\* stopped; and it stops only for a buffer that is full: when it puts a byte the UART
\* takes it, and when it answers its notifier the notifier waits
\* (usr/ioserver.c:18-21, 31-36, 46).
BytesInOrder ==
    /\ failed \in {"none", "full"}
    /\ failed = "none" =>
          sent \o uart \o Ring!Contents(buf) \o InboxBytes = [i \in 1 .. asked |-> i]

\* No byte is handed to the train's UART before the controller has asked for it by
\* raising CTS, so the UART is empty from the moment a byte is out until then
\* (kernel/src/iio.c:13, usr/ioserver.c:18).
ControllerReady == channel = "train" /\ uart # << >> => controller = "ready"

\* Every byte that is printed goes down the line in the end, unless the buffer has
\* overflown (usr/ioserver.c:3-65, 67-141).
AllSent ==
    \A n \in 1 .. MaxBytes : asked >= n ~> Len(sent) >= n \/ failed # "none"

==============================================================================
