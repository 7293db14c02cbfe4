---------------------------- MODULE ReceiveServer ----------------------------
(***************************************************************************)
(* The receive servers (usr/ioserver.c), their notifiers (usr/notifier.c)  *)
(* and the tasks that wait in Getc (lib/codes.c).                          *)
(*                                                                         *)
(* Two servers are modelled, one of which is chosen initially:             *)
(* generic_rx_server, which takes one byte per interrupt, and              *)
(* fifo_rx_server, which empties a FIFO.  Bytes are numbered in the order  *)
(* of their arrival.                                                       *)
(***************************************************************************)
EXTENDS Integers, Sequences, FiniteSets

CONSTANTS
    Readers,    \* tasks that call Getc
    FifoReaders, \* how many of them use the FIFO server at a time
    Servers,    \* "generic", "fifo": the servers to choose from
    MaxBytes,   \* bytes that arrive (bound)
    MaxGets,    \* calls of Getc (bound)
    BufSize,    \* TRAIN_RX_BUF_SZ, TERMINAL_RX_BUF_SZ
    FifoSize,   \* bytes the receive FIFO holds
    MaxTasks    \* MAX_TASKS, elements of wait_buf

ASSUME ReceiveAssumption ==
    /\ Servers \subseteq {"generic", "fifo"}
    /\ MaxBytes \in Nat /\ MaxGets \in Nat /\ FifoReaders \in Nat
    /\ BufSize \in Nat \ {0} /\ FifoSize \in Nat \ {0}
    /\ IsFiniteSet(Readers) /\ "notifier" \notin Readers
    /\ MaxTasks \in Nat \ {0} /\ MaxTasks >= Cardinality(Readers)

VARIABLES
    server,     \* which of the two servers this is
    arrived,    \* history: bytes that have come down the line
    gets,       \* history: calls of Getc
    uart,       \* bytes in the receiver
    notifier,   \* "awaiting" the interrupt, "woken" by it, "sent" to the server
    inbox,      \* messages sent to the server and not received
    buf,        \* rx_buf
    wait,       \* wait_buf
    blocked,    \* the readers in Getc
    delivered,  \* history: the answers to Getc so far
    failed      \* the Assert that failed, or "none"

hardware == <<arrived, uart>>
vars == <<server, hardware, gets, notifier, inbox, buf, wait, blocked, delivered, failed>>

CountMod == BufSize + MaxBytes + MaxTasks + 1   \* stands for 2^32

Ring == INSTANCE RingBuffer WITH Size <- BufSize, Unset <- 0
Waiters == INSTANCE RingBuffer WITH Size <- MaxTasks, Unset <- "nobody"

NOTIFIER == "notifier"
Room == IF server = "fifo" THEN FifoSize ELSE 1

\* The notifier of the FIFO server sends a message before it awaits an interrupt,
\* and has sent it when the readers, which run below the server and the name
\* server, can call Getc first.
Init ==
    /\ server \in Servers
    /\ arrived = 0 /\ gets = 0 /\ uart = << >>
    /\ IF server = "fifo" THEN notifier = "sent" /\ inbox = <<NOTIFIER>>
       ELSE notifier = "awaiting" /\ inbox = << >>
    /\ buf = Ring!NewBuffer /\ wait = Waiters!NewBuffer
    /\ blocked = {} /\ delivered = << >> /\ failed = "none"

----------------------------------------------------------------------------
\* The line, which is slow enough for the receiver never to overrun, and the
\* interrupt: enabled by AwaitEvent, disabled when it has come.
ByteArrives ==
    /\ arrived < MaxBytes /\ Len(uart) < Room
    /\ arrived' = arrived + 1
    /\ uart' = Append(uart, arrived')
    /\ UNCHANGED <<server, gets, notifier, inbox, buf, wait, blocked, delivered, failed>>

ReceiveInterrupt ==
    /\ notifier = "awaiting" /\ uart # << >>
    /\ notifier' = "woken"
    /\ UNCHANGED <<server, hardware, gets, inbox, buf, wait, blocked, delivered, failed>>

NotifierSends ==
    /\ notifier = "woken"
    /\ notifier' = "sent"
    /\ inbox' = Append(inbox, NOTIFIER)
    /\ UNCHANGED <<server, hardware, gets, buf, wait, blocked, delivered, failed>>

Getc(r) ==
    /\ r \notin blocked /\ gets < MaxGets
    /\ server = "fifo" => Cardinality(blocked) < FifoReaders
    /\ gets' = gets + 1
    /\ blocked' = blocked \cup {r}
    /\ inbox' = Append(inbox, r)
    /\ UNCHANGED <<server, hardware, notifier, buf, wait, delivered, failed>>

----------------------------------------------------------------------------
\* The server.

Receives(from) ==
    /\ failed = "none"
    /\ inbox # << >> /\ Head(inbox) \in from
    /\ inbox' = Tail(inbox)
    /\ UNCHANGED <<server, arrived, gets>>

Answer_LastFirst(b, n) ==                                           \* slip
    LET queue == Waiters!Contents(wait)
    IN  /\ delivered' = delivered \o SubSeq(Ring!Contents(b), 1, n)
        /\ blocked' = blocked \ {queue[i] : i \in wait.elems - n + 1 .. wait.elems}
        /\ buf' = Ring!RemoveSome(b, n)
        /\ wait' = [wait EXCEPT !.in = (@ - n) % MaxTasks, !.elems = @ - n]

\* The first n waiters get the first n elements of the buffer, also the elements
\* it does not have.
Answer(b, n) ==
    LET bytes == [i \in 1 .. n |-> b.data[(b.out + i - 1) % BufSize]]
        first == SubSeq(Waiters!Contents(wait), 1, n)
    IN  /\ delivered' = delivered \o bytes
        /\ blocked' = blocked \ {first[i] : i \in 1 .. n}
        /\ buf' = Ring!RemoveSome(b, n)
        /\ wait' = Waiters!RemoveSome(wait, n)

Fail(assertion) ==
    /\ failed' = assertion
    /\ UNCHANGED <<uart, notifier, buf, wait, blocked, delivered>>

\* generic_rx_server takes one byte and answers one waiter, fifo_rx_server takes
\* all the bytes and answers all the waiters.
Taken == IF server = "fifo" THEN Len(uart) ELSE 1

Answered_NoneOnce == IF server = "fifo" THEN wait.elems ELSE 0      \* slip

Answered_All == wait.elems                                          \* slip

Answered ==
    IF server = "fifo" \/ Waiters!IsEmpty(wait) THEN wait.elems ELSE 1

HandleNotifier ==
    /\ Receives({NOTIFIER})
    /\ IF Len(uart) < Taken THEN Fail("cangetc")
       ELSE IF Len(Ring!Contents(buf)) + Taken > BufSize THEN Fail("full")
       ELSE /\ uart' = SubSeq(uart, Taken + 1, Len(uart))
            /\ notifier' = "awaiting"
            /\ Answer(Ring!PutAll(buf, SubSeq(uart, 1, Taken)), Answered)
            /\ UNCHANGED failed

\* A byte that is there already is the answer, otherwise the reader waits.
HandleGetc ==
    /\ Receives(Readers)
    /\ IF Ring!IsEmpty(buf)
       THEN /\ wait' = Waiters!Put(wait, Head(inbox))
            /\ UNCHANGED <<buf, delivered, blocked>>
       ELSE /\ delivered' = Append(delivered, Ring!Peek(buf))
            /\ buf' = Ring!DropOldest(buf)
            /\ blocked' = blocked \ {Head(inbox)}
            /\ UNCHANGED wait
    /\ UNCHANGED <<uart, notifier, failed>>

----------------------------------------------------------------------------
ServerStep == HandleNotifier \/ HandleGetc

Next ==
    \/ ByteArrives \/ ReceiveInterrupt \/ NotifierSends
    \/ \E r \in Readers : Getc(r)
    \/ ServerStep

Spec == Init /\ [][Next]_vars

FairSpec ==
    /\ Spec
    /\ WF_vars(ReceiveInterrupt) /\ WF_vars(NotifierSends) /\ WF_vars(ServerStep)

----------------------------------------------------------------------------
\* Every byte that has arrived is an answer to one Getc, in the buffer or in the
\* UART, in the order of arrival, and no answer is anything else
\* (usr/ioserver.c:165-171, 175-178, 213, 216-220).
EveryByteOnce ==
    delivered \o Ring!Contents(buf) \o uart = [i \in 1 .. arrived |-> i]

\* Readers are answered in the order of their calls (usr/ioserver.c:170, 180).
FirstComeFirstServed ==
    [][LET queue == Waiters!Contents(wait) \o inbox
       IN  \A r \in blocked \ blocked', s \in blocked \cap blocked' :
             \E i, j \in DOMAIN queue : i < j /\ queue[i] = r /\ queue[j] = s]_vars

\* When n bytes have arrived and n have been asked for, n are delivered in the end,
\* unless the buffer has overflown (usr/ioserver.c:143-188, 190-237).
Delivered ==
    \A n \in 1 .. MaxBytes :
        arrived >= n /\ gets >= n ~> Len(delivered) >= n \/ failed # "none"

==============================================================================
