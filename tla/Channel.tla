------------------------------- MODULE Channel -------------------------------
(***************************************************************************)
(* The byte channels under the driver: a serial port, a TCP or a UDP       *)
(* socket, as the classes of sl_{serial,tcp,udp}_channel.cpp drive them    *)
(* through the serial and socket classes of the POSIX ports (linux; macOS  *)
(* differs in the self pipe and the baud rate only) and of win32.          *)
(*                                                                         *)
(* What the device sends waits in inbox as packets: single bytes on a      *)
(* serial line and a TCP connection, datagrams on UDP.  A byte is the      *)
(* number it has among those sent in this session.  Addresses are left     *)
(* out: a channel that cannot reach its device just fails to open.         *)
(***************************************************************************)
EXTENDS Integers, Sequences, SequencesExt

CONSTANTS
  Hint,     \* bytes a socket is asked for at once (1024 in the code)
  WaitTime, \* the bound of a wait, in ticks
  MaxBytes  \* bound: bytes the device sends in one session

ASSUME ChannelAssumption ==
  Hint \in Nat \ {0} /\ WaitTime \in Nat \ {0} /\ MaxBytes \in Nat

VARIABLES
  kind, port,   \* "serial", "tcp" or "udp"; "posix" or "win32"
  socket,       \* "closed", "open", or "disposed": a TCP or UDP socket is deleted
  link,         \* "up", or "gone": unplugged, closed by the device, unreachable
  refused,      \* UDP: the answer "unreachable" to a message is pending
  inbox,        \* what can be read, in packets
  arrived,      \* all that came since the channel was opened and flushed
  bytes,        \* bytes the device has sent since
  waited, quiet \* ticks the wait under way has lasted, and since the last byte

channelVars == <<kind, port, socket, link, refused, inbox, arrived, bytes, waited, quiet>>
deviceVars  == <<kind, port, link, bytes>>

\* The sockets of the two ports answer alike.
ChannelInit ==
  /\ kind \in {"serial", "tcp", "udp"} /\ port \in {"posix", "win32"}
  /\ kind # "serial" => port = "posix"
  /\ socket = "closed"
  /\ link = "up" /\ refused = FALSE
  /\ inbox = <<>> /\ arrived = <<>> /\ bytes = 0
  /\ waited = 0 /\ quiet = 0

Available == Len(FlattenSeq(inbox))

\* A socket is made by the constructor; close() deletes it and leaves a null
\* pointer that open() would follow, which ends the process.
CanOpen == socket # "disposed"

Readable == inbox # <<>> \/ refused \/ (kind # "udp" /\ link = "gone")

-----------------------------------------------------------------------------
(* Opening and closing *)

\* A port or a connection needs its device; a UDP socket is only told whom to
\* talk to, and nobody answers.
SerialOpens == link = "up"
TcpConnects == link = "up"
UdpPairs    == TRUE
Opens == CASE kind = "serial" -> SerialOpens [] kind = "tcp" -> TcpConnects [] kind = "udp" -> UdpPairs

\* A serial port that is still open is closed first.  The flush that follows
\* empties a serial port and a UDP socket; that of a TCP channel does nothing,
\* but its connection is new.
OpenAndFlush ==
  /\ CanOpen /\ Opens
  /\ socket' = "open" /\ refused' = FALSE
  /\ inbox' = <<>> /\ arrived' = <<>> /\ bytes' = 0
  /\ waited' = 0 /\ quiet' = 0
  /\ UNCHANGED <<kind, port, link>>

OpenFails == CanOpen /\ UNCHANGED channelVars

Close ==
  /\ socket' = IF kind = "serial" THEN "closed" ELSE "disposed"
  /\ inbox' = <<>> /\ refused' = FALSE
  /\ UNCHANGED <<deviceVars, arrived, waited, quiet>>

-----------------------------------------------------------------------------
(* Waiting: waitForDataExt(hint, 1000) of the receiver, waitForData(n, ..)  *)

BeginWait == waited' = 0 /\ quiet' = 0

\* A serial wait counts the bytes in the queue first and after each wakeup; a
\* vanished port fails that.  A socket's wait is one select().
SerialReady(asked) == link = "up" /\ Available >= asked
WaitReady(asked) == IF kind = "serial" THEN SerialReady(asked) ELSE Readable
WaitFails == kind = "serial" /\ link = "gone"

\* select() with bytes in the queue but fewer than asked for returns at once:
\* the loop of the POSIX ports runs on, and its timeout never strikes.  The
\* wait of win32 begins anew with every byte.
PosixTimesOut == inbox = <<>> /\ waited >= WaitTime
Win32TimesOut == quiet >= WaitTime
SocketTimesOut == ~Readable /\ waited >= WaitTime
WaitTimesOut(asked) ==
  /\ ~WaitReady(asked) /\ ~WaitFails
  /\ CASE kind # "serial" -> SocketTimesOut
       [] kind = "serial" /\ port = "posix" -> PosixTimesOut
       [] kind = "serial" /\ port = "win32" -> Win32TimesOut

\* Time passes in a wait that cannot end yet, counted up to one tick past
\* what it was given.
WaitOn(asked) ==
  /\ ~WaitReady(asked) /\ ~WaitFails /\ ~WaitTimesOut(asked)
  /\ waited' = IF waited > WaitTime THEN waited ELSE waited + 1
  /\ quiet' = IF quiet > WaitTime THEN quiet ELSE quiet + 1
  /\ UNCHANGED <<deviceVars, socket, refused, inbox, arrived>>

\* The size the receiver then reads.
HintedSize == IF kind = "serial" THEN Available ELSE Hint

-----------------------------------------------------------------------------
(* Reading and writing *)

Cut(s, n) == SubSeq(s, 1, IF Len(s) < n THEN Len(s) ELSE n)

\* A stream gives up to as many bytes as are asked for and keeps the rest.  A
\* vanished port and a closed connection read as no byte.
StreamRead(n) ==
  LET data == Cut(FlattenSeq(inbox), n)
  IN [data |-> data, left |-> SubSeq(inbox, Len(data) + 1, Len(inbox))]

SerialRead == IF link = "gone" THEN [data |-> <<>>, left |-> inbox] ELSE StreamRead(HintedSize)

\* Mutant: what is beyond the buffer is lost on a connection as well.
TcpReadCuts == [data |-> StreamRead(HintedSize).data, left |-> <<>>]

TcpRead == StreamRead(HintedSize)

\* A datagram is read whole, and what exceeds the buffer is lost.  A refused
\* message is an error of the next read, and no byte.
UdpRead == IF inbox = <<>> THEN [data |-> <<>>, left |-> <<>>]
           ELSE [data |-> Cut(Head(inbox), HintedSize), left |-> Tail(inbox)]

Read == CASE kind = "serial" -> SerialRead [] kind = "tcp" -> TcpRead [] kind = "udp" -> UdpRead

TakeRead ==
  /\ inbox' = Read.left
  /\ refused' = IF inbox = <<>> THEN FALSE ELSE refused
  /\ UNCHANGED <<deviceVars, socket, arrived, waited, quiet>>

\* What write() of a serial port answers when the system took so many bytes;
\* only a negative number is a failure.  The POSIX port answers what it could
\* write, also when that is nothing; win32 leaves the write pending, or fails.
PosixWrite(taken) == taken
Win32Write == IF link = "gone" THEN -1 ELSE 0
SerialWrite(taken) == IF port = "posix" THEN PosixWrite(taken) ELSE Win32Write

-----------------------------------------------------------------------------
(* The device *)

Packet(n) == [i \in 1 .. n |-> bytes + i]
Packets(n) == IF kind = "udp" THEN <<Packet(n)>> ELSE [i \in 1 .. n |-> <<bytes + i>>]

\* A datagram may be empty.
DeviceSends ==
  /\ link = "up" /\ socket = "open"
  /\ \E n \in (IF kind = "udp" THEN 0 ELSE 1) .. (MaxBytes - bytes) :
       /\ n = 0 => Len(arrived) < MaxBytes
       /\ inbox' = inbox \o Packets(n)
       /\ arrived' = arrived \o Packets(n)
       /\ bytes' = bytes + n
  /\ quiet' = 0
  /\ UNCHANGED <<kind, port, socket, link, refused, waited>>

\* The cable is pulled, the device closes the connection, or it is off.
DeviceGone ==
  /\ link = "up"
  /\ link' = "gone"
  /\ UNCHANGED <<kind, port, socket, refused, inbox, arrived, bytes, waited, quiet>>

DeviceBack ==
  /\ link = "gone" /\ kind # "tcp"
  /\ link' = "up"
  /\ UNCHANGED <<kind, port, socket, refused, inbox, arrived, bytes, waited, quiet>>
=============================================================================
