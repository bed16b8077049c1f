---------------------------- MODULE IECFileDevice ----------------------------
(***************************************************************************)
(* The file device (lib/bus/iec/IECFileDevice.cpp) that every drive, clock *)
(* and printer derives from.  Bus callbacks must return within 1ms, so     *)
(* listen() and unlisten() only note a command (m_cmd, m_channel, one      *)
(* shared write buffer) that fileTask() carries out later, after which the *)
(* derived class has seen open(), close(), execute(), write() or read().   *)
(*                                                                         *)
(* The driver is IECBusHandler: it makes the callbacks of a bus master     *)
(* that closes every LISTEN with UNLISTEN.  When the handler can serve ATN *)
(* by interrupt the device's task() runs between two ATN sequences, and    *)
(* between LISTEN and the first canWrite(); when it cannot, fileTask() is  *)
(* left to canRead() and canWrite().  Bytes are identities, so a byte that *)
(* is lost, repeated or lands in another channel is seen.                  *)
(***************************************************************************)
EXTENDS Integers, Sequences, SequencesExt

CONSTANTS Data,                \* data channels the master uses, in 0..14
          BufferSize,          \* IECFILEDEVICE_WRITE_BUFFER_SIZE
          MaxFileLen,          \* bound: bytes in a file that is read
          MaxOwed,             \* bound: operations a device that cannot serve
                               \* ATN may leave behind
          CanServeATN,         \* m_canServeATN
          CloseThenSecondary   \* the master may send another secondary address
                               \* after CLOSE in the same ATN sequence

ASSUME DataAssumption == Data \subseteq 0..14
ASSUME BufferSizeAssumption == BufferSize \in Nat \ {0, 1}
ASSUME BoundsAssumption == MaxFileLen \in Nat /\ MaxOwed \in Nat

NoChannel == 255
Failed == <<-128>>         \* m_readBufferLen is -128: OPEN failed

VARIABLES m_channel, m_cmd, m_opening, m_eoi,
          writeBuffer,     \* m_writeBuffer[0..m_writeBufferLen-1]
          readBuffer,      \* per data channel m_readBuffer and its length
          pos, size,       \* the derived class: read position, file length
          can,             \* result of the last canRead()/canWrite()
          ran,             \* task() has run since the last ATN callback
          host,            \* history: the transaction the master is in
          owed,            \* history: what the master asked for and the
                           \* derived class has not been given yet, in order
          nextByte,        \* history: identity of the next byte sent
          expect,          \* history: per channel, bytes the master has read
          wrong            \* history: the derived class or the master was
                           \* given something else than what was due

device == <<m_channel, m_cmd, m_opening, m_eoi, writeBuffer>>
reading == <<readBuffer, pos, size, expect>>
history == <<owed, nextByte, wrong>>
vars == <<device, reading, can, ran, host, history>>

Idle == [role |-> "idle", kind |-> "DATA", ch |-> NoChannel, sent |-> <<>>]

Init ==
    /\ m_channel = NoChannel /\ m_cmd = "IFD_NONE" /\ m_opening = FALSE /\ m_eoi = TRUE
    /\ writeBuffer = <<>>
    /\ readBuffer = [c \in Data |-> <<>>]
    /\ pos = [c \in Data |-> 0] /\ size = [c \in Data |-> 0]
    /\ can = "ask" /\ ran = TRUE
    /\ host = Idle /\ owed = <<>> /\ nextByte = 0
    /\ expect = [c \in Data |-> 0]
    /\ wrong = FALSE

Item(op, ch, bytes) == [op |-> op, ch |-> ch, bytes |-> bytes]

\* The master asks for these items.  After a mistake the account is closed.
Owe(items) == owed' = IF wrong THEN <<>> ELSE owed \o items

Mistake == wrong' = TRUE /\ owed' = <<>>

\* The derived class is given these items; they should be the oldest ones owed.
Give(items) ==
    IF ~wrong /\ IsPrefix(items, owed)
    THEN owed' = SubSeq(owed, Len(items) + 1, Len(owed)) /\ UNCHANGED wrong
    ELSE Mistake

Full(buffer) == Len(buffer) >= BufferSize - 1

\* write(m_channel, buffer, n, m_eoi), one item per byte.
Written(n) == [k \in 1..n |-> Item("WRITE", m_channel, <<writeBuffer[k]>>)]

\* The eoi argument of that call says whether the buffer ends the transmission.
EoiAgrees == writeBuffer # <<>> => (m_eoi <=> Last(writeBuffer).eoi)

-----------------------------------------------------------------------------
(***************************************************************************)
(* ATN callbacks.                                                          *)
(***************************************************************************)

\* The handler makes ATN callbacks between two runs of task(); a CLOSE may be
\* followed by another secondary address in its own ATN sequence.
AtnCallback ==
    /\ Len(owed) <= MaxOwed
    /\ \/ host.role # "listen" /\ (ran \/ ~CanServeATN)
       \/ CloseThenSecondary /\ host.role = "listen" /\ host.kind = "CLOSE" /\ ~ran

listen(kind, ch) ==
    /\ AtnCallback
    /\ m_channel' = ch
    /\ m_eoi' = FALSE
    /\ writeBuffer' = IF ch = 15 \/ kind = "OPEN" THEN <<>> ELSE writeBuffer
    /\ m_opening' = (m_opening \/ (kind = "OPEN" /\ ch # 15))
    /\ m_cmd' = IF ch # 15 /\ kind = "CLOSE" THEN "IFD_CLOSE" ELSE m_cmd
    /\ Owe(IF ch # 15 /\ kind = "CLOSE" THEN <<Item("CLOSE", ch, <<>>)>> ELSE <<>>)
    /\ host' = [role |-> "listen", kind |-> kind, ch |-> ch, sent |-> <<>>]
    /\ can' = "ask" /\ ran' = FALSE
    /\ UNCHANGED <<reading, nextByte, wrong>>

\* What the transaction that ends asked for, besides the bytes already owed.
Asked ==
    IF host.ch = 15 /\ host.sent # <<>> THEN <<Item("EXEC", 15, host.sent)>>
    ELSE IF host.ch # 15 /\ host.kind = "OPEN" THEN <<Item("OPEN", host.ch, host.sent)>>
    ELSE <<>>

\* Mutation: the command is noted only when the name is not empty.
UnlistenNeedsName ==
    /\ host.role = "listen" /\ (ran \/ ~CanServeATN)
    /\ IF m_channel = 15
       THEN /\ m_cmd' = IF writeBuffer # <<>> THEN "IFD_EXEC" ELSE m_cmd
            /\ m_channel' = NoChannel
            /\ UNCHANGED m_opening
       ELSE /\ m_cmd' = IF writeBuffer # <<>>
                        THEN IF m_opening THEN "IFD_OPEN" ELSE "IFD_WRITE"
                        ELSE m_cmd
            /\ m_opening' = FALSE
            /\ UNCHANGED m_channel
    /\ Owe(Asked)
    /\ host' = Idle
    /\ can' = "ask" /\ ran' = FALSE
    /\ UNCHANGED <<m_eoi, writeBuffer, reading, nextByte, wrong>>

\* Mutation: m_channel is reset for every transaction, not only for commands.
UnlistenForgetsChannel ==
    /\ host.role = "listen" /\ (ran \/ ~CanServeATN)
    /\ m_cmd' = IF m_channel # 15 /\ m_opening THEN "IFD_OPEN"
                ELSE IF writeBuffer = <<>> THEN m_cmd
                ELSE IF m_channel = 15 THEN "IFD_EXEC" ELSE "IFD_WRITE"
    /\ m_channel' = NoChannel
    /\ m_opening' = FALSE
    /\ Owe(Asked)
    /\ host' = Idle
    /\ can' = "ask" /\ ran' = FALSE
    /\ UNCHANGED <<m_eoi, writeBuffer, reading, nextByte, wrong>>

unlisten ==
    /\ host.role = "listen" /\ (ran \/ ~CanServeATN)
    /\ IF m_channel = 15
       THEN /\ m_cmd' = IF writeBuffer # <<>> THEN "IFD_EXEC" ELSE m_cmd
            /\ m_channel' = NoChannel
            /\ UNCHANGED m_opening
       ELSE /\ m_cmd' = IF m_opening THEN "IFD_OPEN"
                        ELSE IF writeBuffer # <<>> THEN "IFD_WRITE" ELSE m_cmd
            /\ m_opening' = FALSE
            /\ UNCHANGED m_channel
    /\ Owe(Asked)
    /\ host' = Idle
    /\ can' = "ask" /\ ran' = FALSE
    /\ UNCHANGED <<m_eoi, writeBuffer, reading, nextByte, wrong>>

\* TALK with a CLOSE secondary address is what Final Cartridge 3 sends.  The
\* handler has then called listen() with the same byte just before, which noted
\* the same command for the same channel.
talk(kind, ch) ==
    /\ AtnCallback /\ host.role # "listen"
    /\ m_channel' = ch
    /\ m_eoi' = FALSE
    /\ m_cmd' = IF ch # 15 /\ kind = "CLOSE" THEN "IFD_CLOSE" ELSE m_cmd
    /\ Owe(IF ch # 15 /\ kind = "CLOSE" THEN <<Item("CLOSE", ch, <<>>)>> ELSE <<>>)
    /\ host' = [role |-> "talk", kind |-> kind, ch |-> ch, sent |-> <<>>]
    /\ can' = "ask" /\ ran' = FALSE
    /\ UNCHANGED <<m_opening, writeBuffer, reading, nextByte, wrong>>

untalk ==
    /\ host.role = "talk" /\ (ran \/ ~CanServeATN)
    /\ m_channel' = NoChannel
    /\ host' = Idle
    /\ can' = "ask" /\ ran' = FALSE
    /\ UNCHANGED <<m_cmd, m_opening, m_eoi, writeBuffer, reading, history>>

\* Another device was told to talk: the handler stops talking, no callback.
TalkStolen ==
    /\ host.role = "talk" /\ (ran \/ ~CanServeATN)
    /\ host' = Idle
    /\ can' = "ask" /\ ran' = FALSE
    /\ UNCHANGED <<device, reading, history>>

\* A byte transfer failed on the bus (P_DONE): none is tried until the next ATN.
TransferFails ==
    /\ host.role # "idle" /\ can # "no"
    /\ can' = "no"
    /\ UNCHANGED <<device, reading, ran, host, history>>

-----------------------------------------------------------------------------
(***************************************************************************)
(* fileTask(): carries out m_cmd.                                          *)
(***************************************************************************)

\* fileTask() sets m_channel to 0xFF; canRead() and canWrite() restore it
\* after an OPEN.
fileTaskOpen(restore) ==
    /\ m_cmd = "IFD_OPEN"
    /\ Give(<<Item("OPEN", m_channel, writeBuffer)>>)
    /\ IF m_channel \in Data
       THEN \E ok \in BOOLEAN, len \in 0..MaxFileLen :
              /\ readBuffer' = [readBuffer EXCEPT ![m_channel] = IF ok THEN <<>> ELSE Failed]
              /\ pos' = [pos EXCEPT ![m_channel] = 0]
              /\ size' = [size EXCEPT ![m_channel] = IF ok THEN len ELSE 0]
              /\ expect' = [expect EXCEPT ![m_channel] = 0]
       ELSE UNCHANGED reading
    /\ writeBuffer' = <<>>
    /\ m_channel' = IF restore THEN m_channel ELSE NoChannel
    /\ m_cmd' = "IFD_NONE"
    /\ UNCHANGED <<m_opening, m_eoi, can, host, nextByte>>

\* Mutation: the prefetched bytes survive the CLOSE.
CloseKeepsReadBuffer ==
    /\ m_cmd = "IFD_CLOSE"
    /\ Give(Written(Len(writeBuffer)) \o <<Item("CLOSE", m_channel, <<>>)>>)
    /\ IF m_channel \in Data
       THEN /\ pos' = [pos EXCEPT ![m_channel] = 0]
            /\ size' = [size EXCEPT ![m_channel] = 0]
            /\ expect' = [expect EXCEPT ![m_channel] = 0]
            /\ UNCHANGED readBuffer
       ELSE UNCHANGED reading
    /\ writeBuffer' = <<>>
    /\ m_channel' = NoChannel
    /\ m_cmd' = "IFD_NONE"
    /\ UNCHANGED <<m_opening, m_eoi, can, host, nextByte>>

fileTaskClose ==
    /\ m_cmd = "IFD_CLOSE"
    /\ Give(Written(Len(writeBuffer)) \o <<Item("CLOSE", m_channel, <<>>)>>)
    /\ IF m_channel \in Data
       THEN /\ readBuffer' = [readBuffer EXCEPT ![m_channel] = <<>>]
            /\ pos' = [pos EXCEPT ![m_channel] = 0]
            /\ size' = [size EXCEPT ![m_channel] = 0]
            /\ expect' = [expect EXCEPT ![m_channel] = 0]
       ELSE UNCHANGED reading
    /\ writeBuffer' = <<>>
    /\ m_channel' = NoChannel
    /\ m_cmd' = "IFD_NONE"
    /\ UNCHANGED <<m_opening, m_eoi, can, host, nextByte>>

\* What the derived class does not take here is lost, as the code says: the
\* bytes have been offered and nothing more is owed.
fileTaskWrite ==
    /\ m_cmd = "IFD_WRITE"
    /\ IF EoiAgrees THEN Give(Written(Len(writeBuffer))) ELSE Mistake
    /\ writeBuffer' = <<>>
    /\ m_channel' = NoChannel
    /\ m_cmd' = "IFD_NONE"
    /\ UNCHANGED <<m_opening, m_eoi, reading, can, host, nextByte>>

\* The channel of EXEC is 15 whatever m_channel has become.
fileTaskExec ==
    /\ m_cmd = "IFD_EXEC"
    /\ Give(<<Item("EXEC", 15, writeBuffer)>>)
    /\ writeBuffer' = <<>>
    /\ m_cmd' = "IFD_NONE"
    /\ UNCHANGED <<m_channel, m_opening, m_eoi, reading, can, host, nextByte>>

fileTask(restore) ==
    fileTaskOpen(restore) \/ fileTaskClose \/ fileTaskWrite \/ fileTaskExec

\* The device's task(), called by the bus handler's task().
task ==
    /\ ~ran
    /\ ran' = TRUE
    /\ \/ CanServeATN /\ fileTask(FALSE)
       \/ ~ CanServeATN /\ UNCHANGED <<device, reading, can, host, history>>
       \/ m_cmd = "IFD_NONE" /\ UNCHANGED <<device, reading, can, host, history>>

\* The beginning of canRead() and canWrite() when ATN cannot be served.
fileTaskInCallback ==
    /\ ~CanServeATN /\ host.role # "idle" /\ can = "ask"
    /\ fileTask(m_cmd = "IFD_OPEN")
    /\ UNCHANGED ran

-----------------------------------------------------------------------------
(***************************************************************************)
(* Receiving and transmitting bytes.                                       *)
(***************************************************************************)

NothingDeferred == CanServeATN \/ m_cmd = "IFD_NONE"

\* Mutation: canWrite() does not carry out the deferred command first.
AskedTooSoon == host.role = "listen" /\ can = "ask" /\ (CanServeATN => ran)

\* canWrite() is asked after the task() that follows LISTEN.
AskedToWrite ==
    host.role = "listen" /\ can = "ask" /\ NothingDeferred /\ (CanServeATN => ran)

ReceivingText == m_channel = 15 \/ m_opening

\* A data channel whose OPEN did not fail.
ChannelOk == \E c \in Data : c = m_channel /\ readBuffer[c] # Failed

\* A full buffer is passed on; the derived class takes n bytes of it.
canWriteFull ==
    /\ AskedToWrite /\ ~ReceivingText /\ ChannelOk /\ Full(writeBuffer)
    /\ \E n \in 0..Len(writeBuffer) :
          /\ IF EoiAgrees THEN Give(Written(n)) ELSE Mistake
          /\ writeBuffer' = SubSeq(writeBuffer, n + 1, Len(writeBuffer))
          /\ can' = IF n > 0 THEN "yes" ELSE "no"
    /\ UNCHANGED <<m_channel, m_cmd, m_opening, m_eoi, reading, ran, host, nextByte>>

\* canWrite() otherwise: yes while a name or command is being received, no on
\* an invalid channel or after a failed OPEN.
canWrite ==
    /\ AskedToWrite
    /\ ~ReceivingText /\ ChannelOk => ~Full(writeBuffer)
    /\ can' = IF ReceivingText \/ ChannelOk THEN "yes" ELSE "no"
    /\ UNCHANGED <<device, reading, ran, host, history>>

\* The master sends nothing after the byte it marked with EOI.
EoiSent == host.sent # <<>> /\ Last(host.sent).eoi

\* write(data, eoi).  Names and commands are kept whole in host.sent until
\* unlisten(); of a data transmission only the last byte is remembered.
write(eoi) ==
    LET text == host.ch = 15 \/ host.kind = "OPEN"
        byte == [ch |-> host.ch, id |-> nextByte, eoi |-> eoi] IN
    /\ host.role = "listen" /\ can = "yes" /\ ~EoiSent
    /\ text => Len(host.sent) < BufferSize - 1
    /\ m_eoi' = (m_eoi \/ eoi)
    /\ writeBuffer' = IF Full(writeBuffer) THEN writeBuffer ELSE Append(writeBuffer, byte)
    /\ host' = [host EXCEPT !.sent = IF text THEN Append(host.sent, byte) ELSE <<byte>>]
    /\ Owe(IF text THEN <<>> ELSE <<Item("WRITE", host.ch, <<byte>>)>>)
    /\ nextByte' = (nextByte + 1) % (BufferSize + 1)
    /\ can' = "ask"
    /\ UNCHANGED <<m_channel, m_cmd, m_opening, reading, ran, wrong>>

Unread(c) == size[c] - pos[c]

\* Mutation: two bytes are always asked for, whatever the buffer holds.
FillPastTwo(c, k) ==
    /\ k <= Unread(c)
    /\ k = 2 \/ k = Unread(c)
    /\ readBuffer' = [readBuffer EXCEPT ![c] = @ \o [i \in 1..k |-> pos[c] + i]]
    /\ pos' = [pos EXCEPT ![c] = @ + k]
    /\ m_eoi' = (k = Unread(c))

\* fillReadBuffer(): reads until two bytes are there or the derived class says
\* EOI or returns nothing, which it does at the end of the file only.
fillReadBuffer(c, k) ==
    LET eoi == m_eoi /\ readBuffer[c] # <<>> IN
    /\ k <= Unread(c) /\ Len(readBuffer[c]) + k <= 2
    /\ eoi => k = 0
    /\ ~eoi => \/ Len(readBuffer[c]) + k = 2 \/ k = Unread(c)
    /\ readBuffer' = [readBuffer EXCEPT ![c] = @ \o [i \in 1..k |-> pos[c] + i]]
    /\ pos' = [pos EXCEPT ![c] = @ + k]
    /\ \/ m_eoi' = TRUE /\ (eoi \/ k = Unread(c))
       \/ m_eoi' = FALSE /\ ~eoi /\ Len(readBuffer[c]) + k = 2

canRead ==
    /\ host.role = "talk" /\ can = "ask" /\ NothingDeferred
    /\ \/ /\ ChannelOk
          /\ \E k \in 0..2 : fillReadBuffer(m_channel, k)
          /\ can' = IF readBuffer'[m_channel] # <<>> THEN "yes" ELSE "no"
          /\ UNCHANGED <<size, expect>>
       \/ /\ m_channel # 15 /\ ~ChannelOk
          /\ can' = "no"
          /\ UNCHANGED <<m_eoi, reading>>
    /\ UNCHANGED <<m_channel, m_cmd, m_opening, writeBuffer, ran, host, history>>

\* read(): the handler has signalled EOI to the master when one byte was left.
\* The master should get the next byte of the file, with EOI on the last one.
read ==
    LET c == m_channel
        rest == readBuffer[c] IN
    /\ host.role = "talk" /\ can = "yes" /\ c \in Data
    /\ readBuffer' = [readBuffer EXCEPT ![c] = Tail(rest)]
    /\ expect' = [expect EXCEPT ![c] = @ + 1]
    /\ wrong' = (\/ wrong
                 \/ rest[1] # expect[c] + 1
                 \/ (Len(rest) = 1) # (rest[1] = size[c]))
    /\ can' = "ask"
    /\ UNCHANGED <<device, pos, size, ran, host, owed, nextByte>>

\* RESET line: everything pending is forgotten, the derived class closes its
\* files.
reset ==
    /\ m_channel' = NoChannel /\ m_cmd' = "IFD_NONE" /\ m_opening' = FALSE /\ m_eoi' = TRUE
    /\ writeBuffer' = <<>>
    /\ readBuffer' = [c \in Data |-> <<>>]
    /\ pos' = [c \in Data |-> 0] /\ size' = [c \in Data |-> 0]
    /\ can' = "ask" /\ ran' = TRUE
    /\ host' = Idle /\ owed' = <<>>
    /\ expect' = [c \in Data |-> 0]
    /\ UNCHANGED <<nextByte, wrong>>

Next ==
    \/ \E kind \in {"OPEN", "CLOSE", "DATA"}, ch \in Data \cup {15} : listen(kind, ch)
    \/ unlisten
    \/ \E kind \in {"CLOSE", "DATA"}, ch \in Data \cup {15} : talk(kind, ch)
    \/ untalk \/ TalkStolen \/ TransferFails
    \/ task \/ fileTaskInCallback
    \/ canWriteFull \/ canWrite
    \/ \E eoi \in BOOLEAN : write(eoi)
    \/ canRead \/ read
    \/ reset

Spec == Init /\ [][Next]_vars

-----------------------------------------------------------------------------
(***************************************************************************)
(* Properties.                                                             *)
(***************************************************************************)

Bytes == [ch : Data \cup {15}, id : 0..BufferSize, eoi : BOOLEAN]

\* Types, with the bounds of the two buffers.
TypeOK ==
    /\ m_channel \in Data \cup {15, NoChannel}
    /\ m_cmd \in {"IFD_NONE", "IFD_OPEN", "IFD_CLOSE", "IFD_WRITE", "IFD_EXEC"}
    /\ m_opening \in BOOLEAN /\ m_eoi \in BOOLEAN
    /\ writeBuffer \in Seq(Bytes) /\ Len(writeBuffer) < BufferSize
    /\ \A c \in Data :
          /\ readBuffer[c] # Failed => Len(readBuffer[c]) <= 2
          /\ pos[c] \in 0..size[c] /\ size[c] \in 0..MaxFileLen /\ expect[c] \in 0..size[c]
    /\ can \in {"ask", "yes", "no"} /\ ran \in BOOLEAN
    /\ host.role \in {"idle", "listen", "talk"}
    /\ nextByte \in 0..BufferSize /\ wrong \in BOOLEAN

\* Whatever mixture of OPEN, CLOSE, commands and data the master sends on its
\* channels, the deferred execution gives the derived class exactly those
\* operations, in order, on the right channel and with the right bytes and EOI,
\* and the master reads each file's bytes in order with EOI on the last one.
OperationsInOrder == ~wrong

\* Nothing is forgotten: once the master has ended its transaction and task()
\* has run, every operation it asked for has been carried out, and nothing of
\* it is left for the next transaction to trip over.
AllCarriedOut ==
    host.role = "idle" /\ ran =>
        owed = <<>> /\ writeBuffer = <<>> /\ m_cmd = "IFD_NONE" /\ ~m_opening

\* fileTask() indexes m_readBufferLen (15 entries) with the channel of the
\* command it carries out, so no OPEN or CLOSE may be pending without one.
DeferredChannelValid == m_cmd \in {"IFD_OPEN", "IFD_CLOSE"} => m_channel \in Data

\* The deferred command and the transaction that follows share one buffer: no
\* byte is accepted while a command is still waiting to be carried out, neither
\* by interrupt-driven builds nor by those that leave it to canWrite().
BufferNotShared == host.role = "listen" /\ can = "yes" => m_cmd = "IFD_NONE"
==============================================================================
