------------------------- MODULE IECFileDeviceProofs -------------------------
(***************************************************************************)
(* Proofs about IECFileDevice for any set of data channels, buffer size    *)
(* and file length.  What is proved is the discipline of the one pending   *)
(* command: m_cmd, m_channel, m_opening and the write buffer are shared by *)
(* the callbacks of a transaction and the deferred execution of the one    *)
(* before it.                                                              *)
(***************************************************************************)
EXTENDS IECFileDevice, SequenceTheorems, TLAPS

\* What the history variables that follow the master hold.
HostType ==
    /\ nextByte \in 0..BufferSize
    /\ host \in [role : {"idle", "listen", "talk"}, kind : {"OPEN", "CLOSE", "DATA"},
                 ch : Data \cup {15, NoChannel}, sent : Seq(Bytes)]
    /\ host.role = "listen" => host.ch # NoChannel

\* A byte sent by the master leaves it in its transaction.
LEMMA WriteHost ==
    ASSUME HostType, NEW eoi \in BOOLEAN, write(eoi)
    PROVE  /\ HostType'
           /\ host.role = "listen" /\ host'.role = "listen"
           /\ can' = "ask"
           /\ UNCHANGED <<m_channel, m_cmd, m_opening, ran>>
  <1>. DEFINE byte == [ch |-> host.ch, id |-> nextByte, eoi |-> eoi]
              sent == IF host.ch = 15 \/ host.kind = "OPEN"
                      THEN Append(host.sent, byte) ELSE <<byte>>
  <1>1. nextByte' = (nextByte + 1) % (BufferSize + 1) /\ host' = [host EXCEPT !.sent = sent]
    BY DEF write
  <1>2. nextByte' \in 0..BufferSize
    BY <1>1, BufferSizeAssumption DEF HostType
  <1>3. byte \in Bytes
    BY DEF HostType, Bytes, write
  <1>4. sent \in Seq(Bytes)
    BY <1>3 DEF HostType
  <1>5. /\ host.role = "listen" /\ can' = "ask"
        /\ UNCHANGED <<m_channel, m_cmd, m_opening, ran>>
    BY DEF write
  <1>. QED
    <2>. HIDE DEF sent
    <2>. QED
      BY <1>1, <1>2, <1>4, <1>5 DEF HostType

LEMMA FileTaskHost == ASSUME NEW r, fileTask(r) PROVE UNCHANGED <<host, nextByte>>
  BY DEF fileTask, fileTaskOpen, fileTaskClose, fileTaskWrite, fileTaskExec

LEMMA HostStep == HostType /\ [Next]_vars => HostType'
  <1>. SUFFICES ASSUME HostType, [Next]_vars PROVE HostType'
    OBVIOUS
  <1>0. Idle.role = "idle" /\ <<>> \in Seq(Bytes) /\ 15 # NoChannel /\ NoChannel \notin Data
    BY DataAssumption DEF Idle, NoChannel
  <1>1. ASSUME NEW kind \in {"OPEN", "CLOSE", "DATA"}, NEW ch \in Data \cup {15},
               listen(kind, ch) \/ (talk(kind, ch) /\ kind # "OPEN")
        PROVE  HostType'
    <2>1. nextByte' = nextByte
      BY <1>1 DEF listen, talk
    <2>2. PICK r \in {"listen", "talk"} :
             host' = [role |-> r, kind |-> kind, ch |-> ch, sent |-> <<>>]
      BY <1>1 DEF listen, talk
    <2>. QED
      BY <2>1, <2>2, <1>0 DEF HostType
  <1>2. CASE unlisten \/ untalk \/ TalkStolen \/ reset
    <2>1. host' = Idle /\ nextByte' = nextByte
      BY <1>2 DEF unlisten, untalk, TalkStolen, reset, history
    <2>. QED
      BY <2>1, <1>0 DEF HostType, Idle
  <1>3. CASE task \/ fileTaskInCallback
    BY <1>3, FileTaskHost DEF HostType, task, fileTaskInCallback, history
  <1>4. CASE \E eoi \in BOOLEAN : write(eoi)
    BY <1>4, WriteHost
  <1>5. CASE TransferFails \/ canWriteFull \/ canWrite \/ canRead \/ read \/ UNCHANGED vars
    <2>1. UNCHANGED <<host, nextByte>>
      BY <1>5 DEF TransferFails, canWriteFull, canWrite, canRead, read, vars, history
    <2>. QED
      BY <2>1 DEF HostType
  <1>. QED
    BY <1>1, <1>2, <1>3, <1>4, <1>5 DEF Next

LEMMA HostInit == Init => HostType
  BY BufferSizeAssumption DEF Init, HostType, Idle, NoChannel

\* Once task() has run after the last ATN callback no command is pending, if
\* the bus handler lets task() carry commands out.
RanMeansDone == CanServeATN /\ ran => m_cmd = "IFD_NONE"

PendingInv == RanMeansDone /\ BufferNotShared

\* A step of fileTask() leaves no command and only m_channel and the write
\* buffer behind it.
LEMMA FileTaskStep ==
    ASSUME NEW restore, fileTask(restore)
    PROVE  /\ m_cmd # "IFD_NONE" /\ m_cmd' = "IFD_NONE"
           /\ writeBuffer' = <<>>
           /\ m_cmd = "IFD_EXEC" => m_channel' = m_channel
           /\ UNCHANGED <<m_opening, can, host>>
  BY DEF fileTask, fileTaskOpen, fileTaskClose, fileTaskWrite, fileTaskExec

LEMMA PendingStep == HostType /\ PendingInv /\ [Next]_vars => PendingInv'
  <1>. SUFFICES ASSUME HostType, PendingInv, [Next]_vars PROVE PendingInv'
    OBVIOUS
  <1>. USE DEF PendingInv, RanMeansDone, BufferNotShared, device, reading, history
  <1>1. CASE \E kind \in {"OPEN", "CLOSE", "DATA"}, ch \in Data \cup {15} : listen(kind, ch)
    BY <1>1 DEF listen
  <1>2. CASE unlisten
    BY <1>2 DEF unlisten
  <1>3. CASE \E kind \in {"CLOSE", "DATA"}, ch \in Data \cup {15} : talk(kind, ch)
    BY <1>3 DEF talk
  <1>4. CASE untalk \/ TalkStolen \/ TransferFails
    BY <1>4 DEF untalk, TalkStolen, TransferFails
  <1>5. CASE task
    <2>1. CASE CanServeATN /\ fileTask(FALSE)
      BY <1>5, <2>1, FileTaskStep DEF task
    <2>. QED
      BY <1>5, <2>1 DEF task
  <1>6. CASE fileTaskInCallback
    BY <1>6, FileTaskStep DEF fileTaskInCallback
  <1>7. CASE canWriteFull \/ canWrite
    BY <1>7 DEF canWriteFull, canWrite, AskedToWrite, NothingDeferred
  <1>8. CASE \E eoi \in BOOLEAN : write(eoi)
    BY <1>8, WriteHost
  <1>9. CASE canRead \/ read
    <2>1. /\ host.role = "talk"
          /\ UNCHANGED <<m_channel, m_cmd, m_opening, writeBuffer, ran, host>>
      BY <1>9 DEF canRead, read
    <2>. QED
      BY <2>1
  <1>10. CASE reset
    BY <1>10 DEF reset
  <1>11. CASE UNCHANGED vars
    BY <1>11 DEF vars
  <1>. QED
    BY <1>1, <1>2, <1>3, <1>4, <1>5, <1>6, <1>7, <1>8, <1>9, <1>10, <1>11 DEF Next

\* No byte is accepted into the write buffer while a command still needs it,
\* on builds that serve ATN by interrupt and on those that do not: canWrite()
\* (IECFileDevice.cpp:386) runs the pending command, or is reached only after
\* the device's task() has.
THEOREM BufferExclusive == Spec => []BufferNotShared
  <1>1. Init => PendingInv
    BY DEF Init, PendingInv, RanMeansDone, BufferNotShared, Idle
  <1>2. PendingInv => BufferNotShared
    BY DEF PendingInv
  <1>. QED
    BY <1>1, <1>2, HostInit, HostStep, PendingStep, PTL DEF Spec

-----------------------------------------------------------------------------
(***************************************************************************)
(* A device whose commands are carried out between ATN sequences, and a    *)
(* master that sends nothing after a CLOSE in its ATN sequence.            *)
(***************************************************************************)

Served == CanServeATN /\ ~CloseThenSecondary

\* m_opening belongs to a LISTEN in progress on a data channel.
OpeningInListen ==
    /\ m_opening \in BOOLEAN
    /\ m_opening => host.role = "listen" /\ m_channel \in Data
    /\ m_cmd # "IFD_NONE" => ~m_opening

\* Outside LISTEN the write buffer holds something only for a pending command.
BufferHasOwner == host.role # "listen" /\ m_cmd = "IFD_NONE" => writeBuffer = <<>>

ServedInv == RanMeansDone /\ OpeningInListen /\ BufferHasOwner /\ DeferredChannelValid

LEMMA NotCommandChannel == 15 \notin Data /\ NoChannel \notin Data
  BY DataAssumption DEF NoChannel

LEMMA ServedStep == Served /\ HostType /\ ServedInv /\ [Next]_vars => ServedInv'
  <1>. SUFFICES ASSUME Served, HostType, ServedInv, [Next]_vars PROVE ServedInv'
    OBVIOUS
  <1>. USE NotCommandChannel
       DEF Served, ServedInv, RanMeansDone, OpeningInListen, BufferHasOwner,
           DeferredChannelValid, device, reading, history
  <1>1. CASE \E kind \in {"OPEN", "CLOSE", "DATA"}, ch \in Data \cup {15} : listen(kind, ch)
    BY <1>1 DEF listen, AtnCallback
  <1>2. CASE unlisten
    BY <1>2 DEF unlisten, Idle
  <1>3. CASE \E kind \in {"CLOSE", "DATA"}, ch \in Data \cup {15} : talk(kind, ch)
    BY <1>3 DEF talk, AtnCallback
  <1>4. CASE untalk \/ TalkStolen \/ TransferFails
    BY <1>4 DEF untalk, TalkStolen, TransferFails, Idle
  <1>5. CASE task
    <2>1. CASE fileTask(FALSE)
      <3>1. /\ m_cmd # "IFD_NONE" /\ m_cmd' = "IFD_NONE"
            /\ writeBuffer' = <<>> /\ m_opening' = m_opening
        BY <2>1, FileTaskStep, Zenon
      <3>. QED
        BY <3>1
    <2>2. CASE UNCHANGED <<device, reading, can, host, history>> /\ m_cmd = "IFD_NONE"
      BY <2>2
    <2>3. \/ fileTask(FALSE)
          \/ UNCHANGED <<device, reading, can, host, history>> /\ m_cmd = "IFD_NONE"
      BY <1>5 DEF task
    <2>. QED
      BY <2>1, <2>2, <2>3
  <1>6. CASE fileTaskInCallback
    BY <1>6 DEF fileTaskInCallback
  <1>7. CASE canWriteFull \/ canWrite
    BY <1>7 DEF canWriteFull, canWrite, AskedToWrite
  <1>8. CASE \E eoi \in BOOLEAN : write(eoi)
    BY <1>8, WriteHost
  <1>9. CASE canRead \/ read
    <2>1. /\ host.role = "talk"
          /\ UNCHANGED <<m_channel, m_cmd, m_opening, writeBuffer, ran, host>>
      BY <1>9 DEF canRead, read
    <2>. QED
      BY <2>1
  <1>10. CASE reset
    BY <1>10 DEF reset, Idle
  <1>11. CASE UNCHANGED vars
    BY <1>11 DEF vars
  <1>. QED
    BY <1>1, <1>2, <1>3, <1>4, <1>5, <1>6, <1>7, <1>8, <1>9, <1>10, <1>11 DEF Next

LEMMA ServedInit == Init => ServedInv
  BY DEF Init, Idle, ServedInv, RanMeansDone, OpeningInListen, BufferHasOwner,
     DeferredChannelValid

\* With a handler that serves ATN and a master that sends nothing after CLOSE in
\* its ATN sequence, fileTask() finds a data channel whenever it carries out OPEN
\* or CLOSE, so its accesses to the 15 entries of m_readBufferLen stay inside the
\* array (IECFileDevice.cpp:651, 672).  Without Served they need not: a secondary
\* address after CLOSE, or the talk() or listen() that a polled handler lets in
\* before the command is carried out, may set m_channel to 15.
THEOREM ChannelInRange == ASSUME Served PROVE Spec => []DeferredChannelValid
  <1>1. HostType /\ ServedInv /\ [Next]_vars => ServedInv'
    BY ServedStep
  <1>2. ServedInv => DeferredChannelValid
    BY DEF ServedInv
  <1>. QED
    BY HostInit, HostStep, ServedInit, <1>1, <1>2, PTL DEF Spec

-----------------------------------------------------------------------------
(***************************************************************************)
(* The account of what the master asked for.  In every state the           *)
(* operations still owed to the derived class are the ones that m_cmd,     *)
(* m_channel, m_opening and the write buffer stand for.                    *)
(***************************************************************************)

\* The bytes of a name or a command stay in the buffer until unlisten().
Text == host.ch = 15 \/ host.kind = "OPEN"

\* One write() item per byte of a buffer.
Items(ch, buffer) == [k \in 1..Len(buffer) |-> Item("WRITE", ch, <<buffer[k]>>)]

\* LISTEN with a name or a command: the buffer is what the master has sent.
TextInv ==
    host.role = "listen" /\ Text =>
        /\ m_cmd = "IFD_NONE" /\ m_channel = host.ch
        /\ m_opening <=> host.ch # 15
        /\ writeBuffer = host.sent /\ Len(host.sent) < BufferSize
        /\ owed = <<>>

\* LISTEN with data: the buffer holds the bytes that are owed, and m_eoi tells
\* whether the last one of them was marked.
DataInv ==
    host.role = "listen" /\ ~Text /\ host.kind = "DATA" =>
        /\ m_cmd = "IFD_NONE" /\ m_channel = host.ch /\ ~m_opening
        /\ owed = Items(m_channel, writeBuffer)
        /\ m_eoi <=> EoiSent
        /\ Len(writeBuffer) < BufferSize
        /\ writeBuffer # <<>> =>
              host.sent # <<>> /\ host.sent[Len(host.sent)] = writeBuffer[Len(writeBuffer)]
        /\ can = "yes" => ~Full(writeBuffer)

\* LISTEN with CLOSE: the CLOSE is pending, or it is done and the channel gone.
CloseInv ==
    host.role = "listen" /\ ~Text /\ host.kind = "CLOSE" =>
        /\ writeBuffer = <<>> /\ can # "yes" /\ ~m_opening
        /\ \/ m_cmd = "IFD_CLOSE" /\ ~ran /\ owed = <<Item("CLOSE", m_channel, <<>>)>>
           \/ m_cmd = "IFD_NONE" /\ m_channel = NoChannel /\ owed = <<>>

\* After the transaction m_cmd stands for what it asked for.
AfterInv ==
    host.role # "listen" =>
        /\ host.role = "talk" => m_cmd \in {"IFD_NONE", "IFD_CLOSE"}
        /\ m_cmd \in {"IFD_NONE", "IFD_OPEN", "IFD_CLOSE", "IFD_WRITE", "IFD_EXEC"}
        /\ m_cmd \in {"IFD_NONE", "IFD_CLOSE"} => writeBuffer = <<>>
        /\ m_cmd = "IFD_NONE" => owed = <<>>
        /\ m_cmd = "IFD_OPEN" => owed = <<Item("OPEN", m_channel, writeBuffer)>>
        /\ m_cmd = "IFD_CLOSE" => owed = <<Item("CLOSE", m_channel, <<>>)>>
        /\ m_cmd = "IFD_EXEC" => owed = <<Item("EXEC", 15, writeBuffer)>>
        /\ m_cmd = "IFD_WRITE" => owed = Items(m_channel, writeBuffer) /\ EoiAgrees
        /\ Len(writeBuffer) < BufferSize

AccountInv ==
    /\ ~wrong
    /\ writeBuffer \in Seq(Bytes) /\ m_eoi \in BOOLEAN
    /\ m_channel \in Data \cup {15, NoChannel}
    /\ TextInv /\ DataInv /\ CloseInv /\ AfterInv

\* Between the file position of the derived class and what the master has read
\* lie exactly the bytes of the read buffer; a failed OPEN leaves an empty file.
ChannelReads(c) ==
    /\ pos[c] \in 0..size[c] /\ expect[c] \in 0..pos[c]
    /\ readBuffer[c] = Failed => size[c] = 0
    /\ readBuffer[c] # Failed =>
          /\ Len(readBuffer[c]) = pos[c] - expect[c] /\ Len(readBuffer[c]) <= 2
          /\ \A i \in 1..Len(readBuffer[c]) : readBuffer[c][i] = expect[c] + i

\* While talking, m_eoi says that the whole file has been read into the buffer,
\* and a byte is promised only when there is one, the last one alone only at the
\* end of the file.
TalkInv ==
    \A c \in Data : host.role = "talk" /\ m_channel = c =>
        /\ m_eoi => pos[c] = size[c]
        /\ can = "yes" => /\ readBuffer[c] # Failed /\ readBuffer[c] # <<>>
                          /\ Len(readBuffer[c]) = 1 => pos[c] = size[c]

ReadInv ==
    /\ readBuffer \in [Data -> Seq(Int)]
    /\ size \in [Data -> 0..MaxFileLen] /\ pos \in [Data -> Nat] /\ expect \in [Data -> Nat]
    /\ \A c \in Data : ChannelReads(c)
    /\ TalkInv

-----------------------------------------------------------------------------
(***************************************************************************)
(* Sequences of items.                                                     *)
(***************************************************************************)

\* Giving exactly what is owed settles the account.
LEMMA SelfPrefix ==
    ASSUME NEW S, NEW s \in Seq(S)
    PROVE  IsPrefix(s, s) /\ SubSeq(s, Len(s) + 1, Len(s)) = <<>>
  <1>1. Len(s) \in Nat
    OBVIOUS
  <1>. QED
    BY <1>1 DEF IsPrefix

LEMMA GiveAll ==
    ASSUME ~wrong, NEW S, NEW items \in Seq(S), owed = items, Give(items)
    PROVE  owed' = <<>> /\ wrong' = wrong
  BY SelfPrefix DEF Give

LEMMA ItemsType ==
    ASSUME NEW ch, NEW b \in Seq(Bytes)
    PROVE  /\ Len(b) \in Nat
           /\ Items(ch, b) \in Seq({Item("WRITE", ch, <<b[k]>>) : k \in 1..Len(b)})
           /\ Len(Items(ch, b)) = Len(b)
           /\ DOMAIN Items(ch, b) = 1..Len(b)
           /\ \A k \in 1..Len(b) : Items(ch, b)[k] = Item("WRITE", ch, <<b[k]>>)
  <1>1. Len(b) \in Nat
    OBVIOUS
  <1>. QED
    BY <1>1 DEF Items

\* A byte sent extends both the buffer and the account.
LEMMA ItemsAppend ==
    ASSUME NEW ch, NEW b \in Seq(Bytes), NEW x \in Bytes
    PROVE  Items(ch, Append(b, x)) = Items(ch, b) \o <<Item("WRITE", ch, <<x>>)>>
  <1>. DEFINE it(y) == Item("WRITE", ch, <<y>>)
              l == Items(ch, Append(b, x))
              r == Items(ch, b) \o <<it(x)>>
  <1>1. /\ Append(b, x) \in Seq(Bytes) /\ Len(Append(b, x)) = Len(b) + 1 /\ Len(b) \in Nat
        /\ \A k \in 1..Len(b) : Append(b, x)[k] = b[k]
        /\ Append(b, x)[Len(b) + 1] = x
    OBVIOUS
  <1>2. DOMAIN l = 1..(Len(b) + 1) /\ l[Len(b) + 1] = it(x)
    BY <1>1 DEF Items
  <1>3. \A k \in 1..Len(b) : l[k] = it(b[k])
    BY <1>1 DEF Items
  <1>4. PICK T : Items(ch, b) \in Seq(T) /\ it(x) \in T
    <2>1. Items(ch, b) \in Seq({it(b[k]) : k \in 1..Len(b)} \cup {it(x)})
      BY <1>1, SMTT(20) DEF Items
    <2>. QED
      BY <2>1
  <1>5. r \in Seq(T) /\ Len(r) = Len(b) + 1 /\ r[Len(b) + 1] = it(x)
    <2>1. Len(Items(ch, b)) = Len(b)
      BY ItemsType
    <2>. HIDE DEF it
    <2>. QED
      BY <1>4, <1>1, <2>1
  <1>6. \A k \in 1..Len(b) : r[k] = it(b[k])
    <2>1. \A k \in 1..Len(b) : Items(ch, b)[k] = it(b[k])
      BY ItemsType
    <2>2. Len(Items(ch, b)) = Len(b)
      BY ItemsType
    <2>. HIDE DEF it
    <2>. QED
      BY <1>4, <1>1, <2>1, <2>2
  <1>7. l = [k \in 1..(Len(b) + 1) |-> l[k]]
    BY <1>1 DEF Items
  <1>8. r = [k \in 1..(Len(b) + 1) |-> r[k]]
    <2>. HIDE DEF r
    <2>. QED
      BY <1>5, <1>1
  <1>9. \A k \in 1..(Len(b) + 1) : l[k] = r[k]
    <2>. HIDE DEF l, r, it
    <2>. QED
      BY <1>2, <1>3, <1>5, <1>6, <1>1
  <1>. HIDE DEF l, r
  <1>10. l = r
    BY <1>7, <1>8, <1>9
  <1>. QED
    BY <1>10 DEF l, r

\* The first n bytes given leave the account and the buffer in step.
LEMMA ItemsSplit ==
    ASSUME NEW ch, NEW b \in Seq(Bytes), NEW n \in 0..Len(b), NEW first,
           first = [k \in 1..n |-> Item("WRITE", ch, <<b[k]>>)]
    PROVE  /\ IsPrefix(first, Items(ch, b))
           /\ SubSeq(Items(ch, b), Len(first) + 1, Len(Items(ch, b)))
                = Items(ch, SubSeq(b, n + 1, Len(b)))
  <1>. DEFINE it(k) == Item("WRITE", ch, <<b[k]>>)
              all == Items(ch, b)
              T == {it(k) : k \in 1..Len(b)}
  <1>0. Len(b) \in Nat
    OBVIOUS
  <1>1. Len(b) \in Nat /\ all \in Seq(T) /\ Len(all) = Len(b)
    <2>1. all = [k \in 1..Len(b) |-> it(k)] /\ \A k \in 1..Len(b) : it(k) \in T
      BY DEF Items
    <2>. HIDE DEF all, T, it
    <2>. QED
      BY <1>0, <2>1
  <1>2. \A k \in 1..Len(b) : all[k] = it(k)
    BY ItemsType
  <1>3. first \in Seq(T) /\ Len(first) = n /\ \A k \in 1..n : first[k] = it(k)
    <2>1. n \in Nat /\ \A k \in 1..n : k \in 1..Len(b) /\ it(k) \in T
      BY <1>0
    <2>2. first = [k \in 1..n |-> it(k)]
      OBVIOUS
    <2>. HIDE DEF it, T
    <2>. QED
      BY <2>1, <2>2
  <1>4. IsPrefix(first, all)
    <2>1. SubSeq(first, 1, n) = [k \in 1..n |-> first[k]]
      BY <1>3
    <2>2. SubSeq(all, 1, n) = [k \in 1..n |-> all[k]]
      <3>. HIDE DEF all, T
      <3>. QED
        BY <1>1
    <2>3. \A k \in 1..n : first[k] = all[k]
      BY <1>1, <1>2, <1>3
    <2>4. SubSeq(first, 1, n) = SubSeq(all, 1, n)
      BY <2>1, <2>2, <2>3
    <2>. HIDE DEF all, T
    <2>. QED
      BY <2>4, <1>1, <1>3 DEF IsPrefix
  <1>5. SubSeq(all, n + 1, Len(b)) = Items(ch, SubSeq(b, n + 1, Len(b)))
    <2>1. /\ SubSeq(b, n + 1, Len(b)) \in Seq(Bytes)
          /\ Len(SubSeq(b, n + 1, Len(b))) = Len(b) - n
          /\ \A k \in 1..(Len(b) - n) : SubSeq(b, n + 1, Len(b))[k] = b[n + k]
      BY <1>1
    <2>2. Items(ch, SubSeq(b, n + 1, Len(b))) = [k \in 1..(Len(b) - n) |-> it(n + k)]
      BY <2>1 DEF Items
    <2>3. SubSeq(all, n + 1, Len(b)) = [k \in 1..(Len(b) - n) |-> all[n + k]]
      <3>. HIDE DEF all, T
      <3>. QED
        BY <1>1
    <2>4. \A k \in 1..(Len(b) - n) : all[n + k] = it(n + k)
      BY <1>1, <1>2
    <2>. QED
      BY <2>2, <2>3, <2>4
  <1>. QED
    BY <1>1, <1>3, <1>4, <1>5

LEMMA ItemsEmpty == ASSUME NEW ch PROVE Items(ch, <<>>) = <<>>
  BY DEF Items

LEMMA OneItem ==
    ASSUME NEW op, NEW ch, NEW b
    PROVE  /\ <<Item(op, ch, b)>> \in Seq({Item(op, ch, b)})
           /\ <<>> \o <<Item(op, ch, b)>> = <<Item(op, ch, b)>>
  OBVIOUS

\* fileTask() gives exactly what is owed, whatever the pending command.
LEMMA FileTaskSettles ==
    ASSUME HostType, AccountInv, fileTask(FALSE)
    PROVE  owed' = <<>> /\ ~wrong' /\ m_eoi' = m_eoi /\ m_opening' = m_opening
  <1>0. m_eoi' = m_eoi /\ m_opening' = m_opening
    BY DEF fileTask, fileTaskOpen, fileTaskClose, fileTaskWrite, fileTaskExec
  <1>1. CASE fileTaskOpen(FALSE)
    <2>1. m_cmd = "IFD_OPEN" /\ Give(<<Item("OPEN", m_channel, writeBuffer)>>)
      BY <1>1 DEF fileTaskOpen
    <2>2. owed = <<Item("OPEN", m_channel, writeBuffer)>>
      BY <2>1 DEF HostType, AccountInv, AfterInv, TextInv, DataInv, CloseInv, Text
    <2>. QED
      BY <1>0, <2>1, <2>2, GiveAll, OneItem DEF AccountInv
  <1>2. CASE fileTaskClose
    <2>1. m_cmd = "IFD_CLOSE"
          /\ Give(Written(Len(writeBuffer)) \o <<Item("CLOSE", m_channel, <<>>)>>)
      BY <1>2 DEF fileTaskClose
    <2>2. owed = <<Item("CLOSE", m_channel, <<>>)>> /\ writeBuffer = <<>>
      BY <2>1 DEF HostType, AccountInv, AfterInv, TextInv, DataInv, CloseInv, Text
    <2>3. Written(Len(writeBuffer)) = <<>>
      BY <2>2 DEF Written
    <2>4. Give(<<Item("CLOSE", m_channel, <<>>)>>)
      BY <2>1, <2>3, OneItem
    <2>. QED
      BY <1>0, <2>2, <2>4, GiveAll, OneItem DEF AccountInv
  <1>3. CASE fileTaskWrite
    <2>1. m_cmd = "IFD_WRITE" /\ (EoiAgrees => Give(Written(Len(writeBuffer))))
      BY <1>3 DEF fileTaskWrite
    <2>2. owed = Items(m_channel, writeBuffer) /\ EoiAgrees
      BY <2>1 DEF HostType, AccountInv, AfterInv, TextInv, DataInv, CloseInv, Text
    <2>3. Written(Len(writeBuffer)) = Items(m_channel, writeBuffer)
      BY DEF Written, Items
    <2>4. Give(Items(m_channel, writeBuffer))
      BY <2>1, <2>2, <2>3
    <2>5. PICK S : Items(m_channel, writeBuffer) \in Seq(S)
      BY ItemsType DEF AccountInv
    <2>. QED
      BY <1>0, <2>2, <2>4, <2>5, GiveAll DEF AccountInv
  <1>4. CASE fileTaskExec
    <2>1. m_cmd = "IFD_EXEC" /\ Give(<<Item("EXEC", 15, writeBuffer)>>)
      BY <1>4 DEF fileTaskExec
    <2>2. owed = <<Item("EXEC", 15, writeBuffer)>>
      BY <2>1 DEF HostType, AccountInv, AfterInv, TextInv, DataInv, CloseInv, Text
    <2>. QED
      BY <1>0, <2>1, <2>2, GiveAll, OneItem DEF AccountInv
  <1>. QED
    BY <1>1, <1>2, <1>3, <1>4 DEF fileTask

\* Between transactions nothing is pending, nothing is owed.
LEMMA CleanSlate ==
    ASSUME Served, ServedInv, AccountInv, host.role # "listen", ran
    PROVE  m_cmd = "IFD_NONE" /\ owed = <<>> /\ writeBuffer = <<>> /\ ~m_opening
  BY DEF Served, ServedInv, RanMeansDone, OpeningInListen, AccountInv, AfterInv

LEMMA ListenAccount ==
    ASSUME Served, HostType, ServedInv, AccountInv,
           NEW kind \in {"OPEN", "CLOSE", "DATA"}, NEW ch \in Data \cup {15}, listen(kind, ch)
    PROVE  AccountInv'
  <1>0. m_cmd = "IFD_NONE" /\ owed = <<>> /\ writeBuffer = <<>> /\ ~m_opening /\ ~wrong
    BY CleanSlate DEF listen, AtnCallback, Served, AccountInv
  <1>1. /\ m_channel' = ch /\ m_eoi' = FALSE /\ writeBuffer' = <<>> /\ can' = "ask"
        /\ m_opening' <=> kind = "OPEN" /\ ch # 15
        /\ m_cmd' = IF ch # 15 /\ kind = "CLOSE" THEN "IFD_CLOSE" ELSE "IFD_NONE"
        /\ ~ran' /\ ~wrong'
        /\ host' = [role |-> "listen", kind |-> kind, ch |-> ch, sent |-> <<>>]
    BY <1>0 DEF listen
  <1>2. owed' = IF ch # 15 /\ kind = "CLOSE" THEN <<Item("CLOSE", ch, <<>>)>> ELSE <<>>
    BY <1>0, OneItem DEF listen, Owe
  <1>3. Items(m_channel', writeBuffer') = <<>>
    BY <1>1, ItemsEmpty
  <1>4. Len(writeBuffer') = 0 /\ 0 < BufferSize /\ writeBuffer' \in Seq(Bytes)
    BY <1>1, BufferSizeAssumption
  <1>5. TextInv'
    BY <1>1, <1>2, <1>4 DEF TextInv, Text
  <1>6. DataInv'
    BY <1>1, <1>2, <1>3, <1>4 DEF DataInv, Text, EoiSent
  <1>7. CloseInv'
    BY <1>1, <1>2 DEF CloseInv, Text
  <1>8. AfterInv'
    BY <1>1 DEF AfterInv
  <1>. QED
    BY <1>1, <1>4, <1>5, <1>6, <1>7, <1>8 DEF AccountInv

LEMMA UnlistenAccount ==
    ASSUME Served, HostType, ServedInv, AccountInv, unlisten
    PROVE  AccountInv'
  <1>0. m_cmd = "IFD_NONE" /\ host.role = "listen" /\ ran /\ ~wrong
    BY DEF unlisten, Served, ServedInv, RanMeansDone, AccountInv
  <1>1. /\ host'.role = "idle" /\ ~wrong' /\ writeBuffer' = writeBuffer /\ m_eoi' = m_eoi
        /\ owed' = owed \o Asked
    BY <1>0 DEF unlisten, Owe, Idle
  <1>2. m_channel' \in {m_channel, NoChannel}
    BY DEF unlisten
  <1>3. TextInv' /\ DataInv' /\ CloseInv'
    BY <1>1 DEF TextInv, DataInv, CloseInv
  <1>4. ASSUME Text, host.ch = 15 PROVE AfterInv'
    <2>1. /\ m_channel = 15 /\ writeBuffer = host.sent /\ owed = <<>>
          /\ Len(writeBuffer) < BufferSize
      BY <1>0, <1>4 DEF AccountInv, TextInv
    <2>2. m_cmd' = IF writeBuffer # <<>> THEN "IFD_EXEC" ELSE "IFD_NONE"
      BY <1>0, <2>1 DEF unlisten
    <2>3. owed' = IF writeBuffer # <<>> THEN <<Item("EXEC", 15, writeBuffer)>> ELSE <<>>
      BY <1>1, <1>4, <2>1, OneItem DEF Asked
    <2>. QED
      BY <1>1, <2>1, <2>2, <2>3 DEF AfterInv
  <1>5. ASSUME Text, host.ch # 15 PROVE AfterInv'
    <2>1. /\ m_channel = host.ch /\ writeBuffer = host.sent /\ owed = <<>> /\ m_opening
          /\ Len(writeBuffer) < BufferSize
      BY <1>0, <1>5 DEF AccountInv, TextInv
    <2>2. m_cmd' = "IFD_OPEN" /\ m_channel' = m_channel
      BY <1>5, <2>1 DEF unlisten
    <2>3. owed' = <<Item("OPEN", m_channel, writeBuffer)>>
      BY <1>1, <1>5, <2>1, OneItem DEF Asked, Text
    <2>. QED
      BY <1>1, <2>1, <2>2, <2>3 DEF AfterInv
  <1>6. ASSUME ~Text, host.kind = "DATA" PROVE AfterInv'
    <2>1. /\ m_channel = host.ch /\ m_channel # 15 /\ ~m_opening
          /\ owed = Items(m_channel, writeBuffer) /\ Len(writeBuffer) < BufferSize
          /\ m_eoi <=> EoiSent
          /\ writeBuffer # <<>> =>
              host.sent # <<>> /\ host.sent[Len(host.sent)] = writeBuffer[Len(writeBuffer)]
      BY <1>0, <1>6 DEF AccountInv, DataInv, Text
    <2>2. m_cmd' = (IF writeBuffer # <<>> THEN "IFD_WRITE" ELSE "IFD_NONE")
          /\ m_channel' = m_channel
      BY <1>0, <2>1 DEF unlisten
    <2>3. EoiAgrees
      BY <2>1 DEF EoiAgrees, EoiSent, Last
    <2>4. EoiAgrees'
      BY <1>1, <2>3 DEF EoiAgrees
    <2>5. PICK S : Items(m_channel, writeBuffer) \in Seq(S)
      BY ItemsType DEF AccountInv
    <2>6. Asked = <<>>
      BY <1>6 DEF Asked, Text
    <2>7. owed' = Items(m_channel, writeBuffer)
      BY <1>1, <2>1, <2>5, <2>6, ConcatEmptySeq
    <2>8. writeBuffer = <<>> => owed' = <<>>
      BY <2>7, ItemsEmpty
    <2>. QED
      BY <1>1, <2>1, <2>2, <2>4, <2>7, <2>8 DEF AfterInv
  <1>7. ASSUME ~Text, host.kind = "CLOSE" PROVE AfterInv'
    <2>1. writeBuffer = <<>> /\ ~m_opening /\ m_channel = NoChannel /\ owed = <<>>
      BY <1>0, <1>7 DEF AccountInv, CloseInv
    <2>2. m_cmd' = "IFD_NONE"
      BY <1>0, <2>1 DEF unlisten, NoChannel
    <2>3. Asked = <<>>
      BY <1>7 DEF Asked, Text
    <2>4. owed' = <<>>
      BY <1>1, <2>1, <2>3
    <2>. QED
      BY <1>1, <2>1, <2>2, <2>4, BufferSizeAssumption DEF AfterInv
  <1>8. AfterInv'
    BY <1>4, <1>5, <1>6, <1>7 DEF HostType, Text
  <1>. QED
    BY <1>1, <1>2, <1>3, <1>8 DEF AccountInv

LEMMA TalkAccount ==
    ASSUME Served, HostType, ServedInv, AccountInv,
           NEW kind \in {"CLOSE", "DATA"}, NEW ch \in Data \cup {15}, talk(kind, ch)
    PROVE  AccountInv'
  <1>0. m_cmd = "IFD_NONE" /\ owed = <<>> /\ writeBuffer = <<>> /\ ~m_opening /\ ~wrong
    BY CleanSlate DEF talk, AtnCallback, Served, AccountInv
  <1>1. /\ m_channel' = ch /\ m_eoi' = FALSE /\ writeBuffer' = <<>>
        /\ m_cmd' = IF ch # 15 /\ kind = "CLOSE" THEN "IFD_CLOSE" ELSE "IFD_NONE"
        /\ ~wrong' /\ host'.role = "talk"
    BY <1>0 DEF talk
  <1>2. owed' = IF ch # 15 /\ kind = "CLOSE" THEN <<Item("CLOSE", ch, <<>>)>> ELSE <<>>
    BY <1>0, OneItem DEF talk, Owe
  <1>3. Len(writeBuffer') = 0 /\ 0 < BufferSize /\ writeBuffer' \in Seq(Bytes)
    BY <1>1, BufferSizeAssumption
  <1>. QED
    BY <1>1, <1>2, <1>3 DEF AccountInv, TextInv, DataInv, CloseInv, AfterInv

\* task() carries out the command of the transaction that ended, or the CLOSE
\* of the LISTEN that has just begun.
LEMMA TaskAccount ==
    ASSUME Served, HostType, ServedInv, AccountInv, task
    PROVE  AccountInv'
  <1>1. ASSUME m_cmd = "IFD_NONE", UNCHANGED <<device, can, host, history>> PROVE AccountInv'
    <2>1. AccountInv'
      BY <1>1 DEF device, history, AccountInv, TextInv, DataInv, CloseInv, AfterInv, Text,
                  EoiSent, EoiAgrees
    <2>. QED
      BY <2>1
  <1>2. ASSUME fileTask(FALSE) PROVE AccountInv'
    <2>1. /\ owed' = <<>> /\ ~wrong' /\ m_eoi' = m_eoi /\ m_opening' = m_opening
          /\ m_cmd # "IFD_NONE" /\ m_cmd' = "IFD_NONE" /\ writeBuffer' = <<>>
          /\ UNCHANGED <<can, host>>
      BY <1>2, FileTaskSettles, FileTaskStep
    <2>2. m_channel' \in {m_channel, NoChannel} /\ (m_cmd = "IFD_CLOSE" => m_channel' = NoChannel)
      BY <1>2 DEF fileTask, fileTaskOpen, fileTaskClose, fileTaskWrite, fileTaskExec
    <2>3. Len(writeBuffer') = 0 /\ 0 < BufferSize /\ writeBuffer' \in Seq(Bytes)
      BY <2>1, BufferSizeAssumption
    <2>4. Text' <=> Text
      BY <2>1 DEF Text
    <2>5. ~(host.role = "listen" /\ Text) /\ ~(host.role = "listen" /\ ~Text /\ host.kind = "DATA")
      BY <2>1 DEF AccountInv, TextInv, DataInv
    <2>6. TextInv' /\ DataInv'
      BY <2>1, <2>4, <2>5 DEF TextInv, DataInv
    <2>7. CloseInv'
      BY <2>1, <2>2, <2>4 DEF AccountInv, CloseInv
    <2>8. AfterInv'
      BY <2>1, <2>3 DEF AccountInv, AfterInv
    <2>. QED
      BY <2>1, <2>2, <2>3, <2>6, <2>7, <2>8 DEF AccountInv
  <1>. QED
    BY <1>1, <1>2 DEF task, Served

\* canWrite() on a full buffer passes on the oldest bytes owed.
LEMMA CanWriteFullAccount ==
    ASSUME Served, HostType, ServedInv, AccountInv, canWriteFull
    PROVE  AccountInv'
  <1>0. /\ host.role = "listen" /\ m_channel # 15 /\ ~m_opening /\ ran /\ ~wrong
        /\ m_channel \in Data /\ m_cmd = "IFD_NONE" /\ writeBuffer \in Seq(Bytes)
    BY DEF canWriteFull, AskedToWrite, ReceivingText, ChannelOk, Served, ServedInv,
           RanMeansDone, AccountInv
  <1>1. ~Text /\ host.kind = "DATA"
    BY <1>0, NotCommandChannel DEF AccountInv, TextInv, CloseInv, Text, HostType
  <1>2. /\ m_channel = host.ch /\ owed = Items(m_channel, writeBuffer)
        /\ Len(writeBuffer) < BufferSize
        /\ m_eoi <=> EoiSent
        /\ writeBuffer # <<>> =>
              host.sent # <<>> /\ host.sent[Len(host.sent)] = writeBuffer[Len(writeBuffer)]
    BY <1>0, <1>1 DEF AccountInv, DataInv
  <1>3. EoiAgrees
    BY <1>2 DEF EoiAgrees, EoiSent, Last
  <1>4. PICK n \in 0..Len(writeBuffer) :
           /\ Give(Written(n))
           /\ writeBuffer' = SubSeq(writeBuffer, n + 1, Len(writeBuffer))
           /\ can' = IF n > 0 THEN "yes" ELSE "no"
    BY <1>3 DEF canWriteFull
  <1>5. /\ IsPrefix(Written(n), owed)
        /\ SubSeq(owed, Len(Written(n)) + 1, Len(owed)) = Items(m_channel, writeBuffer')
    BY <1>0, <1>2, <1>4, ItemsSplit DEF Written
  <1>6. owed' = Items(m_channel, writeBuffer') /\ ~wrong'
    BY <1>0, <1>4, <1>5 DEF Give
  <1>7. UNCHANGED <<m_channel, m_cmd, m_opening, m_eoi, ran, host>>
    BY DEF canWriteFull
  <1>8. Len(writeBuffer) \in Nat
    BY <1>0
  <1>9. /\ writeBuffer' \in Seq(Bytes) /\ Len(writeBuffer') = Len(writeBuffer) - n
        /\ n < Len(writeBuffer) => writeBuffer'[Len(writeBuffer) - n] = writeBuffer[Len(writeBuffer)]
        /\ n = Len(writeBuffer) => writeBuffer' = <<>>
    BY <1>0, <1>4, <1>8
  <1>10. can' = "yes" => ~Full(writeBuffer')
    BY <1>2, <1>4, <1>8, <1>9, BufferSizeAssumption DEF Full
  <1>11. writeBuffer' # <<>> =>
            /\ host'.sent # <<>>
            /\ host'.sent[Len(host'.sent)] = writeBuffer'[Len(writeBuffer')]
    <2>. SUFFICES ASSUME writeBuffer' # <<>>
                  PROVE  /\ host.sent # <<>>
                         /\ host.sent[Len(host.sent)] = writeBuffer'[Len(writeBuffer')]
      BY <1>7
    <2>1. n < Len(writeBuffer)
      BY <1>4, <1>8, <1>9
    <2>2. writeBuffer # <<>>
      BY <1>4, <1>8, <2>1
    <2>3. writeBuffer'[Len(writeBuffer')] = writeBuffer[Len(writeBuffer)]
      BY <1>9, <2>1
    <2>. QED
      BY <1>2, <2>2, <2>3
  <1>12. DataInv'
    <2>1. Len(writeBuffer') < BufferSize
      BY <1>2, <1>4, <1>8, <1>9, BufferSizeAssumption
    <2>2. (m_eoi <=> EoiSent)'
      BY <1>2, <1>7 DEF EoiSent
    <2>. QED
      BY <1>0, <1>2, <1>6, <1>7, <1>10, <1>11, <2>1, <2>2 DEF DataInv
  <1>13. TextInv' /\ CloseInv' /\ AfterInv'
    BY <1>0, <1>1, <1>7 DEF TextInv, CloseInv, AfterInv, Text
  <1>. QED
    BY <1>6, <1>7, <1>9, <1>12, <1>13 DEF AccountInv

\* A byte the master sends is appended to the buffer, and owed unless it
\* belongs to a name or a command.
LEMMA WriteAccount ==
    ASSUME Served, HostType, ServedInv, AccountInv, NEW eoi \in BOOLEAN, write(eoi)
    PROVE  AccountInv'
  <1>. DEFINE byte == [ch |-> host.ch, id |-> nextByte, eoi |-> eoi]
  <1>0. /\ host.role = "listen" /\ can = "yes" /\ ~EoiSent /\ ~wrong /\ can' = "ask"
        /\ UNCHANGED <<m_channel, m_cmd, m_opening, ran, wrong>>
        /\ m_eoi' = (m_eoi \/ eoi) /\ m_eoi \in BOOLEAN
    BY DEF write, AccountInv
  <1>1. byte \in Bytes /\ writeBuffer \in Seq(Bytes) /\ host.sent \in Seq(Bytes)
    BY <1>0 DEF HostType, Bytes, AccountInv
  <1>2. Len(writeBuffer) \in Nat /\ Len(host.sent) \in Nat
    BY <1>1
  <1>3. writeBuffer' = IF Full(writeBuffer) THEN writeBuffer ELSE Append(writeBuffer, byte)
    BY DEF write
  <1>4. host' = [host EXCEPT !.sent = IF Text THEN Append(host.sent, byte) ELSE <<byte>>]
    BY DEF write, Text
  <1>5. Text' <=> Text
    BY <1>4 DEF Text, HostType
  <1>6. host'.role = "listen" /\ host'.ch = host.ch /\ host'.kind = host.kind
    BY <1>0, <1>4 DEF HostType
  <1>7. host'.sent = IF Text THEN Append(host.sent, byte) ELSE <<byte>>
    BY <1>4 DEF HostType
  <1>8. owed' = owed \o (IF Text THEN <<>> ELSE <<Item("WRITE", host.ch, <<byte>>)>>)
    BY <1>0 DEF write, Owe, Text
  <1>. HIDE DEF byte
  <1>9. CASE Text
    <2>1. /\ m_cmd = "IFD_NONE" /\ m_channel = host.ch /\ (m_opening <=> host.ch # 15)
          /\ writeBuffer = host.sent /\ owed = <<>>
      BY <1>0, <1>9 DEF AccountInv, TextInv
    <2>2. Len(host.sent) < BufferSize - 1
      BY <1>9 DEF write, Text
    <2>3. ~Full(writeBuffer)
      BY <2>1, <2>2, <1>2, BufferSizeAssumption DEF Full
    <2>4. writeBuffer' = host'.sent /\ owed' = <<>>
      BY <2>1, <2>3, <1>3, <1>7, <1>8, <1>9
    <2>5. writeBuffer' \in Seq(Bytes) /\ Len(host'.sent) < BufferSize
      BY <1>1, <1>2, <1>7, <1>9, <2>2, <2>4, BufferSizeAssumption
    <2>6. TextInv'
      BY <2>1, <2>4, <2>5, <1>0, <1>6 DEF TextInv
    <2>7. DataInv' /\ CloseInv' /\ AfterInv'
      BY <1>5, <1>6, <1>9 DEF DataInv, CloseInv, AfterInv
    <2>. QED
      BY <2>5, <2>6, <2>7, <1>0 DEF AccountInv
  <1>10. CASE ~Text
    <2>0. host.kind = "DATA"
      BY <1>0, <1>10 DEF AccountInv, CloseInv, HostType, Text
    <2>1. /\ m_cmd = "IFD_NONE" /\ m_channel = host.ch /\ ~m_opening
          /\ owed = Items(m_channel, writeBuffer) /\ ~Full(writeBuffer)
          /\ m_eoi <=> EoiSent
      BY <1>0, <1>10, <2>0 DEF AccountInv, DataInv
    <2>2. writeBuffer' = Append(writeBuffer, byte) /\ host'.sent = <<byte>>
      BY <2>1, <1>3, <1>7, <1>10
    <2>3. owed' = Items(m_channel, writeBuffer')
      BY <2>1, <2>2, <1>1, <1>8, <1>10, ItemsAppend
    <2>4. /\ writeBuffer' \in Seq(Bytes) /\ Len(writeBuffer') = Len(writeBuffer) + 1
          /\ writeBuffer'[Len(writeBuffer')] = byte
      BY <1>1, <1>2, <2>2
    <2>5. Len(writeBuffer') < BufferSize
      BY <2>1, <2>4, <1>2, BufferSizeAssumption DEF Full
    <2>6. EoiSent' <=> eoi
      BY <2>2 DEF EoiSent, Last, byte
    <2>7. host'.sent # <<>> /\ host'.sent[Len(host'.sent)] = byte
      BY <2>2
    <2>8. m_eoi' <=> EoiSent'
      BY <2>1, <2>6, <1>0
    <2>9. DataInv'
      BY <2>1, <2>3, <2>4, <2>5, <2>7, <2>8, <1>0, <1>6 DEF DataInv
    <2>10. TextInv' /\ CloseInv' /\ AfterInv'
      BY <1>5, <1>6, <1>10, <2>0 DEF TextInv, CloseInv, AfterInv
    <2>. QED
      BY <2>4, <2>9, <2>10, <1>0 DEF AccountInv
  <1>. QED
    BY <1>9, <1>10

\* Steps that leave the command, the buffer, the master's transaction and the
\* account alone; only while talking may m_eoi change.
LEMMA QuietAccount ==
    ASSUME HostType, AccountInv, m_eoi' \in BOOLEAN, ~wrong',
           UNCHANGED <<m_channel, m_cmd, m_opening, writeBuffer, ran, host, owed>>,
           host.role # "talk" => m_eoi' = m_eoi,
           can' # "yes" \/ host.role = "talk"
    PROVE  AccountInv'
  <1>1. TextInv' /\ CloseInv'
    BY DEF AccountInv, TextInv, CloseInv, Text
  <1>2. DataInv'
    BY DEF AccountInv, DataInv, Text, EoiSent
  <1>3. AfterInv'
    BY DEF AccountInv, AfterInv, EoiAgrees
  <1>. QED
    BY <1>1, <1>2, <1>3 DEF AccountInv

LEMMA CanWriteAccount ==
    ASSUME Served, HostType, ServedInv, AccountInv, canWrite
    PROVE  AccountInv'
  <1>0. /\ host.role = "listen" /\ ran /\ m_cmd = "IFD_NONE"
        /\ UNCHANGED <<m_channel, m_cmd, m_opening, m_eoi, writeBuffer, ran, host, owed, wrong>>
    BY DEF canWrite, AskedToWrite, Served, ServedInv, RanMeansDone, device, history
  <1>1. TextInv' /\ AfterInv'
    BY <1>0 DEF AccountInv, TextInv, AfterInv, Text
  <1>2. CloseInv'
    <2>. SUFFICES ASSUME host.role = "listen" /\ ~Text /\ host.kind = "CLOSE" PROVE CloseInv'
      BY <1>0 DEF CloseInv, Text
    <2>1. writeBuffer = <<>> /\ ~m_opening /\ m_channel = NoChannel /\ owed = <<>>
      BY <1>0 DEF AccountInv, CloseInv
    <2>2. ~ReceivingText /\ ~ChannelOk
      BY <2>1, NotCommandChannel DEF ReceivingText, ChannelOk, NoChannel
    <2>3. can' = "no"
      BY <2>2 DEF canWrite
    <2>. QED
      BY <1>0, <2>1, <2>3 DEF CloseInv
  <1>3. DataInv'
    <2>. SUFFICES ASSUME host.role = "listen" /\ ~Text /\ host.kind = "DATA" PROVE DataInv'
      BY <1>0 DEF DataInv, Text
    <2>1. m_channel = host.ch /\ m_channel # 15 /\ ~m_opening
      BY <1>0 DEF AccountInv, DataInv, Text
    <2>2. can' = "yes" => ~Full(writeBuffer)
      BY <2>1 DEF canWrite, ReceivingText
    <2>3. (m_eoi <=> EoiSent)' <=> (m_eoi <=> EoiSent)
      BY <1>0 DEF EoiSent
    <2>. QED
      BY <1>0, <2>2, <2>3 DEF AccountInv, DataInv
  <1>. QED
    BY <1>0, <1>1, <1>2, <1>3 DEF AccountInv

\* read() hands over the next byte of the file, and EOI was signalled with it
\* exactly when it is the last one.
LEMMA ReadRight ==
    ASSUME Served, HostType, AccountInv, ReadInv, read
    PROVE  ~wrong'
  <1>. DEFINE c == m_channel
  <1>1. /\ c \in Data /\ host.role = "talk" /\ can = "yes"
        /\ wrong' = (\/ wrong
                     \/ readBuffer[c][1] # expect[c] + 1
                     \/ (Len(readBuffer[c]) = 1) # (readBuffer[c][1] = size[c]))
    BY DEF read
  <1>2. readBuffer[c] # Failed /\ readBuffer[c] # <<>> /\ (Len(readBuffer[c]) = 1 => pos[c] = size[c])
    BY <1>1 DEF ReadInv, TalkInv
  <1>. PICK r, p, s, e : r = readBuffer[c] /\ p = pos[c] /\ s = size[c] /\ e = expect[c]
    OBVIOUS
  <1>3. r \in Seq(Int) /\ p \in Nat /\ s \in Nat /\ e \in Nat
    BY <1>1, BoundsAssumption DEF ReadInv
  <1>4. /\ p \in 0..s /\ e \in 0..p /\ Len(r) = p - e /\ Len(r) <= 2
        /\ \A i \in 1..Len(r) : r[i] = e + i
    BY <1>1, <1>2 DEF ReadInv, ChannelReads
  <1>5. Len(r) \in {1, 2}
    <2>1. Len(r) \in Nat /\ Len(r) # 0
      BY <1>2, <1>3
    <2>. QED
      BY <2>1, <1>4
  <1>6. r[1] = e + 1
    BY <1>4, <1>5
  <1>7. (Len(r) = 1) <=> (r[1] = s)
    BY <1>2, <1>3, <1>4, <1>5, <1>6
  <1>8. ~wrong
    BY DEF AccountInv
  <1>9. (Len(r) = 1) = (r[1] = s)
    BY <1>7
  <1>10. wrong' = (wrong \/ r[1] # e + 1 \/ (Len(r) = 1) # (r[1] = s))
    BY <1>1
  <1>. QED
    BY <1>10, <1>6, <1>8, <1>9, Zenon

LEMMA AccountStep ==
    Served /\ HostType /\ ServedInv /\ ReadInv /\ AccountInv /\ [Next]_vars => AccountInv'
  <1>. SUFFICES ASSUME Served, HostType, ServedInv, ReadInv, AccountInv, [Next]_vars
                PROVE  AccountInv'
    OBVIOUS
  <1>1. CASE \E kind \in {"OPEN", "CLOSE", "DATA"}, ch \in Data \cup {15} : listen(kind, ch)
    BY <1>1, ListenAccount
  <1>2. CASE unlisten
    BY <1>2, UnlistenAccount
  <1>3. CASE \E kind \in {"CLOSE", "DATA"}, ch \in Data \cup {15} : talk(kind, ch)
    BY <1>3, TalkAccount
  <1>4. CASE untalk
    <2>1. /\ host.role = "talk" /\ ran /\ host'.role = "idle" /\ m_channel' = NoChannel
          /\ UNCHANGED <<m_cmd, m_opening, m_eoi, writeBuffer, owed, wrong>>
      BY <1>4 DEF untalk, Served, Idle, history
    <2>2. m_cmd = "IFD_NONE"
      BY <2>1 DEF Served, ServedInv, RanMeansDone
    <2>. QED
      BY <2>1, <2>2 DEF AccountInv, TextInv, DataInv, CloseInv, AfterInv
  <1>5. CASE TalkStolen
    <2>1. /\ host.role = "talk" /\ ran /\ host'.role = "idle"
          /\ UNCHANGED <<m_channel, m_cmd, m_opening, m_eoi, writeBuffer, owed, wrong>>
      BY <1>5 DEF TalkStolen, Served, Idle, device, history
    <2>2. m_cmd = "IFD_NONE"
      BY <2>1 DEF Served, ServedInv, RanMeansDone
    <2>. QED
      BY <2>1, <2>2 DEF AccountInv, TextInv, DataInv, CloseInv, AfterInv
  <1>6. CASE TransferFails
    BY <1>6, QuietAccount DEF TransferFails, device, history, AccountInv
  <1>7. CASE task
    BY <1>7, TaskAccount
  <1>8. CASE fileTaskInCallback
    BY <1>8 DEF fileTaskInCallback, Served
  <1>9. CASE canWriteFull
    BY <1>9, CanWriteFullAccount
  <1>10. CASE canWrite
    BY <1>10, CanWriteAccount
  <1>11. CASE \E eoi \in BOOLEAN : write(eoi)
    BY <1>11, WriteAccount
  <1>12. CASE canRead
    <2>1. m_eoi' \in BOOLEAN
      BY <1>12 DEF canRead, fillReadBuffer, AccountInv
    <2>. QED
      BY <1>12, <2>1, QuietAccount DEF canRead, history, AccountInv
  <1>13. CASE read
    <2>1. ~wrong'
      BY <1>13, ReadRight DEF AccountInv
    <2>. QED
      BY <1>13, <2>1, QuietAccount DEF read, device, AccountInv
  <1>14. CASE reset
    <2>1. /\ host'.role = "idle" /\ m_channel' = NoChannel /\ m_cmd' = "IFD_NONE"
          /\ m_eoi' = TRUE /\ writeBuffer' = <<>> /\ owed' = <<>> /\ wrong' = wrong
      BY <1>14 DEF reset, Idle
    <2>2. Len(writeBuffer') = 0 /\ 0 < BufferSize /\ writeBuffer' \in Seq(Bytes)
      BY <2>1, BufferSizeAssumption
    <2>. QED
      BY <2>1, <2>2 DEF AccountInv, TextInv, DataInv, CloseInv, AfterInv
  <1>15. CASE UNCHANGED vars
    BY <1>15 DEF vars, device, history, AccountInv, TextInv, DataInv, CloseInv, AfterInv, Text,
                 EoiSent, EoiAgrees
  <1>. QED
    BY <1>1, <1>2, <1>3, <1>4, <1>5, <1>6, <1>7, <1>8, <1>9, <1>10, <1>11, <1>12, <1>13, <1>14,
       <1>15 DEF Next

\* The state of one channel's reads, for given values of its variables.
Reads(r, p, s, e) ==
    /\ p \in 0..s /\ e \in 0..p
    /\ r = Failed => s = 0
    /\ r # Failed => /\ Len(r) = p - e /\ Len(r) <= 2
                     /\ \A i \in 1..Len(r) : r[i] = e + i

LEMMA ReadsOfChannel ==
    ASSUME NEW c PROVE ChannelReads(c) <=> Reads(readBuffer[c], pos[c], size[c], expect[c])
  BY DEF ChannelReads, Reads

\* A step that gives one channel new values and leaves the others alone.
LEMMA OneChannelReads ==
    ASSUME ReadInv, NEW c \in Data,
           NEW r \in Seq(Int), NEW p \in Nat, NEW s \in 0..MaxFileLen, NEW e \in Nat,
           readBuffer' = [readBuffer EXCEPT ![c] = r], pos' = [pos EXCEPT ![c] = p],
           size' = [size EXCEPT ![c] = s], expect' = [expect EXCEPT ![c] = e],
           Reads(r, p, s, e), TalkInv'
    PROVE  ReadInv'
  <1>1. /\ readBuffer' \in [Data -> Seq(Int)] /\ size' \in [Data -> 0..MaxFileLen]
        /\ pos' \in [Data -> Nat] /\ expect' \in [Data -> Nat]
    BY DEF ReadInv
  <1>2. /\ readBuffer'[c] = r /\ pos'[c] = p /\ size'[c] = s /\ expect'[c] = e
        /\ \A d \in Data \ {c} : /\ readBuffer'[d] = readBuffer[d] /\ pos'[d] = pos[d]
                                  /\ size'[d] = size[d] /\ expect'[d] = expect[d]
    BY DEF ReadInv
  <1>3. ASSUME NEW d \in Data PROVE ChannelReads(d)'
    <2>1. CASE d = c
      BY <2>1, <1>2 DEF ChannelReads, Reads
    <2>2. CASE d # c
      BY <2>2, <1>2 DEF ReadInv, ChannelReads
    <2>. QED
      BY <2>1, <2>2
  <1>. QED
    BY <1>1, <1>3 DEF ReadInv

LEMMA OthersRead ==
    ASSUME ReadInv, UNCHANGED reading, TalkInv' PROVE ReadInv'
  BY DEF ReadInv, ChannelReads, reading

\* An empty read buffer at position 0, or one that stands for a failed OPEN.
LEMMA FreshReads ==
    /\ Failed \in Seq(Int) /\ Reads(Failed, 0, 0, 0)
    /\ <<>> \in Seq(Int) /\ \A len \in 0..MaxFileLen : Reads(<<>>, 0, len, 0)
  BY BoundsAssumption DEF Failed, Reads

LEMMA FileTaskReads ==
    ASSUME Served, HostType, ServedInv, AccountInv, ReadInv, fileTask(FALSE)
    PROVE  ReadInv'
  <1>1. host' = host /\ (host.role = "talk" => m_cmd = "IFD_CLOSE")
    BY FileTaskStep DEF AccountInv, AfterInv
  <1>2. m_cmd # "IFD_EXEC" => m_channel' = NoChannel
    BY DEF fileTask, fileTaskOpen, fileTaskClose, fileTaskWrite, fileTaskExec
  <1>3. TalkInv'
    BY <1>1, <1>2, NotCommandChannel DEF TalkInv
  <1>4. CASE fileTaskOpen(FALSE)
    <2>1. m_channel \in Data
      BY <1>4 DEF fileTaskOpen, ServedInv, DeferredChannelValid
    <2>2. PICK ok \in BOOLEAN, len \in 0..MaxFileLen :
              /\ readBuffer' = [readBuffer EXCEPT ![m_channel] = IF ok THEN <<>> ELSE Failed]
              /\ pos' = [pos EXCEPT ![m_channel] = 0]
              /\ size' = [size EXCEPT ![m_channel] = IF ok THEN len ELSE 0]
              /\ expect' = [expect EXCEPT ![m_channel] = 0]
      BY <1>4, <2>1 DEF fileTaskOpen
    <2>3. PICK r, s : r = (IF ok THEN <<>> ELSE Failed) /\ s = (IF ok THEN len ELSE 0)
      OBVIOUS
    <2>4. r \in Seq(Int) /\ s \in 0..MaxFileLen /\ Reads(r, 0, s, 0)
      BY <2>3, FreshReads, BoundsAssumption
    <2>. QED
      BY <1>3, <2>1, <2>2, <2>3, <2>4, OneChannelReads
  <1>5. CASE fileTaskClose
    <2>1. m_channel \in Data
      BY <1>5 DEF fileTaskClose, ServedInv, DeferredChannelValid
    <2>2. /\ readBuffer' = [readBuffer EXCEPT ![m_channel] = <<>>]
          /\ pos' = [pos EXCEPT ![m_channel] = 0]
          /\ size' = [size EXCEPT ![m_channel] = 0]
          /\ expect' = [expect EXCEPT ![m_channel] = 0]
      BY <1>5, <2>1 DEF fileTaskClose
    <2>3. 0 \in 0..MaxFileLen /\ 0 \in Nat
      BY BoundsAssumption
    <2>. QED
      BY <1>3, <2>1, <2>2, <2>3, FreshReads, OneChannelReads
  <1>6. CASE fileTaskWrite \/ fileTaskExec
    <2>1. UNCHANGED reading
      BY <1>6 DEF fileTaskWrite, fileTaskExec
    <2>. QED
      BY <1>3, <2>1, OthersRead
  <1>. QED
    BY <1>4, <1>5, <1>6 DEF fileTask

LEMMA CanReadReads ==
    ASSUME Served, HostType, AccountInv, ReadInv, canRead
    PROVE  ReadInv'
  <1>. DEFINE c == m_channel
  <1>1. host.role = "talk" /\ host' = host /\ m_channel' = c
    BY DEF canRead
  <1>2. ASSUME ~ChannelOk, can' = "no", UNCHANGED <<m_eoi, reading>> PROVE ReadInv'
    <2>1. TalkInv'
      BY <1>1, <1>2 DEF ReadInv, TalkInv, reading
    <2>. QED
      BY <1>2, <2>1, OthersRead
  <1>3. ASSUME ChannelOk, NEW k \in 0..2, fillReadBuffer(c, k),
               can' = IF readBuffer'[c] # <<>> THEN "yes" ELSE "no", UNCHANGED <<size, expect>>
        PROVE  ReadInv'
    <2>1. c \in Data /\ readBuffer[c] # Failed
      BY <1>3 DEF ChannelOk
    <2>2. PICK r, p, s, e : r = readBuffer[c] /\ p = pos[c] /\ s = size[c] /\ e = expect[c]
      OBVIOUS
    <2>3. /\ r \in Seq(Int) /\ p \in Nat /\ s \in Nat /\ s \in 0..MaxFileLen /\ e \in Nat
          /\ Reads(r, p, s, e) /\ r # Failed
      BY <2>1, <2>2, ReadsOfChannel, BoundsAssumption DEF ReadInv
    <2>4. PICK t, q : t = [i \in 1..k |-> p + i] /\ q = r \o t
      OBVIOUS
    <2>5. /\ k <= s - p /\ Len(r) + k <= 2
          /\ readBuffer' = [readBuffer EXCEPT ![c] = q] /\ pos' = [pos EXCEPT ![c] = p + k]
      BY <1>3, <2>1, <2>2, <2>4 DEF fillReadBuffer, Unread, ReadInv
    <2>6. /\ q \in Seq(Int) /\ Len(q) = Len(r) + k /\ q # Failed /\ Reads(q, p + k, s, e)
          /\ p + k \in Nat
      <3>0. k \in 0..2 /\ k <= s - p /\ Len(r) \in Nat
        BY <2>3, <2>5
      <3>1. t \in Seq(Int) /\ Len(t) = k /\ \A i \in 1..k : t[i] = p + i
        BY <2>3, <2>4
      <3>2. q = r \o t
        BY <2>4
      <3>3. /\ q \in Seq(Int) /\ Len(q) = Len(r) + k
            /\ \A i \in 1..Len(r) : q[i] = r[i]
            /\ \A i \in 1..k : q[Len(r) + i] = t[i]
        BY <3>0, <3>1, <3>2, <2>3
      <3>4. /\ p \in 0..s /\ e \in 0..p /\ Len(r) = p - e
            /\ \A i \in 1..Len(r) : r[i] = e + i
        BY <2>3 DEF Reads
      <3>5. ASSUME NEW i \in 1..Len(q) PROVE q[i] = e + i
        <4>1. CASE i <= Len(r)
          BY <4>1, <3>0, <3>3, <3>4
        <4>2. CASE i > Len(r)
          <5>1. i - Len(r) \in 1..k /\ i = Len(r) + (i - Len(r))
            BY <4>2, <3>0, <3>3
          <5>2. q[i] = t[i - Len(r)]
            BY <5>1, <3>3
          <5>. QED
            BY <5>1, <5>2, <3>0, <3>1, <3>4, <2>3
        <4>. QED
          BY <4>1, <4>2, <3>0, <3>3
      <3>6. q # Failed
        <4>1. Len(Failed) = 1 /\ Failed[1] = -128
          BY DEF Failed
        <4>2. Len(q) = 1 => q[1] = e + 1
          BY <3>5
        <4>. QED
          BY <4>1, <4>2, <2>3
      <3>7. p + k \in 0..s /\ e \in 0..(p + k) /\ Len(q) = (p + k) - e /\ Len(q) <= 2
        BY <3>0, <3>3, <3>4, <2>3, <2>5
      <3>8. Reads(q, p + k, s, e)
        BY <3>5, <3>6, <3>7, Zenon DEF Reads
      <3>. QED
        BY <3>3, <3>6, <3>7, <3>8, <2>3
    <2>7. size' = [size EXCEPT ![c] = s] /\ expect' = [expect EXCEPT ![c] = e]
      BY <1>3, <2>1, <2>2 DEF ReadInv
    <2>8. readBuffer'[c] = q /\ pos'[c] = p + k /\ size'[c] = s
      BY <2>1, <2>2, <2>5, <2>7 DEF ReadInv
    <2>9. m_eoi => p = s
      BY <1>1, <2>1, <2>2 DEF ReadInv, TalkInv
    <2>10. /\ m_eoi' => p + k = s
           /\ Len(q) = 1 => p + k = s
      <3>1. \/ m_eoi' /\ ((m_eoi /\ r # <<>>) \/ k = s - p)
            \/ ~m_eoi' /\ Len(r) + k = 2
        BY <1>3, <2>2 DEF fillReadBuffer, Unread
      <3>2. m_eoi /\ r # <<>> => k = 0
        BY <1>3, <2>2 DEF fillReadBuffer
      <3>. QED
        BY <3>1, <3>2, <2>3, <2>6, <2>9
    <2>11. TalkInv'
      BY <1>1, <1>3, <2>1, <2>6, <2>8, <2>10 DEF TalkInv
    <2>. QED
      BY <2>1, <2>3, <2>5, <2>6, <2>7, <2>11, OneChannelReads
  <1>. QED
    BY <1>2, <1>3 DEF canRead

\* read() on plain values.
LEMMA TakenOne ==
    ASSUME NEW r \in Seq(Int), NEW p \in Nat, NEW s \in Nat, NEW e \in Nat,
           Reads(r, p, s, e), r # Failed, r # <<>>
    PROVE  Tail(r) \in Seq(Int) /\ Reads(Tail(r), p, s, e + 1)
  <1>1. /\ Len(r) \in Nat /\ Len(r) >= 1
        /\ Tail(r) \in Seq(Int) /\ Len(Tail(r)) = Len(r) - 1
        /\ \A i \in 1..(Len(r) - 1) : Tail(r)[i] = r[i + 1]
    OBVIOUS
  <1>2. /\ p \in 0..s /\ e \in 0..p /\ Len(r) = p - e /\ Len(r) <= 2
        /\ \A i \in 1..Len(r) : r[i] = e + i
    BY DEF Reads
  <1>3. \A i \in 1..Len(Tail(r)) : Tail(r)[i] = (e + 1) + i
    BY <1>1, <1>2
  <1>4. e + 1 \in 0..p /\ Len(Tail(r)) = p - (e + 1) /\ Len(Tail(r)) <= 2
    BY <1>1, <1>2
  <1>5. Tail(r) # Failed
    <2>1. PICK t : t = Tail(r)
      OBVIOUS
    <2>2. t \in Seq(Int) /\ \A i \in 1..Len(t) : t[i] = (e + 1) + i
      BY <1>1, <1>3, <2>1
    <2>3. Len(Failed) = 1 /\ Failed[1] = -128
      BY DEF Failed
    <2>4. Len(t) = 1 => t[1] = (e + 1) + 1
      BY <2>2
    <2>5. t # Failed
      BY <2>3, <2>4
    <2>. QED
      BY <2>1, <2>5
  <1>. QED
    BY <1>1, <1>2, <1>3, <1>4, <1>5, Zenon DEF Reads

LEMMA ReadReads ==
    ASSUME Served, HostType, AccountInv, ReadInv, read
    PROVE  ReadInv'
  <1>. DEFINE c == m_channel
  <1>1. /\ host.role = "talk" /\ can = "yes" /\ c \in Data /\ can' = "ask"
        /\ readBuffer' = [readBuffer EXCEPT ![c] = Tail(readBuffer[c])]
        /\ expect' = [expect EXCEPT ![c] = expect[c] + 1]
        /\ UNCHANGED <<m_channel, m_eoi, pos, size, host>>
    BY DEF read, device
  <1>2. readBuffer[c] # Failed /\ readBuffer[c] # <<>>
    BY <1>1 DEF ReadInv, TalkInv
  <1>3. PICK r, p, s, e : r = readBuffer[c] /\ p = pos[c] /\ s = size[c] /\ e = expect[c]
    OBVIOUS
  <1>4. /\ r \in Seq(Int) /\ p \in Nat /\ s \in Nat /\ s \in 0..MaxFileLen /\ e \in Nat
        /\ Reads(r, p, s, e)
    BY <1>1, <1>3, ReadsOfChannel, BoundsAssumption DEF ReadInv
  <1>5. Tail(r) \in Seq(Int) /\ Reads(Tail(r), p, s, e + 1) /\ e + 1 \in Nat
    BY <1>2, <1>3, <1>4, TakenOne
  <1>6. pos' = [pos EXCEPT ![c] = p] /\ size' = [size EXCEPT ![c] = s]
    BY <1>1, <1>3 DEF ReadInv
  <1>7. TalkInv'
    BY <1>1 DEF ReadInv, TalkInv
  <1>8. /\ readBuffer' = [readBuffer EXCEPT ![c] = Tail(r)]
        /\ expect' = [expect EXCEPT ![c] = e + 1]
    BY <1>1, <1>3
  <1>9. PICK t, f : t = Tail(r) /\ f = e + 1
    OBVIOUS
  <1>10. /\ t \in Seq(Int) /\ f \in Nat /\ Reads(t, p, s, f)
         /\ readBuffer' = [readBuffer EXCEPT ![c] = t] /\ expect' = [expect EXCEPT ![c] = f]
    BY <1>5, <1>8, <1>9
  <1>. QED
    BY <1>1, <1>4, <1>6, <1>7, <1>10, OneChannelReads, Zenon

LEMMA ReadStep ==
    Served /\ HostType /\ ServedInv /\ AccountInv /\ ReadInv /\ [Next]_vars => ReadInv'
  <1>. SUFFICES ASSUME Served, HostType, ServedInv, AccountInv, ReadInv, [Next]_vars
                PROVE  ReadInv'
    OBVIOUS
  <1>1. ASSUME UNCHANGED reading, host'.role # "talk" PROVE ReadInv'
    BY <1>1, OthersRead DEF TalkInv
  <1>2. CASE \E kind \in {"OPEN", "CLOSE", "DATA"}, ch \in Data \cup {15} : listen(kind, ch)
    BY <1>1, <1>2 DEF listen
  <1>3. CASE unlisten \/ untalk \/ TalkStolen
    BY <1>1, <1>3 DEF unlisten, untalk, TalkStolen, Idle
  <1>4. CASE \E kind \in {"CLOSE", "DATA"}, ch \in Data \cup {15} : talk(kind, ch)
    <2>1. UNCHANGED reading /\ m_eoi' = FALSE /\ can' = "ask"
      BY <1>4 DEF talk
    <2>. QED
      BY <2>1, OthersRead DEF TalkInv
  <1>5. CASE TransferFails
    <2>1. UNCHANGED <<reading, host, m_channel, m_eoi>> /\ can' = "no"
      BY <1>5 DEF TransferFails, device
    <2>. QED
      BY <2>1, OthersRead DEF ReadInv, TalkInv, reading
  <1>6. CASE UNCHANGED <<device, reading, can, host>>
    BY <1>6, OthersRead DEF ReadInv, TalkInv, reading, device
  <1>7. CASE task
    BY <1>6, <1>7, FileTaskReads DEF task
  <1>8. CASE fileTaskInCallback
    BY <1>8 DEF fileTaskInCallback, Served
  <1>9. CASE canWriteFull \/ canWrite
    BY <1>1, <1>9 DEF canWriteFull, canWrite, AskedToWrite
  <1>10. CASE \E eoi \in BOOLEAN : write(eoi)
    <2>1. UNCHANGED reading
      BY <1>10 DEF write
    <2>. QED
      BY <1>1, <1>10, <2>1, WriteHost
  <1>11. CASE canRead
    BY <1>11, CanReadReads
  <1>12. CASE read
    BY <1>12, ReadReads
  <1>13. CASE reset
    <2>1. /\ readBuffer' = [c \in Data |-> <<>>] /\ host'.role = "idle"
          /\ pos' = [c \in Data |-> 0] /\ size' = [c \in Data |-> 0]
          /\ expect' = [c \in Data |-> 0]
      BY <1>13 DEF reset, Idle
    <2>. QED
      BY <2>1, FreshReads, BoundsAssumption DEF ReadInv, TalkInv, ChannelReads, Reads
  <1>. QED
    BY <1>2, <1>3, <1>4, <1>5, <1>6, <1>7, <1>8, <1>9, <1>10, <1>11, <1>12, <1>13 DEF Next, vars

\* The flags no other invariant speaks of.
FlagType == can \in {"ask", "yes", "no"} /\ ran \in BOOLEAN /\ wrong \in BOOLEAN

LEMMA FlagStep == FlagType /\ [Next]_vars => FlagType'
  <1>. SUFFICES ASSUME FlagType, [Next]_vars PROVE FlagType'
    OBVIOUS
  <1>. USE DEF FlagType, history, device
  <1>1. CASE (\E kind \in {"OPEN", "CLOSE", "DATA"}, ch \in Data \cup {15} : listen(kind, ch))
             \/ \E kind \in {"CLOSE", "DATA"}, ch \in Data \cup {15} : talk(kind, ch)
    BY <1>1 DEF listen, talk
  <1>2. CASE unlisten \/ untalk \/ TalkStolen \/ TransferFails \/ reset
    BY <1>2 DEF unlisten, untalk, TalkStolen, TransferFails, reset
  <1>3. ASSUME NEW r, fileTask(r) PROVE can' = can /\ wrong' \in BOOLEAN
    BY <1>3 DEF fileTask, fileTaskOpen, fileTaskClose, fileTaskWrite, fileTaskExec, Give, Mistake
  <1>4. CASE task \/ fileTaskInCallback
    BY <1>3, <1>4 DEF task, fileTaskInCallback
  <1>5. CASE canWriteFull
    BY <1>5 DEF canWriteFull, Give, Mistake
  <1>6. CASE canWrite \/ canRead
    BY <1>6 DEF canWrite, canRead
  <1>7. CASE \E eoi \in BOOLEAN : write(eoi)
    BY <1>7 DEF write
  <1>8. CASE read
    <2>1. can' = "ask" /\ ran' = ran /\ wrong' \in BOOLEAN
      BY <1>8, Zenon DEF read
    <2>. QED
      BY <2>1
  <1>9. CASE UNCHANGED vars
    BY <1>9 DEF vars
  <1>. QED
    BY <1>1, <1>2, <1>4, <1>5, <1>6, <1>7, <1>8, <1>9 DEF Next

\* Everything the three theorems below follow from.
FileInv == HostType /\ FlagType /\ ServedInv /\ ReadInv /\ AccountInv

LEMMA FileInit == Init => FileInv
  <1>. SUFFICES ASSUME Init PROVE FileInv
    OBVIOUS
  <1>1. /\ host.role = "idle" /\ m_channel = NoChannel /\ m_cmd = "IFD_NONE"
        /\ m_eoi = TRUE /\ writeBuffer = <<>> /\ owed = <<>> /\ wrong = FALSE
        /\ can = "ask" /\ ran = TRUE
    BY DEF Init, Idle
  <1>2. Len(writeBuffer) = 0 /\ 0 < BufferSize /\ writeBuffer \in Seq(Bytes)
    BY <1>1, BufferSizeAssumption
  <1>3. AccountInv
    BY <1>1, <1>2 DEF AccountInv, TextInv, DataInv, CloseInv, AfterInv
  <1>4. ReadInv
    <2>1. /\ readBuffer = [c \in Data |-> <<>>] /\ pos = [c \in Data |-> 0]
          /\ size = [c \in Data |-> 0] /\ expect = [c \in Data |-> 0]
      BY DEF Init
    <2>. QED
      BY <1>1, <2>1, FreshReads, BoundsAssumption DEF ReadInv, TalkInv, ChannelReads, Reads
  <1>. QED
    BY <1>1, <1>3, <1>4, HostInit, ServedInit DEF FileInv, FlagType

LEMMA FileStep == Served /\ FileInv /\ [Next]_vars => FileInv'
  BY HostStep, FlagStep, ServedStep, ReadStep, AccountStep DEF FileInv

\* The shared write buffer never overruns IECFILEDEVICE_WRITE_BUFFER_SIZE, a
\* read buffer never holds more than its two bytes, and no file is read past
\* its end, whatever a master within Served sends (IECFileDevice.cpp:415, 430,
\* 569).
THEOREM FileDeviceTypes == ASSUME Served PROVE Spec => []TypeOK
  <1>1. FileInv /\ [Next]_vars => FileInv'
    BY FileStep
  <1>2. ASSUME FileInv PROVE TypeOK
    <2>1. m_cmd \in {"IFD_NONE", "IFD_OPEN", "IFD_CLOSE", "IFD_WRITE", "IFD_EXEC"}
      BY <1>2 DEF FileInv, AccountInv, TextInv, DataInv, CloseInv, AfterInv, HostType, Text
    <2>2. writeBuffer \in Seq(Bytes) /\ Len(writeBuffer) < BufferSize
      <3>1. writeBuffer = <<>> => Len(writeBuffer) < BufferSize
        BY BufferSizeAssumption
      <3>. QED
        BY <1>2, <3>1 DEF FileInv, AccountInv, TextInv, DataInv, CloseInv, AfterInv, HostType, Text
    <2>3. ASSUME NEW c \in Data
          PROVE  /\ readBuffer[c] # Failed => Len(readBuffer[c]) <= 2
                 /\ pos[c] \in 0..size[c] /\ size[c] \in 0..MaxFileLen /\ expect[c] \in 0..size[c]
      BY <1>2, BoundsAssumption DEF FileInv, ReadInv, ChannelReads
    <2>. QED
      BY <1>2, <2>1, <2>2, <2>3
         DEF TypeOK, FileInv, HostType, FlagType, ServedInv, OpeningInListen, AccountInv
  <1>. QED
    BY FileInit, <1>1, <1>2, PTL DEF Spec

\* The derived class is given exactly the operations the master asked for, in
\* order, on the right channel, with the right bytes and EOI, although all of
\* them pass through one command variable and one buffer; and the master reads
\* the bytes of each file in order, with EOI on the last one alone.
THEOREM DeferredInOrder == ASSUME Served PROVE Spec => []OperationsInOrder
  <1>1. FileInv /\ [Next]_vars => FileInv'
    BY FileStep
  <1>2. FileInv => OperationsInOrder
    BY DEF FileInv, AccountInv, OperationsInOrder
  <1>. QED
    BY FileInit, <1>1, <1>2, PTL DEF Spec

\* When a transaction within Served is over and task() has run, everything it
\* asked for has been carried out.
THEOREM EverythingCarriedOut == ASSUME Served PROVE Spec => []AllCarriedOut
  <1>1. FileInv /\ [Next]_vars => FileInv'
    BY FileStep
  <1>2. FileInv => AllCarriedOut
    BY CleanSlate DEF FileInv, AllCarriedOut
  <1>. QED
    BY FileInit, <1>1, <1>2, PTL DEF Spec
==============================================================================
