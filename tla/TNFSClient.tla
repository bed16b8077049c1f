----------------------------- MODULE TNFSClient -----------------------------
(***************************************************************************)
(* Files on a TNFS server (lib/TNFSlib): transactions with sequence        *)
(* numbers and retries, recovery of an expired session, and the read cache *)
(* of an open file, under the streams of lib/meatloaf/network/tnfs.cpp.    *)
(*                                                                         *)
(* One mount (tnfsMountInfo) is shared by all streams of a host.  A        *)
(* transaction holds transaction_mutex from its first send until it        *)
(* returns; the recovery of a session is a MOUNT transaction inside the    *)
(* one that needs it, so the transactions form a stack of one or two.      *)
(* Between two transactions of one operation those of another stream may   *)
(* run.                                                                    *)
(*                                                                         *)
(* The network keeps the order of messages and delays them at will.  UDP   *)
(* loses messages, and an answer reaches only the socket of the            *)
(* transaction it belongs to; TCP loses what is under way when the         *)
(* connection breaks, and is a stream of bytes without frames: one read    *)
(* may take several answers or end inside one (constant Framed).  The      *)
(* server is external: a session answers the sequence number it answered   *)
(* last with the same answer and does nothing.                             *)
(*                                                                         *)
(* Byte p of the file of stream s is its place <<s, p>> until a write.     *)
(***************************************************************************)
EXTENDS Integers, Sequences, FiniteSets, SequencesExt, FiniteSetsExt

CONSTANTS Streams,        \* TNFSMStreams, each of a file of its own
          Nobody,
          FileLen,        \* bytes of a file
          CacheSize,      \* TNFS_FILE_CACHE_SIZE
          MaxRetries,     \* TNFS_RETRIES
          SeqNumbers,     \* sequence numbers: 2^8 in the code
          MaxSlots,       \* TNFS_MAX_FILE_HANDLES
          MaxSessions,    \* sessions the server can give out
          ReadSizes,      \* bytes a client asks for at once
          MaxOps,         \* bound: operations of the streams
          MaxTrouble,     \* bound: losses, delays, refusals and expiries
          MaxExpiries,    \* bound: sessions the server forgets
          Careful,        \* assumption: after an error a client seeks before
                          \* it reads or writes; after a close that failed it
                          \* does not open again
          OpenAlone,      \* assumption: no other operation runs while a file
                          \* is opened
          Framed          \* assumption: a read of the TCP connection ends
                          \* where an answer ends

ASSUME SizeAssumption ==
    /\ {FileLen, CacheSize, MaxRetries, SeqNumbers, MaxSlots, MaxSessions} \subseteq Nat \ {0}
    /\ {MaxOps, MaxTrouble, MaxExpiries} \subseteq Nat
    /\ ReadSizes \subseteq Nat \ {0}
    /\ Nobody \notin Streams /\ {Careful, OpenAlone, Framed} \subseteq BOOLEAN

VARIABLES protocol, connected,  \* m_info->protocol; TNFSMSession::connected
          session, seq,         \* m_info->session, ->current_sequence_num
          slots,                \* m_info->_file_handles
          stack,                \* running transactions, outermost first
          op, stream,           \* per stream: operation under way; stream
          toServer, toClient,   \* messages under way
          server, content,      \* the server's sessions and files
          ops, trouble, expiries,
          allowed               \* history: what each byte may be

client == <<protocol, connected, session, seq, slots, stack, op, stream>>
net == <<toServer, toClient>>
vars == <<client, net, server, content, ops, trouble, expiries, allowed>>

NoSession == 0                  \* TNFS_INVALID_SESSION
NoHandle == -1                  \* TNFS_INVALID_HANDLE
Handles == 0..(MaxSlots - 1)
Places == 1..FileLen
Written(n) == <<Nobody, n>>     \* the byte written by operation n
Bytes == (Streams \X Places) \cup {Written(n) : n \in 1..MaxOps}
NoInfo == [owner |-> Nobody]
NewInfo(s) == [owner |-> s, handle |-> 0, file_position |-> 0, cached_pos |-> 0,
               file_size |-> 0, cache_start |-> 0, cache |-> <<>>]
NoOp == [kind |-> "none", pc |-> "none", slot |-> 0, want |-> 0, got |-> <<>>,
         buf |-> <<>>]
Closed == [handle |-> NoHandle, position |-> 0, failed |-> FALSE]
NoFd == [stream |-> Nobody]

Init ==
    /\ protocol = "unknown" /\ connected = FALSE
    /\ session = NoSession /\ seq = 0
    /\ slots = [i \in 1..MaxSlots |-> NoInfo]
    /\ stack = <<>>
    /\ op = [s \in Streams |-> NoOp] /\ stream = [s \in Streams |-> Closed]
    /\ toServer = <<>> /\ toClient = <<>>
    /\ server = <<>>
    /\ content = [s \in Streams |-> [p \in Places |-> <<s, p>>]]
    /\ ops = 0 /\ trouble = 0 /\ expiries = 0
    /\ allowed = [s \in Streams |-> [p \in Places |-> {<<s, p>>}]]

-----------------------------------------------------------------------------
(* The server (external).                                                  *)

\* An answer: a result code, with a number (session, handle) or with bytes.
Answer(result, num, data) == [result |-> result, num |-> num, data |-> data]
Code(result) == Answer(result, 0, <<>>)

\* What a session makes of a request: the answer, its new file descriptors,
\* and the files.
Execute(ses, m) ==
    LET free == {h \in Handles : ses.fd[h] = NoFd}
        f == ses.fd[m.handle]
        give == {p \in Places : f.pos < p /\ p <= f.pos + m.arg}
        same == [answer |-> Code("ok"), fd |-> ses.fd, content |-> content]
    IN  CASE m.cmd = "STAT" -> same
          [] m.cmd = "OPEN" /\ free = {} -> [same EXCEPT !.answer = Code("error")]
          [] m.cmd = "OPEN" /\ free # {} ->
               [same EXCEPT !.answer = Answer("ok", Min(free), <<>>),
                            !.fd[Min(free)] = [stream |-> m.owner, pos |-> 0]]
          [] m.cmd \in {"READ", "LSEEK", "WRITE", "CLOSE"} /\ f = NoFd ->
               [same EXCEPT !.answer = Code("badFile")]
          [] m.cmd = "READ" /\ f # NoFd /\ give = {} ->
               [same EXCEPT !.answer = Code("eof")]
          [] m.cmd = "READ" /\ f # NoFd /\ give # {} ->
               [same EXCEPT
                  !.answer = Answer("ok", 0, [i \in 1..Cardinality(give) |->
                                                content[f.stream][f.pos + i]]),
                  !.fd[m.handle].pos = @ + Cardinality(give)]
          [] m.cmd = "LSEEK" /\ f # NoFd -> [same EXCEPT !.fd[m.handle].pos = m.arg]
          [] m.cmd = "WRITE" /\ f # NoFd ->
               [same EXCEPT
                  !.fd[m.handle].pos = @ + 1,
                  !.content[f.stream] = [p \in Places |->
                      IF p = f.pos + 1 THEN Written(m.arg) ELSE @[p]]]
          [] m.cmd = "CLOSE" /\ f # NoFd -> [same EXCEPT !.fd[m.handle] = NoFd]

\* A datagram for a socket that was closed goes nowhere.
Reply(m, a) ==
    toClient' = IF m.sock = 0 THEN toClient
                ELSE Append(toClient, [sock |-> m.sock, seq |-> m.seq, answer |-> a])

\* The server answers the first request under way.
Serve ==
    LET m == Head(toServer)
        new == Len(server) + 1
        ses == server[m.session]
        known == m.session \in DOMAIN server /\ ses.live
        done == Execute(ses, m)
    IN  /\ toServer # <<>>
        /\ toServer' = Tail(toServer)
        /\ \/ /\ m.cmd = "MOUNT" /\ new <= MaxSessions
              /\ server' = Append(server,
                              [live |-> TRUE, last |-> m.seq, answer |-> Answer("ok", new, <<>>),
                               fd |-> [h \in Handles |-> NoFd]])
              /\ Reply(m, Answer("ok", new, <<>>))
              /\ UNCHANGED content
           \/ /\ m.cmd = "MOUNT" /\ new > MaxSessions
              /\ Reply(m, Code("error"))
              /\ UNCHANGED <<server, content>>
           \/ /\ m.cmd # "MOUNT" /\ ~known
              /\ Reply(m, Code("invalidSession"))
              /\ UNCHANGED <<server, content>>
           \/ /\ m.cmd # "MOUNT" /\ known
              /\ ses.last = m.seq
              /\ Reply(m, ses.answer)
              /\ UNCHANGED <<server, content>>
           \/ /\ m.cmd # "MOUNT" /\ known
              /\ ses.last # m.seq
              /\ Reply(m, done.answer)
              /\ content' = done.content
              /\ server' = [server EXCEPT ![m.session] =
                              [live |-> TRUE, last |-> m.seq, answer |-> done.answer,
                               fd |-> done.fd]]
        /\ UNCHANGED <<client, ops, trouble, expiries, allowed>>

\* The server is busy and asks to try again later (EAGAIN).
Refuse ==
    /\ toServer # <<>> /\ trouble < MaxTrouble
    /\ toServer' = Tail(toServer)
    /\ Reply(Head(toServer), Code("tryAgain"))
    /\ trouble' = trouble + 1
    /\ UNCHANGED <<client, server, content, ops, expiries, allowed>>

\* The server restarts, or the session was silent for too long.
Expire ==
    /\ expiries < MaxExpiries
    /\ \E k \in DOMAIN server :
          server[k].live /\ server' = [server EXCEPT ![k].live = FALSE]
    /\ expiries' = expiries + 1
    /\ UNCHANGED <<client, net, content, ops, trouble, allowed>>

\* UDP loses a message, a TCP connection breaks.
Lose ==
    /\ trouble < MaxTrouble
    /\ trouble' = trouble + 1
    /\ \/ /\ protocol = "udp" /\ toServer # <<>>
          /\ toServer' = Tail(toServer) /\ UNCHANGED toClient
       \/ /\ protocol = "udp" /\ toClient # <<>>
          /\ toClient' = Tail(toClient) /\ UNCHANGED toServer
       \/ /\ protocol # "udp" /\ toServer \o toClient # <<>>
          /\ toServer' = <<>> /\ toClient' = <<>>
    /\ UNCHANGED <<client, server, content, ops, expiries, allowed>>

-----------------------------------------------------------------------------
(* Transactions: _tnfs_transaction().                                      *)

Top == stack[Len(stack)]
SetTop(t) == stack' = [stack EXCEPT ![Len(stack)] = t]

Transaction(cmd, s, handle, arg, ses) ==
    [cmd |-> cmd, owner |-> s, handle |-> handle, arg |-> arg, session |-> ses,
     seq |-> seq, retry |-> 0, pc |-> "send", answer |-> Code("none")]

\* The sequence number is taken once, before the retries.
NextSeq == seq' = (seq + 1) % SeqNumbers

Return(t, a) == SetTop([t EXCEPT !.pc = "done", !.answer = a])

\* case FAILED: count the attempt, give up after the last one.
Failed(t) ==
    IF t.retry + 1 < MaxRetries
    THEN SetTop([t EXCEPT !.retry = @ + 1, !.pc = "send"])
    ELSE Return(t, Code("failed"))

\* Mutation: every attempt takes a sequence number of its own.
SendNumbersAttempts ==
    /\ stack # <<>> /\ Top.pc = "send"
    /\ protocol' \in IF protocol = "unknown" THEN {"unknown", "udp"} ELSE {protocol}
    /\ toServer' = Append(toServer,
                     [cmd |-> Top.cmd, owner |-> Top.owner, handle |-> Top.handle,
                      arg |-> Top.arg, session |-> Top.session, seq |-> seq,
                      sock |-> Len(stack)])
    /\ SetTop([Top EXCEPT !.pc = "wait", !.seq = seq])
    /\ NextSeq
    /\ UNCHANGED <<connected, session, slots, op, stream, toClient, server,
                   content, ops, trouble, expiries, allowed>>

\* _tnfs_send(): without a transport yet, TCP is tried first, and UDP when no
\* connection can be made.
Send ==
    /\ stack # <<>> /\ Top.pc = "send"
    /\ protocol' \in IF protocol = "unknown" THEN {"unknown", "udp"} ELSE {protocol}
    /\ toServer' = Append(toServer,
                     [cmd |-> Top.cmd, owner |-> Top.owner, handle |-> Top.handle,
                      arg |-> Top.arg, session |-> Top.session, seq |-> Top.seq,
                      sock |-> Len(stack)])
    /\ SetTop([Top EXCEPT !.pc = "wait"])
    /\ UNCHANGED <<connected, session, seq, slots, op, stream, toClient, server,
                   content, ops, trouble, expiries, allowed>>

\* What a piece of an answer is taken for: the bytes where the header should
\* be are a sequence number and a result of their own.
Torn ==
    [sock : {1}, seq : 0..(SeqNumbers - 1),
     answer : {Code(r) : r \in {"ok", "error", "tryAgain", "invalidSession"}}
              \cup {Answer("ok", 0, <<b>>) : b \in Bytes}]

\* A read of the connection that ends inside answer k; the first answer is
\* whole unless it is the one that is cut.
Cut(k) ==
    {[m |-> p, rest |-> <<q>> \o SubSeq(toClient, k + 1, Len(toClient))] :
        p \in (IF k = 1 THEN Torn ELSE {toClient[1]}), q \in Torn}

\* _tnfs_recv(): the next packet of the transaction's socket; or what one read
\* of the connection returns, of which only the first answer is looked at.
Receivable ==
    LET mine == {i \in DOMAIN toClient : toClient[i].sock = Len(stack)}
        whole == {[m |-> toClient[1], rest |-> SubSeq(toClient, k + 1, Len(toClient))] :
                     k \in DOMAIN toClient}
    IN  IF protocol = "udp"
        THEN {[m |-> toClient[i], rest |-> RemoveAt(toClient, i)] :
                 i \in {i \in mine : \A j \in mine : i <= j}}
        ELSE IF Framed THEN whole
        ELSE whole \cup UNION {Cut(k) : k \in DOMAIN toClient}

\* Mutation: any answer is taken for the answer to this request.
ValidateAnySeq ==
    /\ stack # <<>> /\ Top.pc = "wait"
    /\ \E got \in Receivable :
          /\ toClient' = got.rest
          /\ protocol' = IF protocol = "unknown" THEN "tcp" ELSE protocol
          /\ Return(Top, got.m.answer)
    /\ UNCHANGED <<connected, session, seq, slots, op, stream, toServer, server,
                   content, ops, trouble, expiries, allowed>>

\* _tnfs_recv_and_validate(): an answer with another sequence number is
\* dropped, TRY_AGAIN counts as a failed attempt, and an invalid session is
\* mounted again before anything else.
Validate ==
    /\ stack # <<>> /\ Top.pc = "wait"
    /\ \E got \in Receivable : LET m == got.m IN
          /\ toClient' = got.rest
          /\ protocol' = IF protocol = "unknown" THEN "tcp" ELSE protocol
          /\ \/ m.seq # Top.seq /\ UNCHANGED <<stack, session, seq>>
             \/ /\ m.seq = Top.seq /\ m.answer.result = "tryAgain"
                /\ Failed(Top) /\ UNCHANGED <<session, seq>>
             \/ /\ m.seq = Top.seq
                /\ m.answer.result = "invalidSession" /\ Top.cmd # "MOUNT"
                /\ session' = NoSession
                /\ stack' = Append([stack EXCEPT ![1].pc = "recover"],
                                   Transaction("MOUNT", Nobody, 0, 0, NoSession))
                /\ NextSeq
             \/ /\ m.seq = Top.seq
                /\ m.answer.result \notin {"tryAgain", "invalidSession"}
                /\ Return(Top, m.answer) /\ UNCHANGED <<session, seq>>
    /\ UNCHANGED <<connected, slots, op, stream, toServer, server, content, ops,
                   trouble, expiries, allowed>>

\* The socket of the transaction at depth d is closed with it.
CloseSocket(d) ==
    /\ toServer' = [i \in DOMAIN toServer |->
                      IF toServer[i].sock = d THEN [toServer[i] EXCEPT !.sock = 0]
                      ELSE toServer[i]]
    /\ toClient' = SelectSeq(toClient, LAMBDA m : m.sock # d)

\* No answer within timeout_ms.  With no transport chosen yet the server is
\* taken for one without TCP, and the attempt does not count.
Timeout ==
    LET underWay == \/ \E m \in ToSet(toServer) : m.sock = Len(stack) /\ m.seq = Top.seq
                    \/ \E m \in ToSet(toClient) : m.sock = Len(stack) /\ m.seq = Top.seq
    IN  /\ stack # <<>> /\ Top.pc = "wait"
        /\ underWay => trouble < MaxTrouble
        /\ trouble' = IF underWay THEN trouble + 1 ELSE trouble
        /\ IF protocol = "unknown"
           THEN /\ protocol' = "udp"
                /\ SetTop([Top EXCEPT !.retry = 0, !.pc = "send"])
                /\ CloseSocket(Len(stack))
           ELSE Failed(Top) /\ UNCHANGED <<protocol, net>>
        /\ UNCHANGED <<connected, session, seq, slots, op, stream, server, content,
                       ops, expiries, allowed>>

\* Commands that need no handle and are sent again in the new session.
Repeatable == {"STAT", "OPEN"}

\* _tnfs_session_recovery(): tnfs_mount() has returned.
Recovered ==
    LET a == Top.answer
        ok == a.result = "ok"
        outer == stack[1]
    IN  /\ Len(stack) = 2 /\ Top.pc = "done"
        /\ session' = IF ok THEN a.num ELSE NoSession
        /\ stack' = << IF ok /\ outer.cmd \in Repeatable
                       THEN [outer EXCEPT !.session = a.num, !.retry = 0, !.pc = "send"]
                       ELSE [outer EXCEPT !.pc = "done", !.answer =
                               Code(IF ok THEN "badFile" ELSE "invalidSession")] >>
        /\ IF protocol = "udp" THEN CloseSocket(2) ELSE UNCHANGED net
        /\ UNCHANGED <<protocol, connected, seq, slots, op, stream, server, content,
                       ops, trouble, expiries, allowed>>

\* TNFSMSession::connect(): tnfs_mount().
Connect ==
    /\ ~connected /\ stack = <<>> /\ ops < MaxOps
    /\ ops' = ops + 1
    /\ stack' = <<Transaction("MOUNT", Nobody, 0, 0, NoSession)>>
    /\ NextSeq
    /\ UNCHANGED <<protocol, connected, session, slots, op, stream, net, server,
                   content, trouble, expiries, allowed>>

\* The transaction cmd of stream s has returned; the lock is released.
Done(cmd, s) ==
    /\ Len(stack) = 1 /\ Top.pc = "done" /\ Top.cmd = cmd /\ Top.owner = s
    /\ stack' = <<>>
    /\ IF protocol = "udp" THEN CloseSocket(1) ELSE UNCHANGED net
    /\ UNCHANGED <<protocol, seq, server, content, ops, trouble, expiries>>

Ok == Top.answer.result = "ok"

Connected ==
    /\ Done("MOUNT", Nobody)
    /\ connected' = Ok
    /\ session' = IF Ok THEN Top.answer.num ELSE session
    /\ UNCHANGED <<slots, op, stream, allowed>>

-----------------------------------------------------------------------------
(* Operations of a stream.                                                 *)

Info(s) == slots[op[s].slot]
SetInfo(s, info) == slots' = [slots EXCEPT ![op[s].slot] = info]
SetOp(s, o) == op' = [op EXCEPT ![s] = o]
Fail(s) == stream' = [stream EXCEPT ![s].failed = TRUE]

\* get_filehandleinfo(): the first slot with the handle.
Found(h) == {i \in 1..MaxSlots : slots[i] # NoInfo /\ slots[i].handle = h}

\* Mutation: the table is searched for an entry in use, not for the number.
FirstUsed(s) == Min({i \in 1..MaxSlots : slots[i] # NoInfo})

FirstFound(s) == Min(Found(stream[s].handle))

MayStart(s) ==
    /\ connected /\ op[s] = NoOp /\ ops < MaxOps
    /\ OpenAlone => \A r \in Streams : op[r].kind # "open"
    /\ ops' = ops + 1
    /\ UNCHANGED <<protocol, connected, session, seq, stack, net, server, content,
                   trouble, expiries>>

MayUse(s) ==
    /\ MayStart(s)
    /\ stream[s].handle # NoHandle /\ Found(stream[s].handle) # {}

\* tnfs_open(): a slot is taken, with handle 0 until the server gives one.
tnfs_open(s) ==
    LET free == {i \in 1..MaxSlots : slots[i] = NoInfo}
    IN  /\ MayStart(s)
        /\ stream[s].handle = NoHandle /\ free # {}
        /\ Careful => ~stream[s].failed
        /\ OpenAlone => \A r \in Streams : op[r] = NoOp
        /\ slots' = [slots EXCEPT ![Min(free)] = NewInfo(s)]
        /\ SetOp(s, [NoOp EXCEPT !.kind = "open", !.pc = "STAT", !.slot = Min(free)])
        /\ UNCHANGED <<stream, allowed>>

tnfs_read(s, n) ==
    /\ MayUse(s)
    /\ Careful => ~stream[s].failed
    /\ SetOp(s, [NoOp EXCEPT !.kind = "read", !.pc = "cache", !.slot = FirstFound(s),
                             !.want = n])
    /\ UNCHANGED <<slots, stream, allowed>>

\* tnfs_lseek(): within the cache only the client's position moves.
tnfs_lseek(s, p) ==
    LET i == FirstFound(s)
        first == slots[i].cache_start
    IN  /\ MayUse(s)
        /\ IF p \in first..(first + Len(slots[i].cache) - 1)
           THEN /\ slots' = [slots EXCEPT ![i].cached_pos = p]
                /\ stream' = [stream EXCEPT ![s].position = p, ![s].failed = FALSE]
                /\ UNCHANGED op
           ELSE /\ slots' = [slots EXCEPT ![i].cache = <<>>]
                /\ SetOp(s, [NoOp EXCEPT !.kind = "seek", !.pc = "LSEEK", !.slot = i,
                                         !.want = p])
                /\ UNCHANGED stream
        /\ UNCHANGED allowed

\* Mutation: the cache survives the write.
WriteKeepsCache(s) ==
    LET i == FirstFound(s)
    IN  /\ MayUse(s)
        /\ Careful => ~stream[s].failed
        /\ slots[i].cached_pos < FileLen
        /\ SetOp(s, [NoOp EXCEPT !.kind = "write", !.slot = i, !.want = ops + 1,
               !.pc = IF slots[i].cached_pos # slots[i].file_position
                      THEN "LSEEK" ELSE "WRITE"])
        /\ allowed' = [allowed EXCEPT ![s][stream[s].position + 1] = @ \cup {Written(ops + 1)}]
        /\ UNCHANGED <<slots, stream>>

\* tnfs_write(): the cache is dropped; the server is moved to the client's
\* position first.  The value written is the number of the operation.
tnfs_write(s) ==
    LET i == FirstFound(s)
    IN  /\ MayUse(s)
        /\ Careful => ~stream[s].failed
        /\ slots[i].cached_pos < FileLen
        /\ slots' = [slots EXCEPT ![i].cache = <<>>]
        /\ SetOp(s, [NoOp EXCEPT !.kind = "write", !.slot = i, !.want = ops + 1,
               !.pc = IF slots[i].cached_pos # slots[i].file_position
                      THEN "LSEEK" ELSE "WRITE"])
        /\ allowed' = [allowed EXCEPT ![s][stream[s].position + 1] = @ \cup {Written(ops + 1)}]
        /\ UNCHANGED stream

tnfs_close(s) ==
    /\ MayUse(s)
    /\ SetOp(s, [NoOp EXCEPT !.kind = "close", !.pc = "CLOSE", !.slot = FirstFound(s)])
    /\ UNCHANGED <<slots, stream, allowed>>

\* The operation of s gets the lock and starts its next transaction.
Begin(s) ==
    LET o == op[s]
        arg == CASE o.pc = "READ" -> CacheSize - Len(o.buf)
                 [] o.pc = "LSEEK" -> IF o.kind = "write" THEN Info(s).cached_pos ELSE o.want
                 [] o.pc = "WRITE" -> o.want
                 [] OTHER -> 0
    IN  /\ stack = <<>> /\ o.pc \in {"STAT", "OPEN", "READ", "LSEEK", "WRITE", "CLOSE"}
        /\ stack' = <<Transaction(o.pc, s, Info(s).handle, arg, session)>>
        /\ NextSeq
        /\ SetOp(s, [o EXCEPT !.pc = "busy"])
        /\ UNCHANGED <<protocol, connected, session, slots, stream, net, server,
                       content, ops, trouble, expiries, allowed>>

\* tnfs_open(): the size is known.
StatDone(s) ==
    /\ Done("STAT", s)
    /\ SetInfo(s, IF Ok THEN [Info(s) EXCEPT !.file_size = FileLen] ELSE NoInfo)
    /\ SetOp(s, IF Ok THEN [op[s] EXCEPT !.pc = "OPEN"] ELSE NoOp)
    /\ UNCHANGED <<connected, session, stream, allowed>>

OpenDone(s) ==
    /\ Done("OPEN", s)
    /\ SetInfo(s, IF Ok THEN [Info(s) EXCEPT !.handle = Top.answer.num] ELSE NoInfo)
    /\ stream' = IF Ok THEN [stream EXCEPT ![s] = [Closed EXCEPT !.handle = Top.answer.num]]
                 ELSE stream
    /\ SetOp(s, NoOp)
    /\ UNCHANGED <<connected, session, allowed>>

\* _tnfs_read_from_cache(), and the start of _tnfs_fill_cache() when the cache
\* does not hold all that is wanted.
ReadFromCache(s) ==
    LET o == op[s]
        i == Info(s)
        last == i.cache_start + Len(i.cache)
        n == IF i.cached_pos \in i.cache_start..(last - 1)
             THEN Min({o.want - Len(o.got), last - i.cached_pos}) ELSE 0
        give == SubSeq(i.cache, i.cached_pos - i.cache_start + 1,
                       i.cached_pos - i.cache_start + n)
        got == o.got \o give
    IN  /\ o.pc = "cache"
        /\ Len(o.got) < o.want /\ i.cached_pos < i.file_size
        /\ IF Len(got) = o.want
           THEN /\ SetInfo(s, [i EXCEPT !.cached_pos = @ + n])
                /\ SetOp(s, [o EXCEPT !.got = got])
           ELSE /\ SetInfo(s, [i EXCEPT !.cached_pos = @ + n, !.cache = <<>>,
                                        !.cache_start = i.file_position])
                /\ SetOp(s, [o EXCEPT !.got = got, !.buf = <<>>, !.pc = "READ"])
        /\ UNCHANGED <<protocol, connected, session, seq, stack, stream, net, server,
                       content, ops, trouble, expiries, allowed>>

\* Mutation: the position advances by what was asked for.
ReadCountsRequested(s) ==
    LET o == op[s]
        a == Top.answer
        info == [Info(s) EXCEPT !.file_position = @ + CacheSize - Len(o.buf)]
    IN  /\ Done("READ", s)
        /\ IF Ok \/ a.result = "eof"
           THEN /\ SetInfo(s, [info EXCEPT !.cache = o.buf \o a.data])
                /\ SetOp(s, [o EXCEPT !.buf = <<>>, !.pc = "cache"])
                /\ UNCHANGED stream
           ELSE SetOp(s, NoOp) /\ Fail(s) /\ UNCHANGED slots
        /\ UNCHANGED <<connected, session, allowed>>

\* Mutation: the end of the file does not end the filling.
ReadOnAtEnd(s) ==
    LET o == op[s]
        a == Top.answer
        buf == o.buf \o a.data
        info == [Info(s) EXCEPT !.file_position = @ + Len(a.data)]
    IN  /\ Done("READ", s)
        /\ IF Ok \/ a.result = "eof"
           THEN /\ SetInfo(s, IF Len(buf) < CacheSize THEN info ELSE [info EXCEPT !.cache = buf])
                /\ SetOp(s, [o EXCEPT !.buf = buf,
                                !.pc = IF Len(buf) < CacheSize THEN "READ" ELSE "cache"])
                /\ UNCHANGED stream
           ELSE SetOp(s, NoOp) /\ Fail(s) /\ UNCHANGED slots
        /\ UNCHANGED <<connected, session, allowed>>

\* _tnfs_fill_cache(): READs until the cache is full or the file ends.
ReadDone(s) ==
    LET o == op[s]
        a == Top.answer
        buf == IF Ok THEN o.buf \o a.data ELSE o.buf
        more == Ok /\ Len(buf) < CacheSize
        info == [Info(s) EXCEPT !.file_position = @ + Len(buf) - Len(o.buf)]
    IN  /\ Done("READ", s)
        /\ IF Ok \/ a.result = "eof"
           THEN /\ SetInfo(s, IF more THEN info ELSE [info EXCEPT !.cache = buf])
                /\ SetOp(s, [o EXCEPT !.buf = IF more THEN buf ELSE <<>>,
                                      !.pc = IF more THEN "READ" ELSE "cache"])
                /\ UNCHANGED stream
           ELSE SetOp(s, NoOp) /\ Fail(s) /\ UNCHANGED slots
        /\ UNCHANGED <<connected, session, allowed>>

\* tnfs_read() returns: all that was wanted, or what there is before the end.
ReadReturns(s) ==
    LET o == op[s]
    IN  /\ o.pc = "cache"
        /\ Len(o.got) = o.want \/ Info(s).cached_pos >= Info(s).file_size
        /\ stream' = [stream EXCEPT ![s].position = @ + Len(o.got)]
        /\ SetOp(s, NoOp)
        /\ UNCHANGED <<protocol, connected, session, seq, slots, stack, net, server,
                       content, ops, trouble, expiries, allowed>>

SeekDone(s) ==
    LET p == IF op[s].kind = "write" THEN Info(s).cached_pos ELSE op[s].want
    IN  /\ Done("LSEEK", s)
        /\ IF Ok THEN SetInfo(s, [Info(s) EXCEPT !.file_position = p, !.cached_pos = p])
           ELSE UNCHANGED slots
        /\ \/ /\ ~Ok
              /\ SetOp(s, NoOp) /\ Fail(s)
           \/ /\ Ok /\ op[s].kind = "write"
              /\ SetOp(s, [op[s] EXCEPT !.pc = "WRITE"]) /\ UNCHANGED stream
           \/ /\ Ok /\ op[s].kind = "seek"
              /\ SetOp(s, NoOp)
              /\ stream' = [stream EXCEPT ![s].position = p, ![s].failed = FALSE]
        /\ UNCHANGED <<connected, session, allowed>>

WriteDone(s) ==
    LET p == Info(s).file_position + 1
    IN  /\ Done("WRITE", s)
        /\ SetOp(s, NoOp)
        /\ IF Ok
           THEN /\ SetInfo(s, [Info(s) EXCEPT !.file_position = p, !.cached_pos = p])
                /\ stream' = [stream EXCEPT ![s].position = @ + 1]
                /\ allowed' = [allowed EXCEPT ![s][stream[s].position + 1] =
                                {Written(op[s].want)}]
           ELSE Fail(s) /\ UNCHANGED <<slots, allowed>>
        /\ UNCHANGED <<connected, session>>

\* tnfs_close(): without an answer the slot stays; the stream forgets its
\* handle in any case.
CloseDone(s) ==
    LET lost == Top.answer.result = "failed"
    IN  /\ Done("CLOSE", s)
        /\ SetInfo(s, IF lost THEN Info(s) ELSE NoInfo)
        /\ stream' = [stream EXCEPT ![s] = [Closed EXCEPT !.failed = lost]]
        /\ SetOp(s, NoOp)
        /\ UNCHANGED <<connected, session, allowed>>

-----------------------------------------------------------------------------
Start(s) ==
    \/ tnfs_open(s) \/ tnfs_write(s) \/ tnfs_close(s)
    \/ \E n \in ReadSizes : tnfs_read(s, n)
    \/ \E p \in 0..(FileLen - 1) : tnfs_lseek(s, p)

Continue(s) ==
    \/ Begin(s) \/ StatDone(s) \/ OpenDone(s) \/ ReadFromCache(s) \/ ReadDone(s)
    \/ ReadReturns(s) \/ SeekDone(s) \/ WriteDone(s) \/ CloseDone(s)

Transact == Send \/ Validate \/ Timeout \/ Recovered \/ Connected

Network == Serve \/ Refuse \/ Expire \/ Lose

Next ==
    \/ Connect \/ Transact \/ Network
    \/ \E s \in Streams : Start(s) \/ Continue(s)

Spec == Init /\ [][Next]_vars

\* The tasks of the streams run, waits end, and a message that is not lost is
\* answered.
FairSpec ==
    /\ Spec
    /\ WF_vars(Transact) /\ WF_vars(Serve)
    /\ \A s \in Streams : WF_vars(Continue(s))

-----------------------------------------------------------------------------
(* Properties.                                                             *)

\* The members of the mount and of the handle table stay in range: no position
\* passes the end of the file, the cache never holds more than its size.
TypeOK ==
    /\ protocol \in {"unknown", "tcp", "udp"} /\ connected \in BOOLEAN
    /\ session \in 0..MaxSessions /\ seq \in 0..(SeqNumbers - 1)
    /\ \A i \in 1..MaxSlots :
          \/ slots[i] = NoInfo
          \/ /\ slots[i].owner \in Streams /\ slots[i].handle \in Handles
             /\ {slots[i].file_position, slots[i].cached_pos, slots[i].cache_start}
                   \subseteq 0..FileLen
             /\ Len(slots[i].cache) <= CacheSize /\ ToSet(slots[i].cache) \subseteq Bytes
    /\ Len(stack) \in 0..2
    /\ \A i \in DOMAIN stack : stack[i].retry \in 0..(MaxRetries - 1)
    /\ \A s \in Streams :
          /\ stream[s].handle \in Handles \cup {NoHandle} /\ stream[s].position \in 0..FileLen
          /\ Len(op[s].got) <= op[s].want /\ Len(op[s].buf) <= CacheSize
    /\ Len(server) <= MaxSessions

\* What a stream is given is what its own file holds at the stream's position,
\* whatever was lost, late, sent twice or refused, and although the position
\* is kept three times: by the stream, by the cache and by the server.  Over
\* TCP this needs Framed: two answers of 519 bytes, after a READ was repeated,
\* do not fit into one read of 532, and the tail of the second is file data
\* that the next read takes for a packet (tnfslib.cpp:1407-1419, 1564-1568).
ReadsTrue ==
    \A s \in Streams : \A i \in DOMAIN op[s].got :
        op[s].got[i] = content[s][stream[s].position + i]

\* A write lands once, at the stream's position: every byte of a file is the
\* last one written there with success, or one written there later whose
\* answer never came.  Over TCP it needs Framed as well: the tail of an answer
\* can be taken for the server's word that a byte was written.
WritesLand ==
    \A s \in Streams : \A p \in Places : content[s][p] \in allowed[s][p]

\* Every operation returns: retries, refusals, fallbacks and recoveries end.
\* Careful is needed here too: a READ that fails half way through a fill leaves
\* file_position ahead of cached_pos, and a tnfs_read() without a seek between
\* fills the cache from there, finds cached_pos below it, and fills again for
\* ever (tnfslib.cpp:484-529).
Returns == \A s \in Streams : op[s] # NoOp ~> op[s] = NoOp
=============================================================================
