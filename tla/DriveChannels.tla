--------------------------- MODULE DriveChannels ---------------------------
(***************************************************************************)
(* Direct access to the blocks of a disk image (lib/device/iec/drive.cpp): *)
(* a channel opened as "#" shows one block at a time; U1/U2 and B-R/B-W    *)
(* select the block, B-P moves the pointer in it, F-P leaves the block.    *)
(*                                                                         *)
(* A byte on its way to the computer passes four layers, each with a       *)
(* position of its own: the container file (cur), the media stream (pos,   *)
(* size), the buffer of the channel handler (buf, position), and the two   *)
(* bytes IECFileDevice reads ahead (ahead).  A command moves the lower     *)
(* ones.  A byte is the offset in the image it was read from.              *)
(*                                                                         *)
(* Channels share the status and nothing else: each open builds a stream   *)
(* and a container handle.  All calls come from the bus task, one at a     *)
(* time.                                                                   *)
(***************************************************************************)
EXTENDS Naturals, Sequences, SequencesExt, FiniteSetsExt

CONSTANTS Channels,     \* secondary addresses
          Blocks,       \* blocks of the image
          BlockSize,    \* stream->block_size: 256 in the code
          BufferSize,   \* BUFFER_SIZE: two blocks in the code
          WriteSizes,   \* bytes of one PRINT#
          MaxFailures,  \* bound: commands that fail in a row on a channel
          Rules         \* what the computer's program takes care of

\* seeks:   between reading and writing it gives a block command;
\* inside:  it writes no more than the rest of the block, or of the image;
\* checks:  after a command that failed it selects a block before anything else.
ASSUME RuleAssumption == Rules \subseteq {"seeks", "inside", "checks"}
ASSUME SizeAssumption ==
    /\ {Blocks, BlockSize, BufferSize} \subseteq Nat \ {0}
    /\ WriteSizes \subseteq Nat \ {0} /\ MaxFailures \in Nat

Total == Blocks * BlockSize         \* bytes of the container
BlockNumbers == 0..(Blocks + 1)     \* blocks a command may name
Counts == 0..(BlockSize - 1)        \* byte 0 of a block, read as a count

VARIABLES handler,      \* per channel: m_channels[c] with its window
          stream,       \* per channel: the D64MStream below it
          ahead,        \* per channel: m_readBuffer of IECFileDevice
          openFailed,   \* per channel: m_readBufferLen is -128
          status,       \* m_statusCode
          count,        \* the count bytes on the disk
          place, limit, \* history: offset of the next byte, end of the window
          stale,        \* history: bytes of ahead from before the last command
          last, erred,  \* history: last transfer; commands failed in a row
          strayed,      \* history: transfers that went wrong
          refused       \* history: the block just asked for exists and was not found

impl == <<handler, stream, ahead, openFailed, status, count>>
history == <<place, limit, stale, last, erred, strayed, refused>>
vars == <<impl, history>>

NoHandler == [open |-> FALSE]
NoStream == [open |-> FALSE]

Init ==
    /\ handler = [c \in Channels |-> NoHandler]
    /\ stream = [c \in Channels |-> NoStream]
    /\ ahead = [c \in Channels |-> <<>>]
    /\ openFailed = [c \in Channels |-> FALSE]
    /\ status = "dosVersion"
    /\ count \in [0..(Blocks - 1) -> Counts]
    /\ place = [c \in Channels |-> 0] /\ limit = [c \in Channels |-> 0]
    /\ stale = [c \in Channels |-> 0]
    /\ last = [c \in Channels |-> "none"] /\ erred = [c \in Channels |-> 0]
    /\ strayed = {} /\ refused = FALSE

-----------------------------------------------------------------------------
(* The layers.                                                             *)

\* MMediaStream::read() without a selected file, asked for n bytes: at most
\* what is left up to _size and in the container.
Readable(s, n) ==
    LET window == IF s.pos < s.size THEN s.size - s.pos ELSE 0
        left == IF s.cur < Total THEN Total - s.cur ELSE 0
    IN  Min({n, window, left})

\* readBufferData(): stream and buffer after a refill.  The exit on error() is
\* not taken here: the media stream has an _error of its own, which only a file
\* that is written sets; a container that fails returns no bytes.
Refill(x) ==
    LET n == Readable(x.s, BufferSize)
    IN  [h |-> [x.h EXCEPT !.buf = [i \in 1..n |-> x.s.cur + i - 1], !.eos = (n = 0)],
         s |-> [x.s EXCEPT !.pos = @ + n, !.cur = @ + n],
         ahead |-> x.ahead]

\* iecChannelHandler::read(), asked for n bytes that join those read ahead.
Serve(x, n) ==
    LET y == IF x.h.buf = <<>> /\ ~x.h.eos THEN Refill(x) ELSE x
        k == Min({n, Len(y.h.buf)})
    IN  [h |-> [y.h EXCEPT !.buf = SubSeq(@, k + 1, Len(@)), !.position = @ + k],
         s |-> y.s,
         ahead |-> y.ahead \o SubSeq(y.h.buf, 1, k)]

\* One round of fillReadBuffer(); a read of nothing is an end of file.  Two
\* rounds fill the buffer or find the end.
FillRound(x) == IF Len(x.ahead) < 2 THEN Serve(x, 2 - Len(x.ahead)) ELSE x

\* Mutation: what the channel has buffered outlives the command.
RepositionedKeepsBuffer(h, p) == [h EXCEPT !.eos = FALSE, !.position = p]

repositioned(h, p) ==
    [h EXCEPT !.buf = <<>>, !.eos = FALSE, !.position = p]

setBlockWindow(h, base, start, len) ==
    [repositioned(h, start) EXCEPT !.window = TRUE, !.base = base, !.len = len]

\* stream->position(p) on the raw container.  If the container refuses to seek
\* the stream stays where it is.
Seek(s, p) == [s EXCEPT !.pos = p, !.cur = p]

NewHandler(full) ==
    setBlockWindow([open |-> TRUE, buf |-> <<>>, eos |-> FALSE, position |-> 0,
                    window |-> FALSE, base |-> 0, len |-> 0, full |-> full],
                   0, 0, BlockSize)

-----------------------------------------------------------------------------
(* open, close, reset.                                                     *)

\* From here on the program counts from p; what IECFileDevice has read ahead
\* is from before.
Select(c, p, end) ==
    /\ place' = [place EXCEPT ![c] = p]
    /\ stale' = [stale EXCEPT ![c] = Len(ahead'[c])]
    /\ limit' = [limit EXCEPT ![c] = end]
    /\ last' = [last EXCEPT ![c] = "none"]
    /\ erred' = [erred EXCEPT ![c] = 0]
    /\ refused' = FALSE
    /\ UNCHANGED strayed

Forget(cs) ==
    /\ handler' = [c \in Channels |-> IF c \in cs THEN NoHandler ELSE handler[c]]
    /\ stream' = [c \in Channels |-> IF c \in cs THEN NoStream ELSE stream[c]]
    /\ ahead' = [c \in Channels |-> IF c \in cs THEN <<>> ELSE ahead[c]]
    /\ openFailed' = [c \in Channels |-> openFailed[c] /\ c \notin cs]

\* OPEN c,8,c,"#"; the size of the container may stay unknown (full = 0).
OpenDirect(c, writable, full) ==
    /\ handler' = [handler EXCEPT ![c] = NewHandler(full)]
    /\ stream' = [stream EXCEPT ![c] = [open |-> TRUE, writable |-> writable,
                                        pos |-> 0, cur |-> 0, size |-> BlockSize]]
    /\ ahead' = [ahead EXCEPT ![c] = <<>>]
    /\ openFailed' = [openFailed EXCEPT ![c] = FALSE]
    /\ status' = "ok"
    /\ UNCHANGED count
    /\ Select(c, 0, BlockSize)

\* The image cannot be opened; an open channel was closed before.
OpenFails(c) ==
    /\ handler' = [handler EXCEPT ![c] = NoHandler]
    /\ stream' = [stream EXCEPT ![c] = NoStream]
    /\ ahead' = [ahead EXCEPT ![c] = <<>>]
    /\ openFailed' = [openFailed EXCEPT ![c] = TRUE]
    /\ status' = "driveNotReady"
    /\ UNCHANGED count
    /\ Select(c, 0, 0)

Close(c) ==
    /\ Forget({c})
    /\ UNCHANGED <<status, count>>
    /\ Select(c, 0, 0)

\* The I command, or RESET.
Reset ==
    /\ Forget(Channels)
    /\ status' = "dosVersion"
    /\ place' = [c \in Channels |-> 0] /\ limit' = [c \in Channels |-> 0]
    /\ stale' = [c \in Channels |-> 0]
    /\ last' = [c \in Channels |-> "none"] /\ erred' = [c \in Channels |-> 0]
    /\ refused' = FALSE
    /\ UNCHANGED <<count, strayed>>

\* getStatusData() takes the code with it.
ReadStatus ==
    /\ status # "ok"
    /\ status' = "ok"
    /\ UNCHANGED <<handler, stream, ahead, openFailed, count, history>>

-----------------------------------------------------------------------------
(* GET# and PRINT#.                                                        *)

\* GET# or PRINT# on a channel that was never opened or is closed; after an
\* OPEN that failed IECFileDevice does not ask the drive.
Unopened(c) ==
    /\ ~handler[c].open /\ ~openFailed[c]
    /\ status' = IF status = "ok" THEN "fileNotOpen" ELSE status
    /\ UNCHANGED <<handler, stream, ahead, openFailed, count, history>>

MayGet(c) ==
    /\ "seeks" \in Rules => last[c] # "write"
    /\ "checks" \in Rules => erred[c] = 0

\* canRead(): the channel after fillReadBuffer().
Filled(c) == FillRound(FillRound([h |-> handler[c], s |-> stream[c], ahead |-> ahead[c]]))

\* TALK, or the bus handler asks for one byte more than the computer takes.
Ask(c) ==
    LET x == Filled(c)
    IN  /\ handler[c].open /\ MayGet(c)
        /\ handler' = [handler EXCEPT ![c] = x.h]
        /\ stream' = [stream EXCEPT ![c] = x.s]
        /\ ahead' = [ahead EXCEPT ![c] = x.ahead]
        /\ last' = [last EXCEPT ![c] = IF x.ahead = <<>> THEN @ ELSE "read"]
        /\ UNCHANGED <<openFailed, status, count, place, limit, stale, erred, strayed, refused>>

\* TALK, one byte or none, UNTALK.
Get(c) ==
    LET x == Filled(c)
        none == x.ahead = <<>>
        old == stale[c] > 0
        right == IF none THEN place[c] >= Min({limit[c], Total})
                 ELSE old \/ (Head(x.ahead) = place[c] /\ place[c] < limit[c])
    IN  /\ handler[c].open /\ MayGet(c)
        /\ handler' = [handler EXCEPT ![c] = x.h]
        /\ stream' = [stream EXCEPT ![c] = x.s]
        /\ ahead' = [ahead EXCEPT ![c] = IF none THEN <<>> ELSE Tail(x.ahead)]
        /\ place' = [place EXCEPT ![c] = IF none \/ old THEN @ ELSE @ + 1]
        /\ stale' = [stale EXCEPT ![c] = IF old THEN @ - 1 ELSE @]
        /\ last' = [last EXCEPT ![c] = IF none THEN @ ELSE "read"]
        /\ strayed' = IF right THEN strayed ELSE strayed \cup {"read"}
        /\ UNCHANGED <<openFailed, status, count, limit, erred, refused>>

MayPut(c, n) ==
    /\ "seeks" \in Rules => last[c] # "read"
    /\ "checks" \in Rules => erred[c] = 0
    /\ "inside" \in Rules =>
          /\ place[c] + n <= Total
          /\ handler[c].window => place[c] + n <= handler[c].base + BlockSize

\* Mutation: bytes written are not counted.
WriteKeepsPosition(h, n) == [h EXCEPT !.buf = <<>>, !.eos = FALSE]

\* iecChannelHandlerFile::write() on a stream opened for writing.
WrittenThrough(h, n) ==
    [h EXCEPT !.buf = <<>>, !.eos = FALSE, !.position = @ + n]

\* LISTEN, n bytes, UNLISTEN: the bytes go to the container, past the media
\* stream, which does not count them.  Only channels opened for writing are
\* written to.
Put(c, n) ==
    /\ handler[c].open /\ MayPut(c, n)
    /\ stream[c].writable
    /\ handler' = [handler EXCEPT ![c] = WrittenThrough(@, n)]
    /\ stream' = [stream EXCEPT ![c].cur = @ + n]
    /\ \E new \in Counts :
          count' = [b \in 0..(Blocks - 1) |->
                      IF b * BlockSize \in stream[c].cur..(stream[c].cur + n - 1)
                      THEN new ELSE count[b]]
    /\ strayed' = IF stream[c].cur = place[c] THEN strayed ELSE strayed \cup {"write"}
    /\ place' = [place EXCEPT ![c] = @ + n]
    /\ last' = [last EXCEPT ![c] = "write"]
    /\ UNCHANGED <<ahead, openFailed, status, limit, stale, erred, refused>>

-----------------------------------------------------------------------------
(* Block commands: executeData(), which clears the status first.           *)

MayPoint(c) == "checks" \in Rules => erred[c] = 0

\* A command that fails with a status.
Fails(c, code) ==
    /\ erred[c] < MaxFailures
    /\ status' = code
    /\ erred' = [erred EXCEPT ![c] = @ + 1]
    /\ UNCHANGED <<ahead, openFailed, count, place, limit, stale, last, strayed>>

\* linearBlock() compares the sector with the number of sectors, so the block
\* behind the last one passes.
sectorByteOffset(b) == IF b <= Blocks THEN {b * BlockSize} ELSE {}

Exists(b) == b < Blocks

Resized(s, n) == [s EXCEPT !.size = n]      \* stream->setSize(n)

\* Mutation: the stream is not moved to the start of the window.
SelectWithoutSeek(s, start, length) == Resized(s, start + length)

\* Mutation: every window has the length of a block.
SelectPastBlock(s, start, length) == Seek(Resized(s, start + BlockSize), start)

\* The window is the size of the stream, and the stream goes to its start.
SelectWindow(s, start, length) == Seek(Resized(s, start + length), start)

\* seekChannelToBlock() succeeds.
BlockSelected(c, b, extra, length) ==
    LET base == b * BlockSize
    IN  /\ handler' = [handler EXCEPT ![c] =
                          setBlockWindow(@, base, base + extra, length)]
        /\ stream' = [stream EXCEPT ![c] = SelectWindow(@, base + extra, length)]
        /\ status' = "ok"
        /\ UNCHANGED <<ahead, openFailed, count>>
        /\ Select(c, base + extra, base + extra + length)

BlockRefused(c, b, code, s) ==
    /\ stream' = [stream EXCEPT ![c] = s]
    /\ refused' = (Exists(b) /\ code = "readError")
    /\ UNCHANGED handler
    /\ Fails(c, code)

NoChannel(c) ==
    /\ ~handler[c].open
    /\ status' = "fileNotOpen"
    /\ UNCHANGED <<handler, stream, ahead, openFailed, count, history>>

\* U1 (U2 with forWrite): the whole block.  The size is set before the seek, and
\* stays when the container refuses it.
WholeBlock(c, b, forWrite) ==
    /\ handler[c].open
    /\ \/ /\ forWrite /\ ~stream[c].writable
          /\ BlockRefused(c, b, "writeProtect", stream[c])
       \/ /\ forWrite => stream[c].writable
          /\ sectorByteOffset(b) = {}
          /\ BlockRefused(c, b, "illegalBlock", stream[c])
       \/ /\ forWrite => stream[c].writable
          /\ sectorByteOffset(b) # {}
          /\ BlockRefused(c, b, "illegalBlock", Resized(stream[c], b * BlockSize + BlockSize))
       \/ /\ forWrite => stream[c].writable
          /\ sectorByteOffset(b) # {}
          /\ BlockSelected(c, b, 0, BlockSize)

\* B-R (B-W with forWrite): byte 0 of the block is read as the number of
\* bytes that follow, through the stream and therefore within its old size.
\* The container may refuse the seek to the count or the seek behind it.
CountedBlock(c, b, forWrite) ==
    LET s == Seek(stream[c], b * BlockSize)
        n == Readable(s, 1)
    IN  /\ handler[c].open
        /\ \/ /\ forWrite /\ ~stream[c].writable
              /\ BlockRefused(c, b, "writeProtect", stream[c])
           \/ /\ forWrite => stream[c].writable     \* no such block, or no seek
              /\ BlockRefused(c, b, "illegalBlock", stream[c])
           \/ /\ forWrite => stream[c].writable
              /\ sectorByteOffset(b) # {} /\ n = 0
              /\ BlockRefused(c, b, "readError", s)
           \/ /\ forWrite => stream[c].writable
              /\ sectorByteOffset(b) # {} /\ n = 1
              /\ BlockRefused(c, b, "illegalBlock",
                              Resized(Seek(stream[c], b * BlockSize + 1),
                                      b * BlockSize + 1 + count[b]))
           \/ /\ forWrite => stream[c].writable
              /\ sectorByteOffset(b) # {} /\ n = 1
              /\ BlockSelected(c, b, 1, count[b])

\* B-P: the pointer moves in the block.
BufferPointer(c, p) ==
    LET target == handler[c].base + p
    IN  /\ handler[c].open /\ MayPoint(c)
        /\ \/ /\ Fails(c, "syntax")     \* no block, not in it, or the seek is refused
              /\ UNCHANGED <<handler, stream, refused>>
           \/ /\ handler[c].window /\ p < BlockSize
              /\ handler' = [handler EXCEPT ![c] = repositioned(@, target)]
              /\ stream' = [stream EXCEPT ![c] = Seek(@, target)]
              /\ status' = "ok"
              /\ UNCHANGED <<ahead, openFailed, count>>
              /\ Select(c, target, limit[c])

\* F-P puts the extent of the container back, if it is known.
FullExtent(h, s) == IF h.window /\ h.full > 0 THEN h.full ELSE s.size

\* F-P: the pointer goes anywhere, and the channel leaves block mode, before
\* the container is asked to seek.
FilePointer(c, p) ==
    LET h == [handler[c] EXCEPT !.window = FALSE]
        s == Resized(stream[c], FullExtent(handler[c], stream[c]))
    IN  /\ handler[c].open /\ MayPoint(c)
        /\ \/ /\ handler' = [handler EXCEPT ![c] = h]
              /\ stream' = [stream EXCEPT ![c] = s]
              /\ Fails(c, "syntax") /\ UNCHANGED refused
           \/ /\ handler' = [handler EXCEPT ![c] = repositioned(h, p)]
              /\ stream' = [stream EXCEPT ![c] = Seek(s, p)]
              /\ status' = "ok"
              /\ UNCHANGED <<ahead, openFailed, count>>
              /\ Select(c, p, IF h.full > 0 THEN Total ELSE limit[c])

Command(c) ==
    \/ \E b \in BlockNumbers, w \in BOOLEAN : WholeBlock(c, b, w) \/ CountedBlock(c, b, w)
    \/ \E p \in 0..BlockSize : BufferPointer(c, p)
    \/ \E p \in 0..(Total + 1) : FilePointer(c, p)
    \/ NoChannel(c)

Next ==
    \/ \E c \in Channels :
          \/ \E w \in BOOLEAN, full \in {0, Total} : OpenDirect(c, w, full)
          \/ OpenFails(c) \/ Close(c)
          \/ Ask(c) \/ Get(c) \/ Unopened(c)
          \/ \E n \in WriteSizes : Put(c, n)
          \/ Command(c)
    \/ Reset
    \/ ReadStatus

Spec == Init /\ [][Next]_vars

-----------------------------------------------------------------------------
(* Properties.                                                             *)

Offsets == 0..(Total + BlockSize + 1)

\* Buffers and window stay within their limits: the handler never buffers
\* more than BUFFER_SIZE, IECFileDevice never more than two bytes, and a
\* window never reaches behind its block.
TypeOK ==
    /\ \A c \in Channels :
          /\ handler[c].open = stream[c].open
          /\ handler[c].open =>
                /\ Range(handler[c].buf) \subseteq Offsets
                /\ Len(handler[c].buf) <= BufferSize
                /\ {handler[c].position, handler[c].base} \subseteq Offsets
                /\ handler[c].len \in 0..BlockSize
                /\ {stream[c].pos, stream[c].cur, stream[c].size} \subseteq Offsets
                /\ handler[c].window /\ erred[c] = 0
                      => stream[c].size <= handler[c].base + BlockSize
    /\ ahead \in [Channels -> UNION {[1..n -> Offsets] : n \in 0..2}]
    /\ count \in [0..(Blocks - 1) -> Counts]
    /\ {place[c] : c \in Channels} \cup {limit[c] : c \in Channels} \subseteq Offsets
    /\ \A c \in Channels : stale[c] \in 0..Len(ahead[c])
    /\ strayed \subseteq {"read", "write"} /\ refused \in BOOLEAN

\* After a block command GET# may still return the bytes, two at most, that
\* IECFileDevice had read ahead before it, which no layer takes back.  All that
\* follows is the byte at the pointer the command and the transfers since have
\* made: the buffer of the channel, the stream and the container have followed
\* the command (drive.cpp:1620, drive.h:88-105).  A byte is returned as long as
\* the pointer is inside the window, and nothing is returned behind it.  After
\* F-P the window is the whole image, as drive.h:127 says and the comment at
\* drive.cpp:1453-1455 does not.
ReadsInPlace == "read" \notin strayed

\* A PRINT# on a direct-access channel lands at the same pointer.
WritesInPlace == "write" \notin strayed

\* The position a channel reports is where its reader is, up to the bytes
\* IECFileDevice has read ahead since the last command, and the stream is ahead
\* of it by what the channel has buffered (drive.h:74-87).
PositionsAgree ==
    \A c \in Channels : handler[c].open =>
        LET h == handler[c]  s == stream[c]
        IN  /\ h.position = place[c] + Len(ahead[c]) - stale[c]
            /\ erred[c] = 0 => s.cur = h.position + Len(h.buf)
            /\ erred[c] = 0 /\ last[c] # "write" => s.pos = s.cur

\* A block of the image can be selected on an open channel: "B-R/U1 select the
\* block and a read runs to the end of it" (drive.h:108).
BlocksSelectable == ~refused
=============================================================================
