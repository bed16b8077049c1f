------------------------------ MODULE D64Image ------------------------------
(***************************************************************************)
(* Files inside a writable disk image: the write engine of D64MStream      *)
(* (lib/meatloaf/media/disk/d64.cpp) under the channels of a drive.        *)
(*                                                                         *)
(* Every channel has a D64MStream and a container handle of its own        *)
(* (MFile::getSourceStream builds both for each open); a scratch or a      *)
(* recovery uses a short-lived one, the handle Shell.  Handlers of the     *)
(* drive run one at a time on the bus task, so between the handlers of one *)
(* channel those of another may run, never inside one.  (The console's rm, *)
(* mv and cp and WebDAV's DELETE write images from other tasks and take no *)
(* lock; they are left out.)  A handler is a sequence of container writes; *)
(* each of them is a step here, so that a write may fail and power may be  *)
(* cut at each.                                                            *)
(*                                                                         *)
(* The image is the set of blocks the allocation map (BAM) shows free and  *)
(* the contents of the blocks.  A block of a file is the number of the     *)
(* save, its position and the link to the next block; a directory sector   *)
(* is its link and its slots.  Geometry and the order in which             *)
(* findFreeBlock prefers blocks are left open: any free block of the right *)
(* kind may be found, and none only when none is free.                     *)
(***************************************************************************)
EXTENDS Naturals, Sequences, FiniteSets, SequencesExt, FiniteSetsExt

CONSTANTS Channels,         \* channels opened for writing
          Shell,            \* the handle a scratch or a recovery opens
          Names,            \* file names
          Nobody,           \* no name, no save
          Tracks, Sectors,  \* geometry: tracks 1..Tracks, sectors 0..Sectors-1
          DirTrack,         \* the dedicated directory track
          SlotsPerSector,   \* entries in a directory sector (8 in the code)
          MaxBlocks,        \* bound: blocks of one file
          MaxSaves,         \* bound: saves in a behaviour
          MaxTrouble,       \* bound: failing container writes and power cuts
          FaultPoints,      \* the handler's steps whose write may fail, and
          CutPoints,        \* those before which power may be cut: see below
          BufferedHandles,  \* the containers considered: do handles buffer?
          OneAtATime        \* assumption: clients leave a buffered image with
                            \* an open channel alone

\* The steps of the handlers.  The code does not survive trouble at each, so
\* what the properties say is said for troubles at the points a run names:
\*  - power cut at "free", "clear": a file in the directory with freed blocks;
\*  - power cut or failing write at "newEntry" (d64.cpp:900): the directory
\*    has been linked to the new sector at 866 and ends in one that was never
\*    written; rollbackFileWrite() at 902 does not undo the link;
\*  - failing write at "clear" (d64.cpp:1471 ignores it): as for the cut;
\*  - failing write at "link" (d64.cpp:777): the block claimed at 765 is not in
\*    create_allocated yet and stays allocated;
\*  - failing write at "free", "rollback", "undoDir", "reclaim", "restore":
\*    blocks stay allocated without a file.
Points == {"idle", "free", "clear", "begin", "next", "link", "last", "slot",
           "extend", "dirLink", "undoDir", "entry", "newEntry", "rollback",
           "reclaim", "restore"}

ASSUME GeometryAssumption ==
    /\ Tracks \in Nat \ {0} /\ Sectors \in Nat \ {0, 1}
    /\ DirTrack \in 1..Tracks /\ DirTrack # 75      \* see Unformatted
    /\ SlotsPerSector \in Nat \ {0}
ASSUME BoundAssumption ==
    MaxBlocks \in Nat \ {0} /\ MaxSaves \in Nat /\ MaxTrouble \in Nat
ASSUME HandleAssumption ==
    /\ Shell \notin Channels /\ Nobody \notin Names
    /\ FaultPoints \subseteq Points /\ CutPoints \subseteq Points
    /\ BufferedHandles \subseteq BOOLEAN /\ OneAtATime \in BOOLEAN
\* Nobody is told from the saves of the abstract store, see StoreSaving.
ASSUME NobodyAssumption ==
    Nobody \notin [name : Names, data : Seq((1..MaxSaves) \X (1..MaxBlocks))]

Block == (1..Tracks) \X (0..(Sectors - 1))
End == <<0, 0>>                     \* link track 0: the last block of a chain
Unformatted == <<75, 1>>            \* the fill pattern 0x4B 0x01 as a link
System == <<DirTrack, 0>>           \* header and BAM sector
FirstDir == <<DirTrack, 1>>         \* first directory sector
FileBlocks == {b \in Block : b[1] # DirTrack}
DirBlocks == {b \in Block : b[1] = DirTrack}
Slots == DirBlocks \X (1..SlotsPerSector)
NoSlot == <<End, 0>>
Handles == Channels \cup {Shell}
Links == Block \cup {End, Unformatted}

Entries == [live : BOOLEAN, name : Names \cup {Nobody},
            start : Block \cup {End}, blocks : 0..MaxBlocks]
NeverUsed == [live |-> FALSE, name |-> Nobody, start |-> End, blocks |-> 0]

Contents ==
    [kind : {"fill"}]
    \cup [kind : {"file"}, id : 1..MaxSaves, index : 1..MaxBlocks]
    \cup [kind : {"dir"}, slots : [1..SlotsPerSector -> Entries]]

EmptyDir == [kind |-> "dir", slots |-> [i \in 1..SlotsPerSector |-> NeverUsed]]

VARIABLES image,        \* [free, next, data]: the image file
          pend,         \* per handle: the write its FILE buffer still holds
          buffered,     \* whether this container's handles buffer
          stream,       \* per channel: its D64MStream
          task,         \* the handler that is running
          saves,        \* saves begun, the number of the latest
          trouble,      \* writes failed and power cuts so far
          lost,         \* history: blocks a power cut took from an open save
          acked         \* history: saves closed without error, not scratched

vars == <<image, pend, buffered, stream, task, saves, trouble, lost, acked>>

NoStream == [open |-> FALSE, creating |-> FALSE, error |-> FALSE,
             name |-> Nobody, id |-> 0, held |-> <<>>]
Idle == [pc |-> "idle", h |-> Shell, todo |-> <<>>, slot |-> NoSlot,
         new |-> End, then |-> "return"]

\* formatImage(): every block free but the BAM sector and the first directory
\* sector, every directory slot unused.
Init ==
    /\ image = [free |-> Block \ {System, FirstDir},
                next |-> [b \in Links |->
                            IF b \in Block \ {FirstDir} THEN Unformatted ELSE End],
                data |-> [b \in Block |->
                            IF b = FirstDir THEN EmptyDir ELSE [kind |-> "fill"]]]
    /\ pend = [h \in Handles |-> <<>>]
    /\ buffered \in BufferedHandles
    /\ stream = [c \in Channels |-> NoStream]
    /\ task = Idle
    /\ saves = 0 /\ trouble = 0
    /\ lost = {} /\ acked = {}

-----------------------------------------------------------------------------
(* The container.                                                          *)

\* A write is the BAM record of a track or a block.
Record(img, track) == {b \in img.free : b[1] = track}

Apply(img, w) ==
    IF w.kind = "bam"
    THEN [img EXCEPT !.free = {b \in @ : b[1] # w.track} \cup w.free]
    ELSE [img EXCEPT !.next[w.block] = w.next, !.data[w.block] = w.content]

\* A buffer holds one write at most.
ApplyAll(img, ws) == IF ws = <<>> THEN img ELSE Apply(img, ws[1])

\* Every read and write of a stream starts with a seek, and fseek writes the
\* handle's buffer out: what handle h sees.
Seen(h) == ApplyAll(image, pend[h])

\* The image as it is between handlers, once a handle that holds a write has
\* written it out.  A directory sector that is linked and not yet written does
\* not count: its handler will write it next.
Visible ==
    LET holding == {h \in Handles : pend[h] # <<>>}
        img == IF holding = {} THEN image ELSE Seen(CHOOSE h \in holding : TRUE)
    IN  IF task.pc # "newEntry" THEN img
        ELSE [img EXCEPT !.next = [b \in Links |-> IF @[b] = task.new THEN End ELSE @[b]]]

\* The running handler's next write may fail here.
Outcomes ==
    IF task.pc \in FaultPoints /\ trouble < MaxTrouble /\ ~buffered
    THEN BOOLEAN ELSE {TRUE}

\* writeContainer(): the writes ws (none or one) of handle h, failing unless
\* ok; a closing handle writes its buffer out.
Put(h, ws, ok, closing) ==
    LET done == IF ok THEN ws ELSE <<>>
        keep == buffered /\ ~closing
    IN  /\ image' = IF keep THEN Seen(h) ELSE ApplyAll(Seen(h), done)
        /\ pend' = [pend EXCEPT ![h] = IF keep THEN done ELSE <<>>]
        /\ trouble' = IF ok THEN trouble ELSE trouble + 1

BlockWrite(b, next, content) ==
    <<[kind |-> "block", block |-> b, next |-> next, content |-> content, at |-> task.pc]>>

BamWrite(track, free) ==
    <<[kind |-> "bam", track |-> track, free |-> free, at |-> task.pc]>>

\* Mutation: the bit is tested and left as it is.
AllocateWriteUnmarked(img, b) == BamWrite(b[1], Record(img, b[1]))

\* setBlockAllocation(): the track's record with the bit of b changed; a block
\* that is in the wanted state already is not written.
AllocateWrite(img, b) == BamWrite(b[1], Record(img, b[1]) \ {b})

DeallocateWrite(img, b) ==
    IF b \in img.free THEN <<>> ELSE BamWrite(b[1], Record(img, b[1]) \cup {b})

-----------------------------------------------------------------------------
(* Chains and the directory.                                               *)

\* The blocks met from b on, following links while they name blocks.  A
\* cyclic chain is cut after more steps than there are blocks.
ChainFrom(img, b) ==
    LET walk[met \in Seq(Block) \ {<<>>}] ==
            IF Len(met) <= Tracks * Sectors /\ img.next[met[Len(met)]] \in Block
            THEN walk[Append(met, img.next[met[Len(met)]])]
            ELSE met
    IN  walk[<<b>>]

Ends(img, chain) == chain # <<>> /\ img.next[Last(chain)] = End

DirChain(img) == ChainFrom(img, FirstDir)

\* The slots in the order seekEntry() visits them.
SlotOrder(img) ==
    LET chain == DirChain(img)
    IN  [i \in 1..(Len(chain) * SlotsPerSector) |->
            <<chain[((i - 1) \div SlotsPerSector) + 1],
              ((i - 1) % SlotsPerSector) + 1>>]

EntryAt(img, slot) == img.data[slot[1]].slots[slot[2]]

\* The first slot that satisfies P, or NoSlot.
FirstSlot(img, P(_)) ==
    LET order == SlotOrder(img)
        hits == {i \in DOMAIN order : P(EntryAt(img, order[i]))}
    IN  IF hits = {} THEN NoSlot ELSE order[Min(hits)]

SeekEntry(img, n) == FirstSlot(img, LAMBDA e : e.live /\ e.name = n)
SeekScratchedEntry(img, n) == FirstSlot(img, LAMBDA e : ~e.live /\ e.name = n)

\* Write a directory sector back with entry e in the slot.
SlotWrite(img, slot, e) ==
    BlockWrite(slot[1], img.next[slot[1]],
               [img.data[slot[1]] EXCEPT !.slots[slot[2]] = e])

\* findFreeBlock(): file data never goes on the directory track, directory
\* sectors never leave it.
FreeFor(img, directory) ==
    img.free \cap (IF directory THEN DirBlocks ELSE FileBlocks)

-----------------------------------------------------------------------------
(* Starting a handler.                                                     *)

\* A client may open, scratch or recover something with handle h.
MayUse(h) ==
    /\ task.pc = "idle"
    /\ buffered /\ OneAtATime => \A c \in Channels \ {h} : ~stream[c].open

Opened(n) == [NoStream EXCEPT !.open = TRUE, !.name = n, !.id = saves + 1]

\* seekPath() for a name that does not exist: beginFileWrite().
OpenNew(c, n) ==
    /\ MayUse(c) /\ ~stream[c].open /\ saves < MaxSaves
    /\ SeekEntry(image, n) = NoSlot
    /\ saves' = saves + 1
    /\ stream' = [stream EXCEPT ![c] = Opened(n)]
    /\ task' = [Idle EXCEPT !.pc = "begin", !.h = c]
    /\ UNCHANGED <<image, pend, buffered, trouble, lost, acked>>

\* SAVE"@:file": seekPath() scratches the file and begins a new one.  Without
\* "@" the drive refuses a name that exists and nothing happens.
OpenReplace(c, n) ==
    /\ MayUse(c) /\ ~stream[c].open /\ saves < MaxSaves
    /\ LET slot == SeekEntry(image, n)
           chain == ChainFrom(image, EntryAt(image, slot).start)
       IN  /\ slot # NoSlot
           /\ task' = [Idle EXCEPT !.pc = "free", !.h = c, !.slot = slot,
                                   !.todo = chain, !.then = "begin"]
           /\ acked' = acked \ {image.data[chain[1]].id}
    /\ saves' = saves + 1
    /\ stream' = [stream EXCEPT ![c] = Opened(n)]
    /\ UNCHANGED <<image, pend, buffered, trouble, lost>>

\* writeFileNew(): more data comes and the block being filled is full.
WriteFull(c) ==
    /\ task.pc = "idle"
    /\ stream[c].creating /\ ~stream[c].error /\ Len(stream[c].held) < MaxBlocks
    /\ task' = [Idle EXCEPT !.pc = "next", !.h = c]
    /\ UNCHANGED <<image, pend, buffered, stream, saves, trouble, lost, acked>>

\* close() of a channel with a save under way: finalizeFileWrite().
CloseSaving(c) ==
    /\ task.pc = "idle"
    /\ stream[c].open /\ stream[c].creating /\ ~stream[c].error
    /\ stream' = [stream EXCEPT ![c].creating = FALSE]
    /\ task' = [Idle EXCEPT !.pc = "last", !.h = c, !.then = "close"]
    /\ UNCHANGED <<image, pend, buffered, saves, trouble, lost, acked>>

\* close() after an error: there is nothing to finish.
CloseFailed(c) ==
    /\ task.pc = "idle"
    /\ stream[c].open /\ (stream[c].error \/ ~stream[c].creating)
    /\ Put(c, <<>>, TRUE, TRUE)
    /\ stream' = [stream EXCEPT ![c] = NoStream]
    /\ UNCHANGED <<buffered, task, saves, lost, acked>>

\* D64MFile::remove(): removeFile(), scratchEntry().
Scratch(n) ==
    /\ MayUse(Shell)
    /\ LET slot == SeekEntry(image, n)
           chain == ChainFrom(image, EntryAt(image, slot).start)
       IN  /\ slot # NoSlot
           /\ task' = [Idle EXCEPT !.pc = "free", !.slot = slot, !.todo = chain]
           /\ acked' = acked \ {image.data[chain[1]].id}
    /\ UNCHANGED <<image, pend, buffered, stream, saves, trouble, lost>>

\* Pass 1 of unscratchEntry(): the chain ends, within two blocks of what the
\* entry recorded, and every block of it is free now.
Recoverable(img, slot) ==
    LET e == EntryAt(img, slot)
        chain == ChainFrom(img, e.start)
    IN  /\ Ends(img, chain)
        /\ Len(chain) <= e.blocks + 2
        /\ Range(chain) \subseteq img.free

\* Mutation: the entry is restored without its blocks.
UnscratchEntryOnly(n) ==
    /\ MayUse(Shell)
    /\ LET slot == SeekScratchedEntry(image, n)
       IN  /\ slot # NoSlot
           /\ Recoverable(image, slot)
           /\ task' = [Idle EXCEPT !.pc = "restore", !.slot = slot]
    /\ UNCHANGED <<image, pend, buffered, stream, saves, trouble, lost, acked>>

\* unremoveFile(): a recovery that pass 1 refuses changes nothing.
Unscratch(n) ==
    /\ MayUse(Shell)
    /\ LET slot == SeekScratchedEntry(image, n)
       IN  /\ slot # NoSlot
           /\ Recoverable(image, slot)
           /\ task' = [Idle EXCEPT !.pc = "reclaim", !.slot = slot,
                         !.todo = ChainFrom(image, EntryAt(image, slot).start)]
    /\ UNCHANGED <<image, pend, buffered, stream, saves, trouble, lost, acked>>

-----------------------------------------------------------------------------
(* The writes of the handlers.                                             *)

At(pc) == task.pc = pc
Goto(pc) == task' = [task EXCEPT !.pc = pc]

\* rollbackFileWrite() after the error of channel c: what remains to be freed.
Undo(c) ==
    /\ task' = [task EXCEPT !.pc = "rollback", !.todo = stream[c].held]
    /\ stream' = [stream EXCEPT ![c].error = TRUE, ![c].creating = FALSE]

\* beginFileWrite(): claim the first block; without one the stream stays open
\* as a carrier of the error.
Begin ==
    LET c == task.h
        img == Seen(c)
    IN  /\ At("begin")
        /\ \/ \E b \in FreeFor(img, FALSE), ok \in Outcomes :
                 /\ Put(c, AllocateWrite(img, b), ok, FALSE)
                 /\ stream' = IF ok
                       THEN [stream EXCEPT ![c].creating = TRUE, ![c].held = <<b>>]
                       ELSE [stream EXCEPT ![c].error = TRUE]
           \/ /\ FreeFor(img, FALSE) = {}
              /\ Put(c, <<>>, TRUE, FALSE)
              /\ stream' = [stream EXCEPT ![c].error = TRUE]
        /\ task' = Idle
        /\ UNCHANGED <<buffered, saves, lost, acked>>

\* writeFileNew(): claim the block the full one will link to.
NextBlock ==
    LET c == task.h
        img == Seen(c)
    IN  /\ At("next")
        /\ \/ \E b \in FreeFor(img, FALSE) :
                 /\ Put(c, AllocateWrite(img, b), TRUE, FALSE)
                 /\ task' = [task EXCEPT !.pc = "link", !.new = b]
                 /\ UNCHANGED stream
           \/ /\ FreeFor(img, FALSE) = {}
              /\ Put(c, <<>>, TRUE, FALSE)
              /\ Undo(c)
           \/ \E ok \in Outcomes \ {TRUE} : Put(c, <<>>, ok, FALSE) /\ Undo(c)
        /\ UNCHANGED <<buffered, saves, lost, acked>>

\* Mutation: blocks counted from one too many.
FileBlockOffByOne(c, next) ==
    BlockWrite(Last(stream[c].held), next,
               [kind |-> "file", id |-> stream[c].id, index |-> Len(stream[c].held) + 1])

\* Write the block being filled, number Len(held) of the save, linked to next.
FileBlock(c, next) ==
    BlockWrite(Last(stream[c].held), next,
               [kind |-> "file", id |-> stream[c].id, index |-> Len(stream[c].held)])

\* Mutation: the full block is written without its link.
LinkBlockUnlinked ==
    LET c == task.h
    IN  /\ At("link")
        /\ \E ok \in Outcomes :
              /\ Put(c, FileBlock(c, End), ok, FALSE)
              /\ IF ok
                 THEN /\ stream' = [stream EXCEPT ![c].held = Append(@, task.new)]
                      /\ task' = Idle
                 ELSE Undo(c)
        /\ UNCHANGED <<buffered, saves, lost, acked>>

\* writeFileNew(): write the full block with its link.  When that fails the
\* block just claimed is not in create_allocated yet.
LinkBlock ==
    LET c == task.h
    IN  /\ At("link")
        /\ \E ok \in Outcomes :
              /\ Put(c, FileBlock(c, task.new), ok, FALSE)
              /\ IF ok
                 THEN /\ stream' = [stream EXCEPT ![c].held = Append(@, task.new)]
                      /\ task' = Idle
                 ELSE Undo(c)
        /\ UNCHANGED <<buffered, saves, lost, acked>>

\* finalizeFileWrite(): the last block, then the search for a slot.
LastBlock ==
    LET c == task.h
    IN  /\ At("last")
        /\ \E ok \in Outcomes :
              /\ Put(c, FileBlock(c, End), ok, FALSE)
              /\ IF ok THEN Goto("slot") /\ UNCHANGED stream ELSE Undo(c)
        /\ UNCHANGED <<buffered, saves, lost, acked>>

\* Mutation: the type byte of the slot is not looked at.
FindFirstSlot ==
    LET c == task.h
        slot == FirstSlot(Seen(c), LAMBDA e : TRUE)
    IN  /\ At("slot")
        /\ Put(c, <<>>, TRUE, FALSE)
        /\ task' = [task EXCEPT !.pc = "entry", !.slot = slot]
        /\ UNCHANGED <<buffered, stream, saves, lost, acked>>

\* finalizeFileWrite(): the first slot that holds no file, scratched or never
\* used; without one the directory is extended.  A sector that cannot be read
\* ends the save.
FindSlot ==
    LET c == task.h
        slot == FirstSlot(Seen(c), LAMBDA e : ~e.live)
    IN  /\ At("slot")
        /\ \E ok \in Outcomes :
              /\ Put(c, <<>>, ok, FALSE)
              /\ IF ok
                 THEN /\ task' = [task EXCEPT !.slot = slot,
                                    !.pc = IF slot = NoSlot THEN "extend" ELSE "entry"]
                      /\ UNCHANGED stream
                 ELSE Undo(c)
        /\ UNCHANGED <<buffered, saves, lost, acked>>

\* finalizeFileWrite(): claim a sector for the directory.
ExtendDirectory ==
    LET c == task.h
        img == Seen(c)
    IN  /\ At("extend")
        /\ \/ \E b \in FreeFor(img, TRUE) :
                 /\ Put(c, AllocateWrite(img, b), TRUE, FALSE)
                 /\ task' = [task EXCEPT !.pc = "dirLink", !.new = b]
                 /\ UNCHANGED stream
           \/ /\ FreeFor(img, TRUE) = {}
              /\ Put(c, <<>>, TRUE, FALSE)
              /\ Undo(c)
           \/ \E ok \in Outcomes \ {TRUE} : Put(c, <<>>, ok, FALSE) /\ Undo(c)
        /\ UNCHANGED <<buffered, saves, lost, acked>>

\* finalizeFileWrite(): link the last directory sector to the new one, which
\* still holds whatever it held.
LinkDirectory ==
    LET c == task.h
        last == Last(DirChain(Seen(c)))
    IN  /\ At("dirLink")
        /\ \E ok \in Outcomes :
              /\ Put(c, BlockWrite(last, task.new, Seen(c).data[last]), ok, FALSE)
              /\ Goto(IF ok THEN "newEntry" ELSE "undoDir")
        /\ UNCHANGED <<buffered, stream, saves, lost, acked>>

\* Mutation: the sector claimed for the directory is kept.
KeepDirectoryBlock ==
    LET c == task.h
    IN  /\ At("undoDir")
        /\ Put(c, <<>>, TRUE, FALSE)
        /\ Undo(c)
        /\ UNCHANGED <<buffered, saves, lost, acked>>

\* finalizeFileWrite(): the link could not be written, free the new sector.
UndoDirectory ==
    LET c == task.h
    IN  /\ At("undoDir")
        /\ \E ok \in Outcomes : Put(c, DeallocateWrite(Seen(c), task.new), ok, FALSE)
        /\ Undo(c)
        /\ UNCHANGED <<buffered, saves, lost, acked>>

\* finalizeFileWrite(): the entry goes into its slot, or into a fresh sector
\* that ends the directory, and the channel is closed.
WriteEntry ==
    LET c == task.h
        img == Seen(c)
        held == stream[c].held
        e == [live |-> TRUE, name |-> stream[c].name, start |-> Head(held),
              blocks |-> Len(held)]
        write == IF At("entry")
                 THEN SlotWrite(img, task.slot, e)
                 ELSE BlockWrite(task.new, End, [EmptyDir EXCEPT !.slots[1] = e])
    IN  /\ At("entry") \/ At("newEntry")
        /\ \E ok \in Outcomes :
              /\ Put(c, write, ok, ok)
              /\ IF ok
                 THEN /\ stream' = [stream EXCEPT ![c] = NoStream]
                      /\ acked' = acked \cup {stream[c].id}
                      /\ task' = Idle
                 ELSE Undo(c) /\ UNCHANGED acked
        /\ UNCHANGED <<buffered, saves, lost>>

\* rollbackFileWrite(): free the blocks of the save, one after the other;
\* then writeFileNew() returns or close() closes the container.
Rollback ==
    LET c == task.h
        closing == Len(task.todo) = 1 /\ task.then = "close"
    IN  /\ At("rollback")
        /\ \E ok \in Outcomes :
              Put(c, DeallocateWrite(Seen(c), Head(task.todo)), ok, closing)
        /\ task' = IF Len(task.todo) = 1 THEN Idle
                   ELSE [task EXCEPT !.todo = Tail(@)]
        /\ stream' = IF closing THEN [stream EXCEPT ![c] = NoStream]
                     ELSE IF Len(task.todo) = 1 THEN [stream EXCEPT ![c].held = <<>>]
                     ELSE stream
        /\ UNCHANGED <<buffered, saves, lost, acked>>

\* scratchEntry(): free the blocks of the chain, whatever that returns.
FreeBlock ==
    /\ At("free")
    /\ \E ok \in Outcomes :
          Put(task.h, DeallocateWrite(Seen(task.h), Head(task.todo)), ok, FALSE)
    /\ task' = [task EXCEPT !.todo = Tail(@),
                            !.pc = IF Len(task.todo) = 1 THEN "clear" ELSE @]
    /\ UNCHANGED <<buffered, stream, saves, lost, acked>>

\* The directory sector of task.slot with the entry there marked live or not.
MarkWrite(live) ==
    SlotWrite(Seen(task.h), task.slot,
              [EntryAt(Seen(task.h), task.slot) EXCEPT !.live = live])

\* scratchEntry(): mark the entry deleted; a replacing save goes on to
\* beginFileWrite(), whatever that returned.
ClearEntry ==
    /\ At("clear")
    /\ \E ok \in Outcomes :
          Put(task.h, MarkWrite(FALSE), ok, task.then = "return")
    /\ task' = IF task.then = "return" THEN Idle
               ELSE [Idle EXCEPT !.pc = "begin", !.h = task.h]
    /\ UNCHANGED <<buffered, stream, saves, lost, acked>>

\* Pass 2 of unscratchEntry(): claim the blocks of the chain; a block that
\* cannot be claimed ends the recovery there.
Reclaim ==
    LET b == Head(task.todo)
        img == Seen(Shell)
    IN  /\ At("reclaim")
        /\ \E ok \in IF b \in img.free THEN Outcomes ELSE {FALSE} :
              /\ Put(Shell, AllocateWrite(img, b), ok, ~ok)
              /\ task' = IF ~ok THEN Idle
                         ELSE [task EXCEPT !.todo = Tail(@),
                                 !.pc = IF Len(task.todo) = 1 THEN "restore" ELSE @]
        /\ UNCHANGED <<buffered, stream, saves, lost, acked>>

\* unscratchEntry(): the entry is a closed PRG again.
RestoreEntry ==
    /\ At("restore")
    /\ \E ok \in Outcomes : Put(Shell, MarkWrite(TRUE), ok, TRUE)
    /\ task' = Idle
    /\ UNCHANGED <<buffered, stream, saves, lost, acked>>

\* The blocks claimed by what is under way, or given back in a buffer only.
Claimed ==
    {task.new} \cup (UNION {Range(stream[c].held) : c \in Channels})
    \cup (UNION {Seen(h).free : h \in Handles})
    \cup IF task.pc \in {"reclaim", "restore"}
         THEN Range(ChainFrom(image, EntryAt(image, task.slot).start)) ELSE {}

\* Power is cut: what the buffers hold and every open stream are gone.
PowerCut ==
    /\ task.pc \in CutPoints /\ trouble < MaxTrouble
    /\ \A h \in Handles : \A i \in DOMAIN pend[h] : pend[h][i].at \in CutPoints
    /\ trouble' = trouble + 1
    /\ pend' = [h \in Handles |-> <<>>]
    /\ stream' = [c \in Channels |-> NoStream]
    /\ task' = Idle
    /\ lost' = lost \cup (Claimed \cap (Block \ image.free))
    /\ UNCHANGED <<image, buffered, saves, acked>>

Step ==
    \/ Begin \/ NextBlock \/ LinkBlock \/ LastBlock \/ FindSlot
    \/ ExtendDirectory \/ LinkDirectory \/ UndoDirectory \/ WriteEntry
    \/ Rollback \/ FreeBlock \/ ClearEntry \/ Reclaim \/ RestoreEntry

Next ==
    \/ \E c \in Channels, n \in Names : OpenNew(c, n) \/ OpenReplace(c, n)
    \/ \E c \in Channels : WriteFull(c) \/ CloseSaving(c) \/ CloseFailed(c)
    \/ \E n \in Names : Scratch(n) \/ Unscratch(n)
    \/ Step
    \/ PowerCut

Spec == Init /\ [][Next]_vars

-----------------------------------------------------------------------------
(* Properties.                                                             *)

Writes ==
    [kind : {"bam"}, track : 1..Tracks, free : SUBSET Block, at : Points]
    \cup [kind : {"block"}, block : Block, next : Links, content : Contents, at : Points]

\* The image, the streams and the running handler have the shapes of
\* D64MStream's members; a file has at most MaxBlocks blocks.
TypeOK ==
    /\ image.free \subseteq Block
    /\ image.next \in [Links -> Links] /\ image.data \in [Block -> Contents]
    /\ \A h \in Handles : Len(pend[h]) <= 1 /\ \A i \in DOMAIN pend[h] : pend[h][i] \in Writes
    /\ buffered \in BOOLEAN
    /\ \A c \in Channels :
          /\ stream[c].open \in BOOLEAN /\ stream[c].creating \in BOOLEAN
          /\ stream[c].error \in BOOLEAN /\ stream[c].name \in Names \cup {Nobody}
          /\ stream[c].id \in 0..saves
          /\ Range(stream[c].held) \subseteq FileBlocks
          /\ Len(stream[c].held) <= MaxBlocks
    /\ task.pc \in Points /\ task.h \in Handles /\ Range(task.todo) \subseteq Block
    /\ task.slot \in Slots \cup {NoSlot} /\ task.new \in Block \cup {End}
    /\ task.then \in {"return", "close", "begin"}
    /\ saves \in 0..MaxSaves /\ trouble \in 0..MaxTrouble
    /\ lost \subseteq Block /\ acked \subseteq 1..saves

LiveSlots(img) == {s \in Range(SlotOrder(img)) : EntryAt(img, s).live}
FileChain(img, slot) == ChainFrom(img, EntryAt(img, slot).start)
BeingScratched(slot) == task.pc \in {"free", "clear"} /\ task.slot = slot

\* No block is part of two chains: the blocks of the files in the directory,
\* of the saves under way on all channels (create_allocated) and of the
\* directory itself are pairwise disjoint, and none is the BAM sector.
NoSharedBlock ==
    LET img == Visible
        live == LiveSlots(img)
        dir == Range(DirChain(img))
        chain(s) == Range(FileChain(img, s))
        held(c) == Range(stream[c].held)
    IN  /\ \A s, t \in live : s # t => chain(s) \cap chain(t) = {}
        /\ \A c, d \in Channels : c # d => held(c) \cap held(d) = {}
        /\ \A s \in live, c \in Channels :
              stream[c].creating => chain(s) \cap held(c) = {}
        /\ \A s \in live : (dir \cup {System}) \cap chain(s) = {}
        /\ \A c \in Channels : (dir \cup {System}) \cap held(c) = {}

\* Through failing writes at FaultPoints and power cuts at CutPoints, every
\* chain can be followed to its end and the BAM shows all its blocks allocated,
\* so that no later save is given one of them: the directory, every file in it
\* but one that is being scratched, and every save under way.  It does not
\* survive a failing write at "clear" or "newEntry" nor a cut at "free",
\* "clear" or "newEntry" (see Points), and it takes the directory as it is
\* before and after the window between d64.cpp:866 and 900 (see Visible).
ChainsAllocated ==
    LET img == Visible
    IN  /\ Ends(img, DirChain(img)) /\ Range(DirChain(img)) \cap img.free = {}
        /\ \A s \in LiveSlots(img) : ~BeingScratched(s) =>
              /\ Ends(img, FileChain(img, s))
              /\ Range(FileChain(img, s)) \cap img.free = {}
        /\ \A c \in Channels :
              stream[c].creating => Range(stream[c].held) \cap img.free = {}

\* Between handlers every allocated block belongs to something: the BAM, the
\* directory, a file, a save under way, or a save a power cut interrupted.  A
\* save that failed has given all its blocks back (rollbackFileWrite: "Free
\* every block claimed for this file", d64.cpp:914).  It holds as long as no
\* write at "free", "clear", "link", "newEntry", "rollback", "undoDir",
\* "reclaim" or "restore" fails; the one at "link" breaks the quoted words.
NoOrphans ==
    LET img == Visible
        used == {System} \cup Range(DirChain(img)) \cup lost
                \cup (UNION {Range(FileChain(img, s)) : s \in LiveSlots(img)})
                \cup (UNION {Range(stream[c].held) : c \in Channels})
    IN  task.pc = "idle" => Block \ img.free \subseteq used

\* What a reader gets through an entry.
ReadBack(img, slot) ==
    LET chain == FileChain(img, slot)
    IN  [i \in 1..Len(chain) |-> <<img.data[chain[i]].id, img.data[chain[i]].index>>]

Sent(id, n) == [i \in 1..n |-> <<id, i>>]

\* A save the drive reported as done (no status code set by the channel's
\* destructor) stays in the directory with all its blocks, through later
\* saves, failing writes and power cuts (at FaultPoints and CutPoints), until
\* somebody scratches it.
AckedOnDisk ==
    LET img == Visible
    IN  \A id \in acked : \E s \in LiveSlots(img) :
            /\ Ends(img, FileChain(img, s))
            /\ ReadBack(img, s) = Sent(id, EntryAt(img, s).blocks)

\* The state of the abstract store: a save is under way while its stream is
\* creating or being finalized.
SavingOn(c) ==
    \/ stream[c].creating
    \/ task.h = c /\ task.pc \in {"last", "slot", "extend", "dirLink", "entry", "newEntry"}

StoreFiles ==
    LET img == Visible
    IN  {[slot |-> s, name |-> EntryAt(img, s).name, data |-> ReadBack(img, s)] :
            s \in LiveSlots(img)}

StoreSaving ==
    [c \in Channels |->
        IF SavingOn(c) THEN [name |-> stream[c].name,
                             data |-> Sent(stream[c].id, Len(stream[c].held))]
        ELSE Nobody]

Store == INSTANCE FileStore WITH
            Data <- (1..MaxSaves) \X (1..MaxBlocks), Nothing <- Nobody,
            files <- StoreFiles, saving <- StoreSaving

\* The image implements a store of whole files: blocks, BAM and directory
\* sectors never show through, whatever fails at FaultPoints and wherever in
\* CutPoints power is cut.
ImplementsFileStore == Store!Spec
=============================================================================
