--------------------------- MODULE D64ImageProofs ---------------------------
(***************************************************************************)
(* Proofs about D64Image for any channels, names and geometry: no block    *)
(* belongs to two files, every chain ends and is allocated, and what was   *)
(* saved stays.                                                            *)
(***************************************************************************)
EXTENDS D64StepProofs

-----------------------------------------------------------------------------
(* Starting a handler without an open, closing, and the power cut.         *)

\* removeFile(): a handler without a channel starts.
StartingAside(img, strm, tsk) ==
    tsk.pc \in {"idle", "free", "reclaim"} /\ Unclaimed(img, strm, Extra(img, tsk))

LEMMA AsideStarts ==
    ASSUME NEW img, NEW strm, NEW tsk, NEW done, NEW n, Good(img, strm, tsk, done, n),
           tsk.pc = "idle", NEW tsk2, StartingAside(img, strm, tsk2)
    PROVE  Started(img, strm, tsk2, n)
  <1>. USE DEF StartingAside
  <1>1. /\ strm \in [Channels -> Streams(n)] /\ StreamsOK(strm, tsk, n) /\ Apart(img, strm, tsk)
        /\ (\A d \in Channels : SaveOK(img, strm[d])) /\ (\A d \in Channels : ~Busied(tsk, d))
    BY Aside
  <1>2. \A d \in Channels : ~Busied(tsk2, d)
    BY DEF Busied, Finalizing, RollingBack, Finishing
  <1>3. StreamsOK(strm, tsk2, n)
    BY <1>1, <1>2, SameStreams
  <1>4. SavesOK(img, strm, tsk2)
    BY <1>1 DEF SavesOK, Finishing
  <1>5. Fewer(strm, strm) /\ SameBlocks(img, img) /\ Extra(img, tsk2) \subseteq Extra(img, tsk2)
    BY DEF Fewer, SameBlocks
  <1>6. Apart(img, strm, tsk2)
    BY <1>1, <1>5, ApartClaims
  <1>. QED
    BY <1>3, <1>4, <1>6 DEF Started

Scratches(img, s, chain, tsk, done, done2) ==
    /\ s \in Live(img) /\ chain = FileChain(img, s)
    /\ tsk = [Idle EXCEPT !.pc = "free", !.slot = s, !.todo = chain]
    /\ done2 = done \ {img.data[chain[1]].id}

LEMMA ScratchGood ==
    ASSUME NEW img, NEW strm, NEW tsk, NEW done, NEW n, Good(img, strm, tsk, done, n),
           tsk.pc = "idle", NEW tsk2, NEW s, NEW chain, NEW done2,
           Scratches(img, s, chain, tsk2, done, done2)
    PROVE  Good(img, strm, tsk2, done2, n)
  <1>. USE DEF Scratches
  <1>1. Sound(img, NoSlot, done)
    BY Aside DEF But
  <1>2. Sound(img, s, done2) /\ chain # <<>> /\ chain \in Seq(Block) /\ s \in Slots
    BY <1>1, ScratchSound
  <1>3. /\ tsk2 \in Tasks /\ tsk2.pc = "free" /\ tsk2.h = Shell /\ tsk2.slot = s
        /\ tsk2.todo = chain /\ tsk2.then = "return"
    <2>1. Idle \in Tasks /\ "free" \in Points /\ Idle.h = Shell /\ Idle.then = "return"
      BY IdleOK DEF Points
    <2>. HIDE DEF Idle
    <2>. QED
      BY <1>2, <2>1 DEF Tasks
  <1>4. But(tsk2) = s /\ Unclaimed(img, strm, Extra(img, tsk2))
    BY <1>3 DEF Extra, But, Unclaimed
  <1>5. Started(img, strm, tsk2, n)
    <2>1. StartingAside(img, strm, tsk2)
      BY <1>3, <1>4 DEF StartingAside
    <2>. QED
      BY <2>1, AsideStarts
  <1>6. WhoOK(strm, tsk2)
    BY <1>3, HandleAssumption DEF WhoOK
  <1>7. StepOK(img, strm, tsk2)
    BY <1>2, <1>3 DEF StepOK, Blocks
  <1>. QED
    BY <1>2, <1>4, <1>5, <1>6, <1>7 DEF Good, Started

\* unremoveFile() after pass 1.
LEMMA UnscratchGood ==
    ASSUME NEW img, NEW strm, NEW tsk, NEW done, NEW n, Good(img, strm, tsk, done, n),
           tsk.pc = "idle", NEW tsk2, NEW name \in Names,
           NEW s \in Places(img) \ Live(img), EntryAt(img, s).name = name, Recoverable(img, s),
           NEW chain, chain = FileChain(img, s),
           tsk2 = [Idle EXCEPT !.pc = "reclaim", !.slot = s, !.todo = chain]
    PROVE  Good(img, strm, tsk2, done, n)
  <1>1. Sound(img, NoSlot, done) /\ But(tsk) = NoSlot
    BY Aside DEF But
  <1>2. /\ LinksOK(img) /\ EntriesOK(img) /\ img \in Image /\ DirOK(img) /\ name # Nobody
    BY <1>1, HandleAssumption DEF Sound
  <1>3. EntryAt(img, s).start \in FileBlocks
    BY <1>2 DEF EntriesOK, EntryOK
  <1>4. Ends(img, chain) /\ Range(chain) \subseteq img.free /\ Blocks(img, s) = Range(chain)
    BY DEF Recoverable, FileChain, Blocks
  <1>5. chain \in Walks
    BY <1>2, <1>3, BlocksOfFile
  <1>6. chain # <<>> /\ chain \in Seq(Block)
    BY <1>5 DEF Walks
  <1>7. Injective(chain)
    <2>1. PICK b \in Block : b = EntryAt(img, s).start
      BY <1>3, Ranges
    <2>2. chain = ChainFrom(img, b)
      BY <2>1 DEF FileChain
    <2>. QED
      BY <1>4, <2>2, EndsInjective
  <1>8. s \in Slots
    BY <1>2 DEF DirOK, Places, Slots
  <1>9. /\ tsk2 \in Tasks /\ tsk2.pc = "reclaim" /\ tsk2.h = Shell /\ tsk2.slot = s
        /\ tsk2.todo = chain
    <2>1. Idle \in Tasks /\ "reclaim" \in Points /\ Idle.h = Shell
      BY IdleOK DEF Points
    <2>. HIDE DEF Idle
    <2>. QED
      BY <1>6, <1>8, <2>1 DEF Tasks
  <1>10. Extra(img, tsk2) = Range(chain) /\ But(tsk2) = NoSlot
    BY <1>4, <1>9 DEF Extra, But
  <1>11. Unclaimed(img, strm, Extra(img, tsk2))
    <2>1. \A d \in Channels : ~RollingBack(tsk, d)
      BY Aside
    <2>2. \A t \in Live(img) : t # NoSlot
      BY NotNoSlot
    <2>3. \A b \in Range(chain) : /\ \A t \in Live(img) : b \notin Blocks(img, t)
                                  /\ \A c \in Channels : b \notin Held(strm, c)
      BY <1>1, <1>4, <2>1, <2>2, FreeBlockUnused
    <2>. QED
      BY <1>10, <2>3 DEF Unclaimed
  <1>12. Started(img, strm, tsk2, n)
    <2>1. StartingAside(img, strm, tsk2)
      BY <1>9, <1>11 DEF StartingAside
    <2>. QED
      BY <2>1, AsideStarts
  <1>13. WhoOK(strm, tsk2)
    BY <1>9, HandleAssumption DEF WhoOK
  <1>14. StepOK(img, strm, tsk2)
    BY <1>2, <1>4, <1>6, <1>7, <1>9 DEF StepOK
  <1>. QED
    BY <1>1, <1>10, <1>12, <1>13, <1>14 DEF Good, Started

\* writeFileNew() with a full block.
LEMMA WriteFullGood ==
    ASSUME NEW img, NEW strm, NEW tsk, NEW done, NEW n, Good(img, strm, tsk, done, n),
           tsk.pc = "idle", NEW c \in Channels, strm[c].creating, Len(strm[c].held) < MaxBlocks,
           NEW tsk2, tsk2 = [Idle EXCEPT !.pc = "next", !.h = c]
    PROVE  Good(img, strm, tsk2, done, n)
  <1>1. /\ strm \in [Channels -> Streams(n)] /\ StreamsOK(strm, tsk, n) /\ Sound(img, NoSlot, done)
        /\ (\A d \in Channels : SaveOK(img, strm[d])) /\ ~Busied(tsk, c)
    BY Aside DEF But
  <1>2. /\ tsk2 \in Tasks /\ tsk2.pc = "next" /\ tsk2.h = c
    <2>1. Idle \in Tasks /\ c \in Handles /\ "next" \in Points
      BY IdleOK DEF Handles, Points
    <2>. HIDE DEF Idle
    <2>. QED
      BY <2>1 DEF Tasks
  <1>3. /\ ~Busied(tsk2, c) /\ tsk2.pc \notin Finishing /\ Extra(img, tsk2) = {}
        /\ But(tsk2) = NoSlot
    BY <1>2 DEF Busied, Finalizing, RollingBack, Finishing, Extra, But
  <1>4. strm[c].open /\ StreamOK(strm[c], Busied(tsk2, c), n)
    BY <1>1, <1>3 DEF StreamsOK, StreamOK, Busied
  <1>5. Started(img, strm, tsk2, n)
    <2>1. Starting(img, strm, c, strm[c], tsk2, n)
      BY <1>1, <1>2, <1>3, <1>4 DEF Starting, Held
    <2>2. n \in {n, n + 1} /\ [strm EXCEPT ![c] = strm[c]] = strm
      BY <1>1
    <2>. QED
      BY <2>1, <2>2, Starts
  <1>6. WhoOK(strm, tsk2) /\ StepOK(img, strm, tsk2)
    BY <1>2, <1>4 DEF WhoOK, StepOK
  <1>. QED
    BY <1>1, <1>3, <1>5, <1>6 DEF Good, Started

\* close() of a channel with a save under way.
LEMMA CloseSavingGood ==
    ASSUME NEW img, NEW strm, NEW tsk, NEW done, NEW n, Good(img, strm, tsk, done, n),
           tsk.pc = "idle", NEW c \in Channels, strm[c].creating, NEW tsk2, NEW strm2,
           tsk2 = [Idle EXCEPT !.pc = "last", !.h = c, !.then = "close"],
           strm2 = [strm EXCEPT ![c].creating = FALSE]
    PROVE  Good(img, strm2, tsk2, done, n)
  <1>1. /\ strm \in [Channels -> Streams(n)] /\ StreamsOK(strm, tsk, n) /\ Sound(img, NoSlot, done)
        /\ (\A d \in Channels : SaveOK(img, strm[d])) /\ ~Busied(tsk, c)
    BY Aside DEF But
  <1>2. /\ tsk2 \in Tasks /\ tsk2.pc = "last" /\ tsk2.h = c
    <2>1. Idle \in Tasks /\ c \in Handles /\ "last" \in Points
      BY IdleOK DEF Handles, Points
    <2>. HIDE DEF Idle
    <2>. QED
      BY <2>1 DEF Tasks
  <1>3. /\ Busied(tsk2, c) /\ tsk2.pc \notin Finishing /\ Extra(img, tsk2) = {}
        /\ But(tsk2) = NoSlot
    BY <1>2 DEF Busied, Finalizing, RollingBack, Finishing, Extra, But
  <1>4. strm[c] \in Streams(n) /\ strm[c].open /\ StreamOK(strm[c], FALSE, n)
    BY <1>1 DEF StreamsOK, StreamOK, Busied
  <1>5. PICK s2 : s2 = [strm[c] EXCEPT !.creating = FALSE]
    OBVIOUS
  <1>6. /\ s2 \in Streams(n) /\ s2.held = strm[c].held /\ ~s2.creating /\ s2.open = strm[c].open
        /\ s2.name = strm[c].name /\ s2.id = strm[c].id
    BY <1>4, <1>5 DEF Streams
  <1>7. StreamOK(s2, Busied(tsk2, c), n)
    BY <1>3, <1>4, <1>6 DEF StreamOK
  <1>8. SaveOK(img, s2)
    BY <1>1, <1>6 DEF SaveOK, Linked
  <1>9. strm2 = [strm EXCEPT ![c] = s2] /\ strm2[c] = s2
    BY <1>1, <1>5
  <1>10. Started(img, strm2, tsk2, n)
    <2>1. Starting(img, strm, c, s2, tsk2, n)
      BY <1>2, <1>3, <1>6, <1>7, <1>8 DEF Starting, Held
    <2>2. n \in {n, n + 1}
      OBVIOUS
    <2>3. Started(img, [strm EXCEPT ![c] = s2], tsk2, n)
      BY <2>1, <2>2, Starts
    <2>. QED
      BY <1>9, <2>3
  <1>11. WhoOK(strm2, tsk2) /\ StepOK(img, strm2, tsk2)
    BY <1>2, <1>4, <1>6, <1>9 DEF WhoOK, StepOK
  <1>. QED
    BY <1>1, <1>3, <1>10, <1>11 DEF Good, Started

\* close() after an error.
LEMMA CloseFailedGood ==
    ASSUME NEW img, NEW strm, NEW tsk, NEW done, NEW n, Good(img, strm, tsk, done, n),
           tsk.pc = "idle", NEW c \in Channels, NEW strm2,
           strm2 = [strm EXCEPT ![c] = NoStream]
    PROVE  Good(img, strm2, tsk, done, n)
  <1>1. /\ strm \in [Channels -> Streams(n)] /\ StreamsOK(strm, tsk, n) /\ Sound(img, NoSlot, done)
        /\ WhoOK(strm, tsk) /\ But(tsk) = NoSlot /\ ~Busied(tsk, c)
    BY Aside DEF But
  <1>2. /\ StreamOK(NoStream, FALSE, n) /\ SaveOK(img, NoStream) /\ Range(NoStream.held) = {}
    BY <1>1, NoStreamOK DEF StreamsOK
  <1>3. StreamOK(NoStream, Busied(tsk, c), n) /\ tsk.pc \notin Finishing /\ Extra(img, tsk) = {}
    BY <1>1, <1>2 DEF StreamOK, Finishing, Extra
  <1>4. Started(img, strm2, tsk, n)
    <2>1. Starting(img, strm, c, NoStream, tsk, n)
      BY <1>1, <1>2, <1>3 DEF Starting, WhoOK
    <2>. QED
      BY <2>1, Starts
  <1>5. WhoOK(strm2, tsk) /\ StepOK(img, strm2, tsk)
    BY <1>1, HandleAssumption DEF WhoOK, StepOK
  <1>. QED
    BY <1>1, <1>4, <1>5 DEF Good, Started

\* beginFileWrite() without a block.
LEMMA BeginFailsGood ==
    ASSUME NEW img, NEW strm, NEW tsk, NEW done, NEW n, Good(img, strm, tsk, done, n),
           tsk.pc = "begin", NEW strm2, strm2 = [strm EXCEPT ![tsk.h].error = TRUE]
    PROVE  Good(img, strm2, Idle, done, n)
  <1>1. PICK c \in Channels : c = tsk.h
    BY Running
  <1>2. /\ strm \in [Channels -> Streams(n)] /\ StreamsOK(strm, tsk, n) /\ Sound(img, NoSlot, done)
        /\ StreamOK(strm[c], Busied(tsk, c), n) /\ strm[c] \in Streams(n) /\ Apart(img, strm, tsk)
        /\ (\A d \in Channels : SaveOK(img, strm[d]))
    BY <1>1, Running
  <1>3. ~Busied(tsk, c) /\ ~Busied(Idle, c) /\ Idle.h = Shell /\ Idle.pc = "idle"
        /\ Extra(img, Idle) = {} /\ WhoOK(strm2, Idle) /\ StepOK(img, strm2, Idle)
        /\ But(Idle) = NoSlot
    BY IdleOK DEF Busied, Finalizing, RollingBack, Finishing
  <1>4. PICK s2 : s2 = [strm[c] EXCEPT !.error = TRUE]
    OBVIOUS
  <1>5. /\ s2 \in Streams(n) /\ s2.held = strm[c].held /\ s2.open = strm[c].open
        /\ s2.creating = strm[c].creating /\ s2.name = strm[c].name /\ s2.id = strm[c].id
    BY <1>2, <1>4 DEF Streams
  <1>6. StreamOK(s2, Busied(Idle, c), n) /\ SaveOK(img, s2)
    BY <1>2, <1>3, <1>5 DEF StreamOK, SaveOK, Linked
  <1>7. strm2 = [strm EXCEPT ![c] = s2] /\ strm2[c] = s2 /\ \A d \in Channels \ {c} : strm2[d] = strm[d]
    BY <1>1, <1>2, <1>4
  <1>8. StreamsOK(strm2, Idle, n)
    <2>1. tsk.h \in {c, Shell} /\ Idle.h \in {c, Shell}
      BY <1>1, <1>3
    <2>2. StreamsOK([strm EXCEPT ![c] = s2], Idle, n)
      BY <1>2, <1>6, <2>1, OtherStreams
    <2>. QED
      BY <1>7, <2>2
  <1>9. SavesOK(img, strm2, Idle)
    <2>1. \A d \in Channels : SaveOK(img, strm2[d])
      BY <1>2, <1>6, <1>7
    <2>. QED
      BY <1>3, <2>1 DEF SavesOK, Finishing
  <1>10. Apart(img, strm2, Idle)
    <2>1. Fewer(strm, strm2) /\ Unclaimed(img, strm, {}) /\ SameBlocks(img, img)
          /\ Extra(img, Idle) \subseteq {}
      BY <1>3, <1>5, <1>7 DEF Fewer, Held, Unclaimed, SameBlocks
    <2>. QED
      BY <1>2, <2>1, ApartClaims
  <1>. QED
    BY <1>2, <1>3, <1>8, <1>9, <1>10 DEF Good

\* Power is cut: an image that is sound is good without streams.
LEMMA PowerCutGood ==
    ASSUME NEW img, NEW done, NEW n \in Nat, Sound(img, NoSlot, done),
           NEW strm, strm = [c \in Channels |-> NoStream]
    PROVE  Good(img, strm, Idle, done, n)
  <1>1. /\ StreamOK(NoStream, FALSE, n) /\ SaveOK(img, NoStream) /\ Range(NoStream.held) = {}
    BY NoStreamOK
  <1>2. /\ Extra(img, Idle) = {} /\ WhoOK(strm, Idle) /\ StepOK(img, strm, Idle)
        /\ But(Idle) = NoSlot /\ Idle.pc = "idle" /\ \A c \in Channels : ~Busied(Idle, c)
    BY IdleOK
  <1>3. \A c \in Channels : strm[c] = NoStream /\ Held(strm, c) = {}
    BY <1>1 DEF Held
  <1>4. Apart(img, strm, Idle)
    BY <1>2, <1>3 DEF Apart
  <1>5. SavesOK(img, strm, Idle)
    BY <1>1, <1>2, <1>3 DEF SavesOK, Finishing
  <1>6. StreamsOK(strm, Idle, n)
    <2>1. NoStream \in Streams(n)
      BY <1>1 DEF StreamOK
    <2>2. strm \in [Channels -> Streams(n)]
      BY <2>1
    <2>3. \A c \in Channels : StreamOK(strm[c], Busied(Idle, c), n)
      BY <1>1, <1>2, <1>3 DEF StreamOK
    <2>. QED
      BY <2>2, <2>3 DEF StreamsOK, Busied
  <1>. QED
    BY <1>2, <1>4, <1>5, <1>6 DEF Good

-----------------------------------------------------------------------------
(* The writes.                                                             *)

\* None or one well-formed write of the running handler.
OneWrite(ws) == ws = <<>> \/ \E w \in Writes : ws = <<w>> /\ w.at = task.pc

LEMMA ImageIs ==
    ASSUME NEW img
    PROVE  img \in Image <=>
              /\ img = [free |-> img.free, data |-> img.data, next |-> img.next]
              /\ img.free \subseteq Block /\ img.data \in [Block -> Contents]
              /\ img.next \in [Links -> Links] /\ \A x \in Links \ Block : img.next[x] = End
  BY DEF Image

LEMMA BamApplied ==
    ASSUME NEW img \in Image, task.pc \in Points, NEW b \in Block,
           NEW F \in SUBSET Block, NEW ws, ws = BamWrite(b[1], F)
    PROVE  /\ OneWrite(ws) /\ FreedOnly(img, ApplyAll(img, ws))
           /\ ApplyAll(img, ws).free = {x \in img.free : x[1] # b[1]} \cup F
  <1>. DEFINE w == [kind |-> "bam", track |-> b[1], free |-> F, at |-> task.pc]
  <1>1. ws = <<w>> /\ w.kind = "bam" /\ w.track = b[1] /\ w.free = F /\ w.at = task.pc
    BY DEF BamWrite
  <1>2. b[1] \in 1..Tracks
    BY DEF Block
  <1>3. w \in Writes
    BY <1>2 DEF Writes
  <1>. HIDE DEF w
  <1>4. ws[1] = w /\ ws # <<>>
    BY <1>1
  <1>5. ApplyAll(img, ws) = [img EXCEPT !.free = {x \in img.free : x[1] # b[1]} \cup F]
    BY <1>1, <1>4 DEF ApplyAll, Apply
  <1>6. {x \in img.free : x[1] # b[1]} \cup F \subseteq Block
    BY ImageFields
  <1>7. /\ ApplyAll(img, ws).free = {x \in img.free : x[1] # b[1]} \cup F
        /\ ApplyAll(img, ws).next = img.next /\ ApplyAll(img, ws).data = img.data
    BY <1>5 DEF Image
  <1>8. ApplyAll(img, ws) \in Image
    BY <1>5, <1>6 DEF Image
  <1>. QED
    BY <1>1, <1>3, <1>7, <1>8 DEF OneWrite, FreedOnly

\* setBlockAllocation() of a free block.
LEMMA Allocated ==
    ASSUME NEW img \in Image, task.pc \in Points, NEW b \in img.free,
           NEW ws, ws = AllocateWrite(img, b)
    PROVE  /\ OneWrite(ws) /\ FreedOnly(img, ApplyAll(img, ws))
           /\ ApplyAll(img, ws).free = img.free \ {b}
  <1>1. b \in Block /\ img.free \subseteq Block
    BY ImageFields
  <1>2. PICK F : F = Record(img, b[1]) \ {b}
    OBVIOUS
  <1>3. F \in SUBSET Block
    BY <1>1, <1>2 DEF Record
  <1>4. ws = BamWrite(b[1], F)
    BY <1>2 DEF AllocateWrite
  <1>5. /\ OneWrite(ws) /\ FreedOnly(img, ApplyAll(img, ws))
        /\ ApplyAll(img, ws).free = {x \in img.free : x[1] # b[1]} \cup F
    BY <1>1, <1>3, <1>4, BamApplied
  <1>6. {x \in img.free : x[1] # b[1]} \cup F = img.free \ {b}
    BY <1>2 DEF Record
  <1>. QED
    BY <1>5, <1>6

LEMMA NotWritten ==
    ASSUME NEW img \in Image
    PROVE  OneWrite(<<>>) /\ ApplyAll(img, <<>>) = img /\ FreedOnly(img, img)
  BY DEF OneWrite, ApplyAll, FreedOnly

\* setBlockAllocation() that gives a block back.
LEMMA Deallocated ==
    ASSUME NEW img \in Image, task.pc \in Points, NEW b \in Block,
           NEW ws, ws = DeallocateWrite(img, b)
    PROVE  /\ OneWrite(ws) /\ FreedOnly(img, ApplyAll(img, ws))
           /\ ApplyAll(img, ws).free = img.free \cup {b}
  <1>1. CASE b \in img.free
    BY <1>1, NotWritten DEF DeallocateWrite
  <1>2. CASE b \notin img.free
    <2>1. img.free \subseteq Block
      BY ImageFields
    <2>2. PICK F : F = Record(img, b[1]) \cup {b}
      OBVIOUS
    <2>3. F \in SUBSET Block
      BY <2>1, <2>2 DEF Record
    <2>4. ws = BamWrite(b[1], F)
      BY <1>2, <2>2 DEF DeallocateWrite
    <2>5. /\ OneWrite(ws) /\ FreedOnly(img, ApplyAll(img, ws))
          /\ ApplyAll(img, ws).free = {x \in img.free : x[1] # b[1]} \cup F
      BY <2>3, <2>4, BamApplied
    <2>6. {x \in img.free : x[1] # b[1]} \cup F = img.free \cup {b}
      BY <2>2 DEF Record
    <2>. QED
      BY <2>5, <2>6
  <1>. QED
    BY <1>1, <1>2

\* A block is written.
LEMMA BlockApplied ==
    ASSUME NEW img \in Image, task.pc \in Points, NEW b \in Block, NEW nx \in Links,
           NEW d \in Contents, NEW ws, ws = BlockWrite(b, nx, d)
    PROVE  OneWrite(ws) /\ Written(img, ApplyAll(img, ws), b, nx, d)
  <1>. DEFINE w == [kind |-> "block", block |-> b, next |-> nx, content |-> d, at |-> task.pc]
  <1>1. /\ ws = <<w>> /\ w.kind = "block" /\ w.block = b /\ w.next = nx /\ w.content = d
        /\ w.at = task.pc
    BY DEF BlockWrite
  <1>2. w \in Writes
    BY DEF Writes
  <1>. HIDE DEF w
  <1>3. ws[1] = w /\ ws # <<>> /\ w.kind # "bam"
    BY <1>1
  <1>4. ApplyAll(img, ws) = [img EXCEPT !.next[b] = nx, !.data[b] = d]
    BY <1>1, <1>3 DEF ApplyAll, Apply
  <1>5. /\ img.free \subseteq Block /\ img.next \in [Links -> Links]
        /\ img.data \in [Block -> Contents] /\ (\A x \in Links \ Block : img.next[x] = End)
        /\ b \in Links
    BY Ranges DEF Image
  <1>6. PICK next2, data2 : next2 = [img.next EXCEPT ![b] = nx] /\ data2 = [img.data EXCEPT ![b] = d]
    OBVIOUS
  <1>7. /\ next2 \in [Links -> Links] /\ data2 \in [Block -> Contents]
        /\ (\A x \in Links \ Block : next2[x] = End)
        /\ next2[b] = nx /\ data2[b] = d /\ (\A x \in Links \ {b} : next2[x] = img.next[x])
        /\ (\A x \in Block \ {b} : data2[x] = img.data[x])
    BY <1>5, <1>6
  <1>8. ApplyAll(img, ws) = [img EXCEPT !.next = next2, !.data = data2]
    BY <1>4, <1>6 DEF Image
  <1>9. PICK new : new = ApplyAll(img, ws)
    OBVIOUS
  <1>10. new \in Image /\ new.free = img.free /\ new.next = next2 /\ new.data = data2
    BY <1>7, <1>8, <1>9 DEF Image
  <1>11. Written(img, new, b, nx, d)
    BY <1>7, <1>10 DEF Written, Changed
  <1>. QED
    BY <1>1, <1>2, <1>9, <1>11 DEF OneWrite

-----------------------------------------------------------------------------
(* The container and its buffers.                                          *)

\* What the theorems assume of the troubles considered: power is not cut
\* while a file is scratched and not while a linked directory sector waits to
\* be written, the one write that marks an entry deleted and the one that
\* fills the new directory sector do not fail, and a client leaves an image
\* whose handles buffer alone while a channel on it is open.
Safe ==
    /\ CutPoints \cap {"free", "clear", "newEntry"} = {}
    /\ FaultPoints \cap {"clear", "newEntry"} = {}
    /\ TRUE \in BufferedHandles => OneAtATime

LEMMA VisibleIsNow ==
    ASSUME task.pc # "newEntry"
    PROVE  Visible = Now
  BY DEF Visible, Now, Holding

LEMMA VisibleIsNowNext ==
    ASSUME task'.pc # "newEntry"
    PROVE  Visible' = Now'
  BY DEF Visible, Now, Holding

\* The handle of a running handler is the only one that holds a write.
LEMMA SeenIsNow ==
    ASSUME PendOK, NEW h \in Handles, Busy(h)
    PROVE  Seen(h) = Now /\ \A g \in Handles \ {h} : pend[g] = <<>>
  <1>1. \A g \in Handles \ {h} : pend[g] = <<>>
    BY DEF PendOK
  <1>2. CASE pend[h] = <<>>
    <2>1. Holding = {} /\ Seen(h) = image
      BY <1>1, <1>2 DEF Holding, Seen, ApplyAll
    <2>. QED
      BY <1>1, <2>1 DEF Now
  <1>3. CASE pend[h] # <<>>
    <2>1. Holding = {h}
      BY <1>1, <1>3 DEF Holding
    <2>2. (CHOOSE g \in Holding : TRUE) = h /\ Holding # {}
      BY <2>1
    <2>3. Now = ApplyAll(image, pend[h])
      BY <2>2 DEF Now, Seen
    <2>. QED
      BY <1>1, <2>3 DEF Seen
  <1>. QED
    BY <1>2, <1>3

\* Nobody holds a write when nobody is busy.
LEMMA QuietIsNow ==
    ASSUME PendOK, \A h \in Handles : ~(buffered /\ Busy(h))
    PROVE  Now = image /\ \A g \in Handles : pend[g] = <<>>
  <1>1. \A g \in Handles : pend[g] = <<>>
    BY DEF PendOK
  <1>. QED
    BY <1>1 DEF Now, Holding

\* What a write of handle h does to the image and the buffers.
PutDone(h, new, closing) ==
    /\ Now' = new /\ image' \in {Now, new} /\ (closing => image' = new)
    /\ pend' \in [Handles -> {<<>>} \cup {<<w>> : w \in Writes}]
    /\ \A g \in Handles : pend'[g] # <<>> =>
          /\ g = h /\ buffered /\ ~closing /\ image' = Now /\ pend'[g][1].at = task.pc

LEMMA PutIs ==
    ASSUME PendOK, NEW h \in Handles, Busy(h), NEW ws, OneWrite(ws), NEW ok \in BOOLEAN,
           NEW closing \in BOOLEAN, Put(h, ws, ok, closing), NEW new,
           new = ApplyAll(Now, IF ok THEN ws ELSE <<>>)
    PROVE  PutDone(h, new, closing)
  <1>1. Seen(h) = Now /\ \A g \in Handles \ {h} : pend[g] = <<>>
    BY SeenIsNow
  <1>2. PICK done : done = IF ok THEN ws ELSE <<>>
    OBVIOUS
  <1>3. done = <<>> \/ \E w \in Writes : done = <<w>> /\ w.at = task.pc
    BY <1>2 DEF OneWrite
  <1>4. new = ApplyAll(Now, done)
    BY <1>2
  <1>5. pend \in [Handles -> {<<>>} \cup {<<w>> : w \in Writes}]
    BY DEF PendOK
  <1>6. CASE buffered /\ ~closing
    <2>1. image' = Now /\ pend' = [pend EXCEPT ![h] = done]
      BY <1>1, <1>2, <1>6 DEF Put
    <2>2. pend'[h] = done /\ \A g \in Handles \ {h} : pend'[g] = <<>>
      BY <1>1, <1>5, <2>1
    <2>3. pend' \in [Handles -> {<<>>} \cup {<<w>> : w \in Writes}]
      BY <1>3, <1>5, <2>1
    <2>4. \A g \in Handles : pend'[g] # <<>> => g = h /\ pend'[g][1].at = task.pc
      BY <1>3, <2>2
    <2>5. Now' = new
      <3>1. CASE done = <<>>
        <4>1. Holding' = {}
          BY <2>2, <3>1 DEF Holding
        <4>. QED
          BY <1>4, <2>1, <3>1, <4>1 DEF Now, ApplyAll
      <3>2. CASE done # <<>>
        <4>1. Holding' = {h}
          BY <2>2, <3>2 DEF Holding
        <4>2. (CHOOSE g \in Holding' : TRUE) = h /\ Holding' # {}
          BY <4>1
        <4>3. Now' = ApplyAll(image', pend'[h])
          BY <4>2 DEF Now, Seen
        <4>. QED
          BY <1>4, <2>1, <2>2, <4>3
      <3>. QED
        BY <3>1, <3>2
    <2>. QED
      BY <1>6, <2>1, <2>3, <2>4, <2>5 DEF PutDone
  <1>7. CASE ~(buffered /\ ~closing)
    <2>1. image' = new /\ pend' = [pend EXCEPT ![h] = <<>>]
      BY <1>1, <1>2, <1>4, <1>7 DEF Put
    <2>2. \A g \in Handles : pend'[g] = <<>>
      BY <1>1, <1>5, <2>1
    <2>3. pend' \in [Handles -> {<<>>} \cup {<<w>> : w \in Writes}]
      BY <1>5, <2>1
    <2>4. Now' = new
      BY <2>1, <2>2 DEF Now, Holding
    <2>. QED
      BY <2>1, <2>2, <2>3, <2>4 DEF PutDone
  <1>. QED
    BY <1>6, <1>7

LEMMA OutcomesAre ==
    ASSUME NEW ok \in Outcomes
    PROVE  ok \in BOOLEAN /\ (~ok => trouble < MaxTrouble /\ task.pc \in FaultPoints)
  BY DEF Outcomes

\* What a handler finds that runs on the whole image.
RunsOn(img, h) ==
    /\ Good(img, stream, task, acked, saves) /\ img \in Image /\ task.pc \in Points
    /\ h \in Handles /\ h = task.h /\ Busy(h) /\ Seen(h) = img /\ Now = img

LEMMA BusyRuns ==
    ASSUME D64Inv, task.pc # "idle"
    PROVE  /\ task.h \in Handles /\ Busy(task.h) /\ Seen(task.h) = Now /\ task.pc \in Points
  <1>1. WhoOK(stream, task) /\ PendOK
    BY DEF D64Inv, Good
  <1>2. task.h \in Handles /\ task.pc \in Points
    BY <1>1, TaskFields DEF WhoOK
  <1>3. Busy(task.h)
    BY <1>1, <1>2 DEF WhoOK, Busy, Handles
  <1>. QED
    BY <1>1, <1>2, <1>3, SeenIsNow

LEMMA Runs ==
    ASSUME D64Inv, task.pc \notin {"idle", "newEntry"}
    PROVE  RunsOn(Now, task.h)
  <1>1. task.h \in Handles /\ Busy(task.h) /\ Seen(task.h) = Now /\ task.pc \in Points
    BY BusyRuns
  <1>2. Good(Now, stream, task, acked, saves)
    BY VisibleIsNow DEF D64Inv
  <1>3. Now \in Image
    BY <1>2 DEF Good, Sound
  <1>. QED
    BY <1>1, <1>2, <1>3 DEF RunsOn

\* A step of the running handler: who is busy stays busy or closes.
Moves(closing) ==
    /\ closing \/ acked' = acked
    /\ \A c \in Channels : stream'[c].open => stream[c].open
    /\ task'.pc = "idle" \/ task'.h = task.h
    /\ \/ closing
       \/ task.h \in Channels /\ stream'[task.h].open
       \/ task.h = Shell /\ task'.pc # "idle" /\ task'.h = Shell

LEMMA PutPend ==
    ASSUME Safe, D64Inv, NEW h \in Handles, Busy(h), NEW new \in Image, NEW closing \in BOOLEAN,
           PutDone(h, new, closing), task.pc # "newEntry" \/ closing, buffered' = buffered,
           closing \/ acked' = acked, closing \/ Busy(h)',
           \A g \in Handles : Busy(g)' => Busy(g)
    PROVE  PendOK' /\ image' \in Image
  <1>1. /\ PendOK /\ image \in Image /\ Good(Visible, stream, task, acked, saves)
    BY DEF D64Inv
  <1>2. ASSUME ~closing PROVE Now \in Image /\ Sound(Now, But(task), acked)
    BY <1>1, <1>2, VisibleIsNow DEF Good, Sound
  <1>3. image' \in Image
    BY <1>2 DEF PutDone
  <1>4. ASSUME NEW g \in Handles, pend'[g] # <<>>, pend'[g][1].at \in CutPoints
        PROVE  Sound(image', NoSlot, acked')
    <2>1. ~closing /\ image' = Now /\ task.pc \in CutPoints /\ acked' = acked
      BY <1>4 DEF PutDone
    <2>2. But(task) = NoSlot
      BY <2>1 DEF Safe, But
    <2>. QED
      BY <1>2, <2>1, <2>2
  <1>5. \A g \in Handles : pend'[g] # <<>> => buffered' /\ Busy(g)'
    BY DEF PutDone
  <1>6. buffered' => \A f, g \in Handles : Busy(f)' /\ Busy(g)' => f = g
    BY <1>1 DEF PendOK
  <1>7. pend' \in [Handles -> {<<>>} \cup {<<w>> : w \in Writes}]
    BY DEF PutDone
  <1>. QED
    BY <1>3, <1>4, <1>5, <1>6, <1>7 DEF PendOK

LEMMA StillBusy ==
    ASSUME NEW closing \in BOOLEAN, Moves(closing), task.pc # "idle", NEW h, h = task.h
    PROVE  (closing \/ Busy(h)') /\ \A g \in Handles : Busy(g)' => Busy(g)
  BY DEF Moves, Busy

\* What a step leaves in a buffer is a write of its own; the image file holds
\* what was there before the step.
Flushed == \A h \in Handles : pend'[h] # <<>> => image' = Visible /\ pend'[h][1].at = task.pc

\* The step claims block b, or gives it back; the rest of the image stays.
Took(b) == FreedOnly(Visible, Visible') /\ Visible'.free = Visible.free \ {b}
Gave(b) == FreedOnly(Visible, Visible') /\ Visible'.free = Visible.free \cup {b}
Fails == Visible' = Visible /\ task.pc \in FaultPoints

LEMMA StepDone ==
    ASSUME Safe, D64Inv, task.pc # "idle", NEW ws, OneWrite(ws), NEW ok \in BOOLEAN,
           NEW closing \in BOOLEAN, Put(task.h, ws, ok, closing), NEW new \in Image,
           new = ApplyAll(Now, IF ok THEN ws ELSE <<>>), ok \/ trouble < MaxTrouble,
           UNCHANGED <<buffered, saves, lost>>, Moves(closing),
           task.pc # "newEntry" \/ closing, task'.pc # "newEntry",
           Good(new, stream', task', acked', saves), acked' \subseteq 1..saves
    PROVE  D64Inv' /\ Visible' = new /\ Flushed
  <1>0. PICK h : h = task.h
    OBVIOUS
  <1>1. h \in Handles /\ Busy(h)
    BY <1>0, BusyRuns
  <1>2. PutDone(h, new, closing)
    BY <1>0, <1>1, PutIs DEF D64Inv
  <1>3. (closing \/ Busy(h)') /\ \A g \in Handles : Busy(g)' => Busy(g)
    BY <1>0, StillBusy
  <1>4. PendOK' /\ image' \in Image
    <2>1. closing \/ acked' = acked
      BY DEF Moves
    <2>. QED
      BY <1>1, <1>2, <1>3, <2>1, PutPend
  <1>5. Visible' = new
    BY <1>2, VisibleIsNowNext DEF PutDone
  <1>6. NewLinked'
    BY DEF NewLinked
  <1>7. CountsOK'
    <2>1. CountsOK
      BY DEF D64Inv
    <2>2. trouble' = IF ok THEN trouble ELSE trouble + 1
      BY DEF Put
    <2>3. trouble' \in 0..MaxTrouble
      BY <2>1, <2>2, BoundAssumption DEF CountsOK
    <2>. QED
      BY <2>1, <2>3 DEF CountsOK
  <1>8. Good(Visible', stream', task', acked', saves')
    BY <1>5
  <1>9. Flushed
    <2>1. closing \/ Visible = Now
      BY VisibleIsNow
    <2>. QED
      BY <1>2, <2>1 DEF PutDone, Flushed
  <1>. QED
    BY <1>4, <1>5, <1>6, <1>7, <1>8, <1>9 DEF D64Inv

-----------------------------------------------------------------------------
(* The steps of the handlers.                                              *)

\* The handler of channel c runs on the image img.
Serves(img, c) ==
    /\ RunsOn(img, c) /\ c \in Channels /\ c # Shell /\ stream \in [Channels -> Streams(saves)]
    /\ stream[c].open /\ acked \subseteq 1..saves /\ img \in Image

LEMMA ServesChannel ==
    ASSUME D64Inv,
           task.pc \notin {"idle", "newEntry", "free", "clear", "reclaim", "restore"}
    PROVE  Serves(Now, task.h)
  <1>1. RunsOn(Now, task.h)
    BY Runs
  <1>2. StreamsOK(stream, task, saves) /\ WhoOK(stream, task) /\ acked \subseteq 1..saves
    BY DEF D64Inv, Good, CountsOK
  <1>. QED
    BY <1>1, <1>2, HandleAssumption DEF Serves, StreamsOK, WhoOK, RunsOn

\* beginFileWrite() claims a block or reports an error.
BeginDone(c) ==
    \/ \E b \in FileBlocks :
          Took(b) /\ stream' = [stream EXCEPT ![c].creating = TRUE, ![c].held = <<b>>]
    \/ Visible' = Visible /\ stream' = [stream EXCEPT ![c].error = TRUE]

LEMMA BeginStep ==
    ASSUME Safe, D64Inv, Begin
    PROVE  D64Inv' /\ Flushed /\ BeginDone(task.h)
  <1>0. task.pc = "begin" /\ task' = Idle /\ UNCHANGED <<buffered, saves, lost>> /\ acked' = acked
    BY DEF Begin, At
  <1>1. PICK c, img : c = task.h /\ img = Now /\ img = Visible /\ Serves(img, c)
    BY <1>0, ServesChannel, VisibleIsNow
  <1>2. /\ Good(img, stream, task, acked, saves) /\ img \in Image /\ task.pc \in Points
        /\ Seen(c) = img /\ c \in Channels /\ stream \in [Channels -> Streams(saves)]
        /\ stream[c].open /\ acked \subseteq 1..saves
    BY <1>1 DEF Serves, RunsOn
  <1>3. Idle.pc = "idle"
    BY IdleOK
  <1>4. ASSUME stream' \in {[stream EXCEPT ![c].creating = TRUE, ![c].held = <<b>>] : b \in Block}
                           \cup {[stream EXCEPT ![c].error = TRUE]}
        PROVE  Moves(FALSE)
    <2>1. stream'[c].open /\ \A d \in Channels : stream'[d].open => stream[d].open
      BY <1>2, <1>4 DEF Streams
    <2>. QED
      BY <1>0, <1>1, <1>2, <1>3, <2>1 DEF Moves
  <1>5. ASSUME NEW b \in FreeFor(img, FALSE), Put(c, AllocateWrite(img, b), TRUE, FALSE),
               stream' = [stream EXCEPT ![c].creating = TRUE, ![c].held = <<b>>]
        PROVE  D64Inv' /\ Flushed /\ BeginDone(c)
    <2>1. PICK ws : ws = AllocateWrite(img, b)
      OBVIOUS
    <2>2. b \in img.free \cap FileBlocks /\ b \in Block
      BY <1>5, Ranges DEF FreeFor
    <2>3. /\ OneWrite(ws) /\ FreedOnly(img, ApplyAll(img, ws))
          /\ ApplyAll(img, ws).free = img.free \ {b}
      BY <1>2, <2>1, <2>2, Allocated
    <2>4. PICK new : new = ApplyAll(img, ws)
      OBVIOUS
    <2>5. Good(new, stream', Idle, acked, saves) /\ new \in Image
      BY <1>0, <1>1, <1>2, <1>5, <2>2, <2>3, <2>4, BeginGood DEF FreedOnly
    <2>6. D64Inv' /\ Visible' = new /\ Flushed
      BY <1>0, <1>1, <1>2, <1>3, <1>4, <1>5, <2>1, <2>2, <2>3, <2>4, <2>5, StepDone
    <2>7. Took(b)
      BY <1>1, <2>3, <2>4, <2>6 DEF Took
    <2>. QED
      BY <1>5, <2>2, <2>6, <2>7 DEF BeginDone
  <1>6. ASSUME NEW ws, OneWrite(ws), NEW ok \in BOOLEAN, ok => ws = <<>>, ok \/ trouble < MaxTrouble,
               Put(c, ws, ok, FALSE), stream' = [stream EXCEPT ![c].error = TRUE]
        PROVE  D64Inv' /\ Flushed /\ BeginDone(c)
    <2>1. ApplyAll(img, IF ok THEN ws ELSE <<>>) = img
      BY <1>2, <1>6, NotWritten
    <2>2. Good(img, stream', Idle, acked, saves)
      BY <1>0, <1>1, <1>2, <1>6, BeginFailsGood
    <2>3. D64Inv' /\ Visible' = img /\ Flushed
      BY <1>0, <1>1, <1>2, <1>3, <1>4, <1>6, <2>1, <2>2, StepDone
    <2>. QED
      BY <1>1, <1>6, <2>3 DEF BeginDone
  <1>7. ASSUME NEW b \in FreeFor(img, FALSE)
        PROVE  OneWrite(AllocateWrite(img, b))
    BY <1>2, Allocated DEF FreeFor
  <1>. QED
    BY <1>1, <1>2, <1>5, <1>6, <1>7, OutcomesAre, NotWritten DEF Begin

\* A step of a save that fails, or that gives a directory sector back.
LEMMA UndoStep ==
    ASSUME Safe, D64Inv, task.pc \in {"next", "link", "last"} \cup (Finishing \ {"newEntry"}),
           NEW c, c = task.h, NEW img, img = Now, NEW ws, OneWrite(ws), NEW ok \in BOOLEAN,
           ok \/ trouble < MaxTrouble, Put(c, ws, ok, FALSE), Undo(c), NEW new,
           new = ApplyAll(img, IF ok THEN ws ELSE <<>>), FreedOnly(img, new),
           new.free \subseteq img.free \cup (DirBlocks \ (Dir(img) \cup {System})),
           UNCHANGED <<buffered, saves, lost, acked>>
    PROVE  D64Inv' /\ Visible' = new /\ Flushed
  <1>1. task.pc \notin {"idle", "newEntry", "free", "clear", "reclaim", "restore"}
    BY DEF Finishing
  <1>2. Serves(img, c)
    BY <1>1, ServesChannel
  <1>3. /\ Good(img, stream, task, acked, saves) /\ img \in Image /\ task.pc \in Points
        /\ Seen(c) = img /\ c \in Channels /\ stream \in [Channels -> Streams(saves)]
        /\ stream[c].open /\ acked \subseteq 1..saves
    BY <1>2 DEF Serves, RunsOn
  <1>4. /\ task' = [task EXCEPT !.pc = "rollback", !.todo = stream[c].held]
        /\ stream' = [stream EXCEPT ![c].error = TRUE, ![c].creating = FALSE]
    BY DEF Undo
  <1>5. Good(new, stream', task', acked, saves)
    <2>1. task.pc \in {"next", "link", "last"} \cup Finishing
      OBVIOUS
    <2>. QED
      BY <1>3, <1>4, <2>1, UndoGood
  <1>6. task \in Tasks
    BY <1>3 DEF Good, WhoOK
  <1>7. task'.pc = "rollback" /\ task'.h = c
    BY <1>4, <1>6 DEF Tasks
  <1>8. Moves(FALSE)
    <2>1. stream'[c].open /\ \A d \in Channels : stream'[d].open => stream[d].open
      BY <1>3, <1>4 DEF Streams
    <2>. QED
      BY <1>3, <1>7, <2>1 DEF Moves
  <1>9. new \in Image
    BY DEF FreedOnly
  <1>. QED
    BY <1>1, <1>3, <1>5, <1>7, <1>8, <1>9, StepDone

\* A step of a save that goes on in the same handler or ends it.
LEMMA GoOnStep ==
    ASSUME Safe, D64Inv, NEW c, c = task.h, NEW img, img = Now, Serves(img, c),
           task.pc \notin {"idle", "newEntry"}, NEW ws, OneWrite(ws), Put(c, ws, TRUE, FALSE),
           NEW new \in Image, new = ApplyAll(img, ws), UNCHANGED <<buffered, saves, lost, acked>>,
           \A d \in Channels : stream'[d].open = stream[d].open,
           task' = Idle \/ task'.h = task.h, task'.pc # "newEntry",
           Good(new, stream', task', acked, saves)
    PROVE  D64Inv' /\ Visible' = new /\ Flushed
  <1>1. c \in Channels /\ stream[c].open /\ acked \subseteq 1..saves
    BY DEF Serves
  <1>2. Moves(FALSE)
    BY <1>1, IdleOK DEF Moves
  <1>. QED
    BY <1>1, <1>2, StepDone

NextDone(c) ==
    \/ /\ \E b \in FileBlocks : Took(b) /\ task' = [task EXCEPT !.pc = "link", !.new = b]
       /\ stream' = stream
    \/ Visible' = Visible /\ Undo(c)

LEMMA NextStep ==
    ASSUME Safe, D64Inv, NextBlock
    PROVE  D64Inv' /\ Flushed /\ NextDone(task.h)
  <1>0. task.pc = "next" /\ UNCHANGED <<buffered, saves, lost, acked>>
    BY DEF NextBlock, At
  <1>1. PICK c, img : c = task.h /\ img = Now /\ img = Visible /\ Serves(img, c)
    BY <1>0, ServesChannel, VisibleIsNow
  <1>2. /\ Good(img, stream, task, acked, saves) /\ img \in Image /\ task.pc \in Points
        /\ Seen(c) = img /\ c \in Channels /\ task \in Tasks
    BY <1>1 DEF Serves, RunsOn, Good, WhoOK
  <1>3. ASSUME NEW b \in FreeFor(img, FALSE), Put(c, AllocateWrite(img, b), TRUE, FALSE),
               task' = [task EXCEPT !.pc = "link", !.new = b], stream' = stream
        PROVE  D64Inv' /\ Flushed /\ NextDone(c)
    <2>1. PICK ws : ws = AllocateWrite(img, b)
      OBVIOUS
    <2>2. b \in img.free \cap FileBlocks
      BY <1>3 DEF FreeFor
    <2>3. /\ OneWrite(ws) /\ FreedOnly(img, ApplyAll(img, ws))
          /\ ApplyAll(img, ws).free = img.free \ {b}
      BY <1>2, <2>1, <2>2, Allocated
    <2>4. PICK new : new = ApplyAll(img, ws)
      OBVIOUS
    <2>5. Good(new, stream, task', acked, saves) /\ new \in Image
      BY <1>0, <1>1, <1>2, <1>3, <2>2, <2>3, <2>4, NextGood DEF FreedOnly
    <2>6. task'.pc = "link" /\ task'.h = task.h
      BY <1>2, <1>3 DEF Tasks
    <2>7. D64Inv' /\ Visible' = new /\ Flushed
      BY <1>0, <1>1, <1>3, <2>1, <2>3, <2>4, <2>5, <2>6, GoOnStep
    <2>8. Took(b)
      BY <1>1, <2>3, <2>4, <2>7 DEF Took
    <2>. QED
      BY <1>3, <2>2, <2>7, <2>8 DEF NextDone
  <1>4. ASSUME NEW ok \in BOOLEAN, ok \/ trouble < MaxTrouble, Put(c, <<>>, ok, FALSE), Undo(c)
        PROVE  D64Inv' /\ Flushed /\ NextDone(c)
    <2>1. ApplyAll(img, IF ok THEN <<>> ELSE <<>>) = img /\ FreedOnly(img, img) /\ OneWrite(<<>>)
      BY <1>2, NotWritten
    <2>2. task.pc \in {"next", "link", "last"} \cup (Finishing \ {"newEntry"})
      BY <1>0
    <2>3. D64Inv' /\ Visible' = img /\ Flushed
      BY <1>0, <1>1, <1>4, <2>1, <2>2, UndoStep
    <2>. QED
      BY <1>1, <1>4, <2>3 DEF NextDone
  <1>. QED
    BY <1>1, <1>2, <1>3, <1>4, OutcomesAre DEF NextBlock

ExtendDone(c) ==
    \/ /\ \E b \in DirBlocks : Took(b) /\ task' = [task EXCEPT !.pc = "dirLink", !.new = b]
       /\ stream' = stream
    \/ Visible' = Visible /\ Undo(c)

LEMMA ExtendStep ==
    ASSUME Safe, D64Inv, ExtendDirectory
    PROVE  D64Inv' /\ Flushed /\ ExtendDone(task.h)
  <1>0. task.pc = "extend" /\ UNCHANGED <<buffered, saves, lost, acked>>
    BY DEF ExtendDirectory, At
  <1>1. PICK c, img : c = task.h /\ img = Now /\ img = Visible /\ Serves(img, c)
    BY <1>0, ServesChannel, VisibleIsNow
  <1>2. /\ Good(img, stream, task, acked, saves) /\ img \in Image /\ task.pc \in Points
        /\ Seen(c) = img /\ c \in Channels /\ task \in Tasks
    BY <1>1 DEF Serves, RunsOn, Good, WhoOK
  <1>3. ASSUME NEW b \in FreeFor(img, TRUE), Put(c, AllocateWrite(img, b), TRUE, FALSE),
               task' = [task EXCEPT !.pc = "dirLink", !.new = b], stream' = stream
        PROVE  D64Inv' /\ Flushed /\ ExtendDone(c)
    <2>1. PICK ws : ws = AllocateWrite(img, b)
      OBVIOUS
    <2>2. b \in img.free \cap DirBlocks
      BY <1>3 DEF FreeFor
    <2>3. /\ OneWrite(ws) /\ FreedOnly(img, ApplyAll(img, ws))
          /\ ApplyAll(img, ws).free = img.free \ {b}
      BY <1>2, <2>1, <2>2, Allocated
    <2>4. PICK new : new = ApplyAll(img, ws)
      OBVIOUS
    <2>5. Good(new, stream, task', acked, saves) /\ new \in Image
      BY <1>0, <1>1, <1>2, <1>3, <2>2, <2>3, <2>4, ExtendGood DEF FreedOnly
    <2>6. task'.pc = "dirLink" /\ task'.h = task.h
      BY <1>2, <1>3 DEF Tasks
    <2>7. D64Inv' /\ Visible' = new /\ Flushed
      BY <1>0, <1>1, <1>3, <2>1, <2>3, <2>4, <2>5, <2>6, GoOnStep
    <2>8. Took(b)
      BY <1>1, <2>3, <2>4, <2>7 DEF Took
    <2>. QED
      BY <1>3, <2>2, <2>7, <2>8 DEF ExtendDone
  <1>4. ASSUME NEW ok \in BOOLEAN, ok \/ trouble < MaxTrouble, Put(c, <<>>, ok, FALSE), Undo(c)
        PROVE  D64Inv' /\ Flushed /\ ExtendDone(c)
    <2>1. ApplyAll(img, IF ok THEN <<>> ELSE <<>>) = img /\ FreedOnly(img, img) /\ OneWrite(<<>>)
      BY <1>2, NotWritten
    <2>2. task.pc \in {"next", "link", "last"} \cup (Finishing \ {"newEntry"})
      BY <1>0 DEF Finishing
    <2>3. D64Inv' /\ Visible' = img /\ Flushed
      BY <1>0, <1>1, <1>4, <2>1, <2>2, UndoStep
    <2>. QED
      BY <1>1, <1>4, <2>3 DEF ExtendDone
  <1>. QED
    BY <1>1, <1>2, <1>3, <1>4, OutcomesAre DEF ExtendDirectory

SlotDone(c) ==
    /\ Visible' = Visible
    /\ \/ stream' = stream /\ task'.h = task.h /\ task'.pc \in {"extend", "entry"}
       \/ Undo(c)

LEMMA SlotStep ==
    ASSUME Safe, D64Inv, FindSlot
    PROVE  D64Inv' /\ Flushed /\ SlotDone(task.h)
  <1>0. task.pc = "slot" /\ UNCHANGED <<buffered, saves, lost, acked>>
    BY DEF FindSlot, At
  <1>1. PICK c, img : c = task.h /\ img = Now /\ img = Visible /\ Serves(img, c)
    BY <1>0, ServesChannel, VisibleIsNow
  <1>2. /\ Good(img, stream, task, acked, saves) /\ img \in Image /\ task.pc \in Points
        /\ Seen(c) = img /\ c \in Channels /\ task \in Tasks
    BY <1>1 DEF Serves, RunsOn, Good, WhoOK
  <1>3. PICK slot : slot = FirstSlot(img, LAMBDA e : ~e.live)
    OBVIOUS
  <1>4. slot = NoSlot \/ slot \in Places(img) \ Live(img)
    BY <1>3, FreeSlotFinds
  <1>5. PICK ok \in Outcomes :
          /\ Put(c, <<>>, ok, FALSE)
          /\ IF ok
             THEN /\ task' = [task EXCEPT !.slot = slot,
                                !.pc = IF slot = NoSlot THEN "extend" ELSE "entry"]
                  /\ stream' = stream
             ELSE Undo(c)
    BY <1>1, <1>2, <1>3 DEF FindSlot
  <1>6. ok \in BOOLEAN /\ (ok \/ trouble < MaxTrouble)
    BY OutcomesAre
  <1>7. /\ ApplyAll(img, IF ok THEN <<>> ELSE <<>>) = img /\ ApplyAll(img, <<>>) = img
        /\ FreedOnly(img, img) /\ OneWrite(<<>>)
    BY <1>2, NotWritten
  <1>8. CASE ok
    <2>1. Good(img, stream, task', acked, saves)
      BY <1>0, <1>2, <1>4, <1>5, <1>8, SlotGood
    <2>2. task'.pc # "newEntry" /\ task'.h = task.h
      BY <1>2, <1>5, <1>8 DEF Tasks
    <2>3. ok = TRUE
      BY <1>6, <1>8
    <2>4. Put(c, <<>>, TRUE, FALSE) /\ stream' = stream
      BY <1>5, <2>3
    <2>5. D64Inv' /\ Visible' = img /\ Flushed
      BY <1>0, <1>1, <1>2, <1>7, <2>1, <2>2, <2>4, GoOnStep
    <2>6. task'.pc \in {"extend", "entry"}
      BY <1>2, <1>5, <1>8 DEF Tasks
    <2>. QED
      BY <1>1, <2>2, <2>4, <2>5, <2>6 DEF SlotDone
  <1>9. CASE ~ok
    <2>1. task.pc \in {"next", "link", "last"} \cup (Finishing \ {"newEntry"})
      BY <1>0 DEF Finishing
    <2>2. D64Inv' /\ Visible' = img /\ Flushed
      BY <1>0, <1>1, <1>5, <1>6, <1>7, <1>9, <2>1, UndoStep
    <2>. QED
      BY <1>1, <1>5, <1>9, <2>2 DEF SlotDone
  <1>. QED
    BY <1>6, <1>8, <1>9

\* The block a save writes.
LEMMA FileBlockApplied ==
    ASSUME D64Inv, NEW c, c = task.h, NEW img, img = Now, Serves(img, c),
           task.pc \in {"link", "last"}, NEW nx \in Links, NEW ws, ws = FileBlock(c, nx),
           NEW q, q = stream[c].held
    PROVE  /\ OneWrite(ws)
           /\ Written(img, ApplyAll(img, ws), q[Len(q)], nx, FileData(stream[c].id, Len(q)))
  <1>1. /\ Good(img, stream, task, acked, saves) /\ img \in Image /\ task.pc \in Points
        /\ c \in Channels /\ stream[c].open
    BY DEF Serves, RunsOn
  <1>2. /\ StreamOK(stream[c], Busied(task, c), saves) /\ stream[c] \in Streams(saves)
        /\ WhoOK(stream, task)
    BY <1>1, Running
  <1>3. stream[c].creating \/ Busied(task, c)
    BY <1>2 DEF WhoOK, Busied, Finalizing
  <1>4. q # <<>> /\ Len(q) <= MaxBlocks /\ stream[c].id \in 1..saves
    BY <1>1, <1>2, <1>3 DEF StreamOK
  <1>5. q \in Seq(FileBlocks) /\ Len(q) \in Nat /\ Len(q) > 0 /\ Range(q) \subseteq FileBlocks
        /\ q[Len(q)] \in Range(q)
    BY <1>2, <1>4, HeldSeq
  <1>6. Len(q) \in 1..MaxBlocks /\ stream[c].id \in 1..MaxSaves
    <2>1. saves \in 0..MaxSaves
      BY DEF D64Inv, CountsOK
    <2>. QED
      BY <1>4, <1>5, <2>1, BoundAssumption
  <1>7. PICK d : d = FileData(stream[c].id, Len(q))
    OBVIOUS
  <1>8. d \in Contents
    BY <1>6, <1>7 DEF FileData, Contents
  <1>9. Last(q) = q[Len(q)] /\ q[Len(q)] \in Block
    BY <1>5, Ranges DEF Last
  <1>10. ws = BlockWrite(q[Len(q)], nx, d)
    BY <1>7, <1>9 DEF FileBlock, FileData
  <1>. QED
    BY <1>1, <1>7, <1>8, <1>9, <1>10, BlockApplied

BlockDone(c, nx) ==
    Written(Visible, Visible', stream[c].held[Len(stream[c].held)], nx,
            FileData(stream[c].id, Len(stream[c].held)))
LinkDone(c) ==
    \/ /\ BlockDone(c, task.new) /\ task' = Idle
       /\ stream' = [stream EXCEPT ![c].held = Append(stream[c].held, task.new)]
    \/ Fails /\ Undo(c)

LEMMA LinkStep ==
    ASSUME Safe, D64Inv, LinkBlock
    PROVE  D64Inv' /\ Flushed /\ LinkDone(task.h)
  <1>0. task.pc = "link" /\ UNCHANGED <<buffered, saves, lost, acked>>
    BY DEF LinkBlock, At
  <1>1. PICK c, img : c = task.h /\ img = Now /\ img = Visible /\ Serves(img, c)
    BY <1>0, ServesChannel, VisibleIsNow
  <1>2. /\ Good(img, stream, task, acked, saves) /\ img \in Image /\ task.pc \in Points
        /\ Seen(c) = img /\ c \in Channels /\ stream \in [Channels -> Streams(saves)]
    BY <1>1 DEF Serves, RunsOn
  <1>3. PICK q : q = stream[c].held
    OBVIOUS
  <1>4. PICK ws : ws = FileBlock(c, task.new)
    OBVIOUS
  <1>5. PICK ok \in Outcomes :
          /\ Put(c, ws, ok, FALSE)
          /\ IF ok
             THEN /\ stream' = [stream EXCEPT ![c].held = Append(q, task.new)] /\ task' = Idle
             ELSE Undo(c)
    BY <1>1, <1>2, <1>3, <1>4 DEF LinkBlock
  <1>6. ok \in BOOLEAN /\ (ok \/ trouble < MaxTrouble)
    BY OutcomesAre
  <1>7. task.new \in Links
    <2>1. task.new \in FileBlocks
      BY <1>0, <1>2 DEF Good, StepOK
    <2>. QED
      BY <2>1, Ranges
  <1>8. PICK new : new = ApplyAll(img, ws)
    OBVIOUS
  <1>9. /\ OneWrite(ws)
        /\ Written(img, new, q[Len(q)], task.new, FileData(stream[c].id, Len(q)))
    <2>1. task.pc \in {"link", "last"}
      BY <1>0
    <2>. QED
      BY <1>1, <1>3, <1>4, <1>7, <1>8, <2>1, FileBlockApplied
  <1>10. CASE ok
    <2>1. ok = TRUE
      BY <1>6, <1>10
    <2>2. Put(c, ws, TRUE, FALSE) /\ stream' = [stream EXCEPT ![c].held = Append(q, task.new)]
          /\ task' = Idle
      BY <1>5, <2>1
    <2>3. Good(new, stream', Idle, acked, saves)
      BY <1>0, <1>1, <1>2, <1>3, <1>9, <2>2, LinkGood
    <2>4. new \in Image
      BY <1>9 DEF Written, Changed
    <2>5. \A d \in Channels : stream'[d].open = stream[d].open
      BY <1>2, <2>2 DEF Streams
    <2>6. Idle.pc # "newEntry"
      BY IdleOK
    <2>7. D64Inv' /\ Visible' = new /\ Flushed
      BY <1>0, <1>1, <1>8, <1>9, <2>2, <2>3, <2>4, <2>5, <2>6, GoOnStep
    <2>8. BlockDone(c, task.new)
      BY <1>1, <1>3, <1>9, <2>7 DEF BlockDone
    <2>. QED
      BY <1>1, <1>3, <2>2, <2>7, <2>8 DEF LinkDone
  <1>11. CASE ~ok
    <2>1. task.pc \in {"next", "link", "last"} \cup (Finishing \ {"newEntry"})
      BY <1>0
    <2>2. ApplyAll(img, IF ok THEN ws ELSE <<>>) = img /\ FreedOnly(img, img)
      BY <1>2, <1>11, NotWritten
    <2>3. D64Inv' /\ Visible' = img /\ Flushed
      BY <1>0, <1>1, <1>5, <1>6, <1>9, <1>11, <2>1, <2>2, UndoStep
    <2>4. Fails /\ Undo(c)
      BY <1>1, <1>5, <1>11, <2>3, OutcomesAre DEF Fails
    <2>. QED
      BY <1>1, <2>3, <2>4 DEF LinkDone
  <1>. QED
    BY <1>6, <1>10, <1>11

LastDone(c) ==
    \/ BlockDone(c, End) /\ stream' = stream /\ task'.h = task.h /\ task'.pc = "slot"
    \/ Visible' = Visible /\ Undo(c)

LEMMA LastStep ==
    ASSUME Safe, D64Inv, LastBlock
    PROVE  D64Inv' /\ Flushed /\ LastDone(task.h)
  <1>0. task.pc = "last" /\ UNCHANGED <<buffered, saves, lost, acked>>
    BY DEF LastBlock, At
  <1>1. PICK c, img : c = task.h /\ img = Now /\ img = Visible /\ Serves(img, c)
    BY <1>0, ServesChannel, VisibleIsNow
  <1>2. /\ Good(img, stream, task, acked, saves) /\ img \in Image /\ task.pc \in Points
        /\ Seen(c) = img /\ c \in Channels /\ task \in Tasks
    BY <1>1 DEF Serves, RunsOn, Good, WhoOK
  <1>3. PICK q : q = stream[c].held
    OBVIOUS
  <1>4. PICK ws : ws = FileBlock(c, End)
    OBVIOUS
  <1>5. PICK ok \in Outcomes :
          /\ Put(c, ws, ok, FALSE)
          /\ IF ok THEN task' = [task EXCEPT !.pc = "slot"] /\ stream' = stream ELSE Undo(c)
    BY <1>1, <1>2, <1>4 DEF LastBlock, Goto
  <1>6. ok \in BOOLEAN /\ (ok \/ trouble < MaxTrouble)
    BY OutcomesAre
  <1>8. PICK new : new = ApplyAll(img, ws)
    OBVIOUS
  <1>9. OneWrite(ws) /\ Written(img, new, q[Len(q)], End, FileData(stream[c].id, Len(q)))
    <2>1. task.pc \in {"link", "last"} /\ End \in Links
      BY <1>0, Ranges
    <2>. QED
      BY <1>1, <1>3, <1>4, <1>8, <2>1, FileBlockApplied
  <1>10. CASE ok
    <2>1. ok = TRUE
      BY <1>6, <1>10
    <2>2. Put(c, ws, TRUE, FALSE) /\ task' = [task EXCEPT !.pc = "slot"] /\ stream' = stream
      BY <1>5, <2>1
    <2>3. Good(new, stream, task', acked, saves)
      BY <1>0, <1>1, <1>2, <1>3, <1>9, <2>2, LastGood
    <2>4. new \in Image
      BY <1>9 DEF Written, Changed
    <2>5. task'.pc = "slot" /\ task'.h = task.h
      BY <1>2, <2>2 DEF Tasks
    <2>6. D64Inv' /\ Visible' = new /\ Flushed
      BY <1>0, <1>1, <1>8, <1>9, <2>2, <2>3, <2>4, <2>5, GoOnStep
    <2>7. BlockDone(c, End)
      BY <1>1, <1>3, <1>9, <2>6 DEF BlockDone
    <2>. QED
      BY <1>1, <2>2, <2>5, <2>6, <2>7 DEF LastDone
  <1>11. CASE ~ok
    <2>1. task.pc \in {"next", "link", "last"} \cup (Finishing \ {"newEntry"})
      BY <1>0
    <2>2. ApplyAll(img, IF ok THEN ws ELSE <<>>) = img /\ FreedOnly(img, img)
      BY <1>2, <1>11, NotWritten
    <2>3. D64Inv' /\ Visible' = img /\ Flushed
      BY <1>0, <1>1, <1>5, <1>6, <1>9, <1>11, <2>1, <2>2, UndoStep
    <2>. QED
      BY <1>1, <1>5, <1>11, <2>3 DEF LastDone
  <1>. QED
    BY <1>6, <1>10, <1>11

LEMMA UndoDirStep ==
    ASSUME Safe, D64Inv, UndoDirectory
    PROVE  D64Inv' /\ Flushed /\ Undo(task.h) /\ (Gave(task.new) \/ Fails)
  <1>0. task.pc = "undoDir" /\ UNCHANGED <<buffered, saves, lost, acked>>
    BY DEF UndoDirectory, At
  <1>1. PICK c, img : c = task.h /\ img = Now /\ img = Visible /\ Serves(img, c)
    BY <1>0, ServesChannel, VisibleIsNow
  <1>2. /\ Good(img, stream, task, acked, saves) /\ img \in Image /\ task.pc \in Points
        /\ Seen(c) = img
    BY <1>1 DEF Serves, RunsOn
  <1>3. PICK ws : ws = DeallocateWrite(img, task.new)
    OBVIOUS
  <1>4. PICK ok \in Outcomes : Put(c, ws, ok, FALSE) /\ Undo(c)
    BY <1>1, <1>2, <1>3 DEF UndoDirectory
  <1>5. ok \in BOOLEAN /\ (ok \/ trouble < MaxTrouble)
    BY OutcomesAre
  <1>6. task.new \in DirBlocks \ (Dir(img) \cup {System}) /\ task.new \in Block
    BY <1>0, <1>2, Ranges DEF Good, StepOK
  <1>7. /\ OneWrite(ws) /\ FreedOnly(img, ApplyAll(img, ws))
        /\ ApplyAll(img, ws).free = img.free \cup {task.new}
    BY <1>2, <1>3, <1>6, Deallocated
  <1>8. ApplyAll(img, <<>>) = img /\ FreedOnly(img, img)
    BY <1>2, NotWritten
  <1>9. PICK new : new = ApplyAll(img, IF ok THEN ws ELSE <<>>)
    OBVIOUS
  <1>10. FreedOnly(img, new) /\ new.free \subseteq img.free \cup (DirBlocks \ (Dir(img) \cup {System}))
    BY <1>5, <1>6, <1>7, <1>8, <1>9
  <1>11. task.pc \in {"next", "link", "last"} \cup (Finishing \ {"newEntry"})
    BY <1>0 DEF Finishing
  <1>12. D64Inv' /\ Visible' = new /\ Flushed
    BY <1>0, <1>1, <1>4, <1>5, <1>7, <1>9, <1>10, <1>11, UndoStep
  <1>13. CASE ok
    BY <1>1, <1>4, <1>7, <1>9, <1>12, <1>13 DEF Gave
  <1>14. CASE ~ok
    BY <1>1, <1>4, <1>8, <1>9, <1>12, <1>14, OutcomesAre DEF Fails
  <1>. QED
    BY <1>5, <1>13, <1>14

\* Only the last directory sector can link to a new one.
LEMMA NobodyLinks ==
    ASSUME NEW img, NEW but, NEW done, Sound(img, but, done), NEW last, last = Last(DirChain(img)),
           NEW b \in DirBlocks \ Dir(img)
    PROVE  /\ last \in Block /\ last \in Dir(img) /\ img.next[last] = End
           /\ \A x \in Links \ {last} : img.next[x] # b
  <1>1. /\ LinksOK(img) /\ img \in Image /\ DirOK(img)
    BY DEF Sound
  <1>2. PICK p : p = DirChain(img)
    OBVIOUS
  <1>3. Path(img, p) /\ p \in Walks /\ Ends(img, p) /\ Dir(img) = Range(p)
    BY <1>1, <1>2, ChainPath, Ranges, DirWalk DEF DirChain, DirOK, Dir
  <1>4. /\ Len(p) \in Nat /\ Len(p) >= 1 /\ last = p[Len(p)] /\ last \in Dir(img)
        /\ (\A i \in 1..Len(p) : p[i] \in Dir(img))
        /\ (\A x \in Dir(img) : \E i \in 1..Len(p) : x = p[i])
    BY <1>2, <1>3, WalkLen, RangeOfWalk
  <1>5. img.next[last] = End /\ last \in Block
    BY <1>2, <1>3, <1>4, DirWalk DEF Ends
  <1>6. ASSUME NEW x \in Dir(img), x # last PROVE img.next[x] # b
    <2>1. PICK i \in 1..Len(p) : x = p[i]
      BY <1>4
    <2>2. i \in 1..(Len(p) - 1) /\ i + 1 \in 1..Len(p)
      BY <1>4, <1>6, <2>1
    <2>3. img.next[x] = p[i + 1]
      BY <1>3, <2>1, <2>2 DEF Path
    <2>. QED
      BY <1>4, <2>2, <2>3
  <1>7. ASSUME NEW x \in FileBlocks PROVE img.next[x] # b
    <2>1. Unformatted \notin DirBlocks
      BY GeometryAssumption DEF Unformatted, DirBlocks
    <2>. QED
      BY <1>1, <2>1, Ranges DEF LinksOK
  <1>8. ASSUME NEW x \in DirBlocks \ Dir(img) PROVE img.next[x] # b
    BY <1>1 DEF LinksOK
  <1>9. ASSUME NEW x \in Links \ Block PROVE img.next[x] # b
    BY <1>1, Ranges DEF Image
  <1>. QED
    BY <1>4, <1>5, <1>6, <1>7, <1>8, <1>9, Ranges

\* What others see while the new sector is linked and not written.
Hidden(img, b) == [img EXCEPT !.next = [x \in Links |-> IF @[x] = b THEN End ELSE @[x]]]

OnlyLinked(img, new, last, b) == Hidden(new, b) = img /\ new = [img EXCEPT !.next[last] = b]

LEMMA HidesLink ==
    ASSUME NEW img, NEW new, NEW but, NEW done, Sound(img, but, done),
           NEW last, last = Last(DirChain(img)), NEW b \in DirBlocks \ Dir(img),
           Written(img, new, last, b, img.data[last])
    PROVE  OnlyLinked(img, new, last, b)
  <1>1. /\ last \in Block /\ img.next[last] = End /\ last \in Links
        /\ \A x \in Links \ {last} : img.next[x] # b
    BY NobodyLinks, Ranges
  <1>2. /\ img \in Image /\ new \in Image /\ new.free = img.free /\ new.next[last] = b
        /\ (\A x \in Links \ {last} : new.next[x] = img.next[x])
        /\ (\A x \in Block \ {last} : new.data[x] = img.data[x])
        /\ new.data[last] = img.data[last]
    BY DEF Written, Changed
  <1>3. img.next \in [Links -> Links] /\ new.next \in [Links -> Links]
        /\ img.data \in [Block -> Contents] /\ new.data \in [Block -> Contents]
    BY <1>2, ImageFields
  <1>4. new.data = img.data
    BY <1>2, <1>3
  <1>5. PICK f : f = [x \in Links |-> IF new.next[x] = b THEN End ELSE new.next[x]]
    OBVIOUS
  <1>6. f = img.next
    <2>1. f \in [Links -> Links]
      BY <1>3, <1>5, Ranges
    <2>2. \A x \in Links : f[x] = img.next[x]
      BY <1>1, <1>2, <1>5
    <2>. QED
      BY <1>3, <2>1, <2>2
  <1>7. Hidden(new, b) = [new EXCEPT !.next = f]
    BY <1>2, <1>5 DEF Hidden, Image
  <1>8. Hidden(new, b) = img
    BY <1>2, <1>4, <1>6, <1>7 DEF Image
  <1>9. new.next = [img.next EXCEPT ![last] = b]
    BY <1>1, <1>2, <1>3
  <1>10. new = [img EXCEPT !.next[last] = b]
    BY <1>2, <1>4, <1>9 DEF Image
  <1>. QED
    BY <1>8, <1>10 DEF OnlyLinked

LinkDirDone ==
    /\ Visible' = Visible /\ stream' = stream
    /\ task'.h = task.h /\ task'.new = task.new /\ task'.pc \in {"newEntry", "undoDir"}

LEMMA LinkDirStep ==
    ASSUME Safe, D64Inv, LinkDirectory
    PROVE  D64Inv' /\ Flushed /\ LinkDirDone
  <1>0. task.pc = "dirLink" /\ UNCHANGED <<buffered, stream, saves, lost, acked>>
    BY DEF LinkDirectory, At
  <1>1. PICK c, img : c = task.h /\ img = Now /\ img = Visible /\ Serves(img, c)
    BY <1>0, ServesChannel, VisibleIsNow
  <1>2. /\ Good(img, stream, task, acked, saves) /\ img \in Image /\ task.pc \in Points
        /\ Seen(c) = img /\ c \in Channels /\ c \in Handles /\ Busy(c) /\ task \in Tasks
        /\ stream[c].open /\ c # Shell /\ acked \subseteq 1..saves
    BY <1>1 DEF Serves, RunsOn, Good, WhoOK
  <1>3. PICK last : last = Last(DirChain(img))
    OBVIOUS
  <1>4. PICK b : b = task.new
    OBVIOUS
  <1>5. /\ b \in DirBlocks \ Dir(img) /\ Sound(img, NoSlot, acked)
    BY <1>0, <1>2, <1>4 DEF Good, StepOK, But
  <1>6. last \in Block /\ last \in Dir(img)
    BY <1>3, <1>5, NobodyLinks
  <1>7. PICK ws : ws = BlockWrite(last, b, img.data[last])
    OBVIOUS
  <1>8. PICK new : new = ApplyAll(img, ws)
    OBVIOUS
  <1>9. OneWrite(ws) /\ Written(img, new, last, b, img.data[last])
    <2>1. b \in Links /\ img.data[last] \in Contents
      BY <1>2, <1>5, <1>6, Ranges, ImageFields
    <2>. QED
      BY <1>2, <1>6, <1>7, <1>8, <2>1, BlockApplied
  <1>10. PICK ok \in Outcomes :
           /\ Put(c, ws, ok, FALSE)
           /\ task' = [task EXCEPT !.pc = IF ok THEN "newEntry" ELSE "undoDir"]
    BY <1>1, <1>2, <1>3, <1>4, <1>7 DEF LinkDirectory, Goto
  <1>11. ok \in BOOLEAN /\ (ok \/ trouble < MaxTrouble)
    BY OutcomesAre
  <1>12. task'.h = c /\ task'.new = b /\ task'.pc = IF ok THEN "newEntry" ELSE "undoDir"
    BY <1>1, <1>2, <1>4, <1>10 DEF Tasks
  <1>13. Good(img, stream, task', acked, saves)
    <2>1. PICK pc \in {"newEntry", "undoDir"} : pc = IF ok THEN "newEntry" ELSE "undoDir"
      OBVIOUS
    <2>2. task' = [task EXCEPT !.pc = pc]
      BY <1>10, <2>1
    <2>. QED
      BY <1>0, <1>2, <2>2, LinkDirGood
  <1>14. Moves(FALSE)
    BY <1>0, <1>1, <1>2, <1>12 DEF Moves
  <1>15. CASE ~ok
    <2>1. ApplyAll(img, IF ok THEN ws ELSE <<>>) = img
      BY <1>2, <1>15, NotWritten
    <2>2. task'.pc # "newEntry"
      BY <1>12, <1>15
    <2>3. UNCHANGED <<buffered, saves, lost>> /\ task.pc # "idle" /\ task.pc # "newEntry"
      BY <1>0
    <2>4. Good(img, stream', task', acked', saves) /\ acked' \subseteq 1..saves
      BY <1>0, <1>2, <1>13
    <2>5. D64Inv' /\ Visible' = img /\ Flushed
      BY <1>1, <1>2, <1>9, <1>10, <1>11, <1>14, <1>15, <2>1, <2>2, <2>3, <2>4, StepDone
    <2>. QED
      BY <1>0, <1>1, <1>4, <1>12, <2>5 DEF LinkDirDone
  <1>16. CASE ok
    <2>1. ok = TRUE /\ task'.pc = "newEntry"
      BY <1>11, <1>12, <1>16
    <2>2. Put(c, ws, TRUE, FALSE) /\ new = ApplyAll(Now, IF TRUE THEN ws ELSE <<>>) /\ PendOK
      BY <1>1, <1>8, <1>10, <2>1 DEF D64Inv
    <2>3. PutDone(c, new, FALSE)
      BY <1>2, <1>9, <2>2, PutIs
    <2>4. Busy(c)' /\ \A g \in Handles : Busy(g)' => Busy(g)
      BY <1>0, <1>1, <1>14, StillBusy
    <2>5. new \in Image /\ task.pc # "newEntry" /\ acked' = acked /\ buffered' = buffered
      BY <1>0, <1>9 DEF Written, Changed
    <2>6. PendOK' /\ image' \in Image
      BY <1>2, <2>3, <2>4, <2>5, PutPend
    <2>7. Hidden(new, b) = img /\ new = [img EXCEPT !.next[last] = b]
      <3>1. OnlyLinked(img, new, last, b)
        BY <1>3, <1>5, <1>9, HidesLink
      <3>. QED
        BY <3>1 DEF OnlyLinked
    <2>8. Now' = new
      BY <2>3 DEF PutDone
    <2>9. Visible' = Hidden(Now', task'.new)
      BY <2>1 DEF Visible, Now, Holding, Hidden
    <2>10. Visible' = img
      BY <1>12, <2>7, <2>8, <2>9
    <2>11. NewLinked'
      BY <1>3, <1>12, <2>7, <2>8, <2>10 DEF NewLinked
    <2>12. CountsOK'
      BY <1>0, <2>2 DEF D64Inv, CountsOK, Put
    <2>13. Good(Visible', stream', task', acked', saves')
      BY <1>0, <1>13, <2>10
    <2>14. Flushed
      BY <1>1, <2>3 DEF PutDone, Flushed
    <2>. QED
      BY <1>0, <1>1, <1>4, <1>12, <2>6, <2>10, <2>11, <2>12, <2>13, <2>14 DEF D64Inv, LinkDirDone
  <1>. QED
    BY <1>11, <1>15, <1>16

\* A directory sector is written back with another entry.
LEMMA SlotApplied ==
    ASSUME NEW img, NEW but, NEW done, Sound(img, but, done), task.pc \in Points,
           NEW s \in Places(img), NEW e \in Entries, NEW ws, ws = SlotWrite(img, s, e)
    PROVE  OneWrite(ws) /\ Entered(img, ApplyAll(img, ws), s, e)
  <1>1. img \in Image /\ DirOK(img)
    BY DEF Sound
  <1>2. PICK b, i : b = s[1] /\ i = s[2]
    OBVIOUS
  <1>3. b \in Dir(img) /\ i \in 1..SlotsPerSector /\ b \in Block
    BY <1>2, DirWalk DEF Places
  <1>4. img.data[b] \in Contents /\ img.data[b].kind = "dir" /\ img.next[b] \in Links
    BY <1>1, <1>3, Ranges, ImageFields DEF DirOK
  <1>5. PICK d : d = [img.data[b] EXCEPT !.slots[i] = e]
    OBVIOUS
  <1>6. d \in Contents
    <2>1. img.data[b] \in [kind : {"dir"}, slots : [1..SlotsPerSector -> Entries]]
      BY <1>4 DEF Contents
    <2>2. d \in [kind : {"dir"}, slots : [1..SlotsPerSector -> Entries]]
      BY <1>3, <1>5, <2>1
    <2>. QED
      BY <2>2 DEF Contents
  <1>7. ws = BlockWrite(b, img.next[b], d)
    BY <1>2, <1>5 DEF SlotWrite
  <1>8. OneWrite(ws) /\ Written(img, ApplyAll(img, ws), b, img.next[b], d)
    BY <1>1, <1>3, <1>4, <1>6, <1>7, BlockApplied
  <1>9. PICK new : new = ApplyAll(img, ws)
    OBVIOUS
  <1>10. /\ Changed(img, new, s[1]) /\ new.free = img.free /\ new.next[s[1]] = img.next[s[1]]
         /\ new.data[s[1]] = [img.data[s[1]] EXCEPT !.slots[s[2]] = e]
    BY <1>2, <1>5, <1>8, <1>9 DEF Written
  <1>11. Entered(img, new, s, e)
    BY <1>10, SlotEntered
  <1>. QED
    BY <1>8, <1>9, <1>11

\* The entry of a save.
EntryOf(s) == [live |-> TRUE, name |-> s.name, start |-> Head(s.held), blocks |-> Len(s.held)]

LEMMA EntryOfSave ==
    ASSUME NEW img, NEW strm, NEW tsk, NEW done, NEW n, Good(img, strm, tsk, done, n),
           tsk.pc \in Finishing, NEW c, c = tsk.h
    PROVE  /\ c \in Channels /\ EntryOf(strm[c]) \in Entries /\ strm[c].id \in 1..n
           /\ strm \in [Channels -> Streams(n)] /\ strm[c].open
  <1>0. tsk.pc \notin {"idle", "free", "clear", "reclaim", "restore", "rollback"}
    BY DEF Finishing
  <1>1. /\ c \in Channels /\ strm[c].open /\ StreamOK(strm[c], Busied(tsk, c), n)
        /\ strm[c] \in Streams(n) /\ strm \in [Channels -> Streams(n)]
    BY <1>0, Running
  <1>2. PICK q : q = strm[c].held
    OBVIOUS
  <1>3. q # <<>> /\ Len(q) <= MaxBlocks /\ strm[c].name \in Names /\ strm[c].id \in 1..n
    BY <1>1, <1>2 DEF StreamOK, Busied, Finalizing
  <1>4. q \in Seq(FileBlocks) /\ Len(q) \in Nat
    BY <1>1, <1>2, HeldSeq
  <1>5. Head(q) \in Block /\ Len(q) \in 0..MaxBlocks
    BY <1>3, <1>4, Ranges, BoundAssumption
  <1>. QED
    BY <1>1, <1>2, <1>3, <1>5 DEF EntryOf, Entries

\* The entry is written, and the channel is closed.
LEMMA EntryWritten ==
    ASSUME Safe, D64Inv, task.pc \in {"entry", "newEntry"}, NEW c, c = task.h, NEW img,
           Good(img, stream, task, acked, saves), NEW ws, OneWrite(ws), Put(c, ws, TRUE, TRUE),
           NEW new, new = ApplyAll(Now, ws), NEW s, s \notin Live(img),
           Entered(img, new, s, EntryOf(stream[c])),
           stream' = [stream EXCEPT ![c] = NoStream], acked' = acked \cup {stream[c].id},
           task' = Idle, UNCHANGED <<buffered, saves, lost>>
    PROVE  D64Inv' /\ Visible' = new /\ Flushed
  <1>1. task.pc \in Finishing
    BY DEF Finishing
  <1>2. /\ c \in Channels /\ stream[c].id \in 1..saves
        /\ stream \in [Channels -> Streams(saves)] /\ stream[c].open
    BY <1>1, EntryOfSave
  <1>3. Good(new, stream', Idle, acked', saves)
    <2>1. PICK q : q = stream[c].held
      OBVIOUS
    <2>2. PICK e : e = [live |-> TRUE, name |-> stream[c].name, start |-> Head(q), blocks |-> Len(q)]
      OBVIOUS
    <2>3. Entered(img, new, s, e)
      BY <2>1, <2>2 DEF EntryOf
    <2>. QED
      BY <1>1, <2>1, <2>2, <2>3, EntryGood
  <1>4. Moves(TRUE)
    BY <1>2, IdleOK DEF Moves, NoStream
  <1>5. new \in Image /\ Idle.pc = "idle"
    BY IdleOK DEF Entered
  <1>6. acked' \subseteq 1..saves
    BY <1>2 DEF D64Inv, CountsOK
  <1>. QED
    BY <1>3, <1>4, <1>5, <1>6, StepDone

EntersAt(s, e) ==
    /\ s \notin Live(Visible) /\ Entered(Visible, Visible', s, e)
    /\ task.pc = "newEntry" => s[1] = task.new
EntryDone(c) ==
    \/ /\ \E s : EntersAt(s, EntryOf(stream[c]))
       /\ stream' = [stream EXCEPT ![c] = NoStream] /\ task' = Idle
    \/ Visible' = Visible /\ Undo(c) /\ task.pc = "entry"

LEMMA EntryStep ==
    ASSUME Safe, D64Inv, WriteEntry
    PROVE  D64Inv' /\ Flushed /\ EntryDone(task.h)
  <1>1. PICK c, e : c = task.h /\ e = EntryOf(stream[c])
    OBVIOUS
  <1>2. UNCHANGED <<buffered, saves, lost>> /\ task.pc \in {"entry", "newEntry"}
    BY DEF WriteEntry, At
  <1>3. task.pc \in Finishing
    BY <1>2 DEF Finishing
  <1>4. e \in Entries
    BY <1>1, <1>3, EntryOfSave DEF D64Inv
  <1>5. CASE task.pc = "entry"
    <2>1. PICK img : img = Now /\ img = Visible /\ Serves(img, c)
      BY <1>1, <1>5, ServesChannel, VisibleIsNow
    <2>2. /\ Good(img, stream, task, acked, saves) /\ img \in Image /\ task.pc \in Points
          /\ Seen(c) = img
      BY <2>1 DEF Serves, RunsOn
    <2>3. PICK ws : ws = SlotWrite(img, task.slot, e)
      OBVIOUS
    <2>4. PICK ok \in Outcomes :
            /\ Put(c, ws, ok, ok)
            /\ IF ok
               THEN /\ stream' = [stream EXCEPT ![c] = NoStream]
                    /\ acked' = acked \cup {stream[c].id} /\ task' = Idle
               ELSE Undo(c) /\ acked' = acked
      BY <1>1, <1>5, <2>2, <2>3 DEF WriteEntry, At, EntryOf
    <2>5. ok \in BOOLEAN /\ (ok \/ trouble < MaxTrouble)
      BY OutcomesAre
    <2>6. PICK s : s = task.slot
      OBVIOUS
    <2>7. s \in Places(img) \ Live(img) /\ Sound(img, NoSlot, acked)
      BY <1>5, <2>2, <2>6 DEF Good, StepOK, But
    <2>8. OneWrite(ws) /\ Entered(img, ApplyAll(img, ws), s, e)
      BY <1>4, <2>2, <2>3, <2>6, <2>7, SlotApplied
    <2>9. CASE ok
      <3>1. ok = TRUE
        BY <2>5, <2>9
      <3>2. /\ Put(c, ws, TRUE, TRUE) /\ stream' = [stream EXCEPT ![c] = NoStream]
            /\ acked' = acked \cup {stream[c].id} /\ task' = Idle
        BY <2>4, <3>1
      <3>3. D64Inv' /\ Visible' = ApplyAll(img, ws) /\ Flushed
        BY <1>1, <1>2, <2>1, <2>2, <2>7, <2>8, <3>2, EntryWritten
      <3>4. EntersAt(s, e)
        BY <1>5, <2>1, <2>7, <2>8, <3>3 DEF EntersAt
      <3>. QED
        BY <1>1, <3>2, <3>3, <3>4 DEF EntryDone
    <2>10. CASE ~ok
      <3>1. ok = FALSE
        BY <2>5, <2>10
      <3>2. Put(c, ws, FALSE, FALSE) /\ Undo(c) /\ UNCHANGED <<buffered, saves, lost, acked>>
        BY <1>2, <2>4, <3>1
      <3>3. ApplyAll(img, IF FALSE THEN ws ELSE <<>>) = img /\ FreedOnly(img, img)
        BY <2>2, NotWritten
      <3>4. task.pc \in {"next", "link", "last"} \cup (Finishing \ {"newEntry"})
        BY <1>3, <1>5
      <3>5. D64Inv' /\ Visible' = img /\ Flushed
        BY <1>1, <2>1, <2>5, <2>8, <2>10, <3>2, <3>3, <3>4, UndoStep
      <3>. QED
        BY <1>1, <1>5, <2>1, <3>2, <3>5 DEF EntryDone
    <2>. QED
      BY <2>5, <2>9, <2>10
  <1>6. CASE task.pc = "newEntry"
    <2>1. PICK img : img = Visible /\ Good(img, stream, task, acked, saves)
      BY DEF D64Inv
    <2>2. Seen(c) = Now /\ task.pc \in Points
      BY <1>1, <1>6, BusyRuns
    <2>3. PICK b, last : b = task.new /\ last = Last(DirChain(img))
      OBVIOUS
    <2>4. /\ b \in DirBlocks \ (Dir(img) \cup {System} \cup img.free) /\ Sound(img, NoSlot, acked)
          /\ b \in Block /\ img \in Image
      BY <1>6, <2>1, <2>3, Ranges DEF Good, StepOK, But, Sound
    <2>5. last \in Block /\ last \in Dir(img) /\ last # b
      BY <2>3, <2>4, NobodyLinks
    <2>6. PICK cur : cur = Now
      OBVIOUS
    <2>7. cur = [img EXCEPT !.next[last] = b]
      BY <1>6, <2>1, <2>3, <2>6 DEF D64Inv, NewLinked
    <2>8. /\ cur \in Image /\ cur.free = img.free /\ cur.data = img.data /\ cur.next[last] = b
          /\ \A x \in Links \ {last} : cur.next[x] = img.next[x]
      <3>1. PICK f : f = [img.next EXCEPT ![last] = b]
        OBVIOUS
      <3>2. img.next \in [Links -> Links] /\ last \in Links /\ b \in Links
            /\ \A x \in Links \ Block : img.next[x] = End
        BY <2>4, <2>5, Ranges DEF Image
      <3>3. /\ f \in [Links -> Links] /\ f[last] = b
            /\ (\A x \in Links \ {last} : f[x] = img.next[x])
            /\ (\A x \in Links \ Block : f[x] = End)
        BY <2>5, <3>1, <3>2
      <3>4. cur = [img EXCEPT !.next = f]
        BY <2>4, <2>7, <3>1 DEF Image
      <3>5. cur \in Image /\ cur.free = img.free /\ cur.data = img.data /\ cur.next = f
        BY <2>4, <3>3, <3>4 DEF Image
      <3>. QED
        BY <3>3, <3>5
    <2>9. PICK d : d = [EmptyDir EXCEPT !.slots[1] = e]
      OBVIOUS
    <2>10. d \in Contents
      <3>1. NeverUsed \in Entries /\ 1 \in 1..SlotsPerSector
        BY GeometryAssumption, BoundAssumption DEF NeverUsed, Entries
      <3>2. EmptyDir \in [kind : {"dir"}, slots : [1..SlotsPerSector -> Entries]]
        BY <3>1 DEF EmptyDir
      <3>3. d \in [kind : {"dir"}, slots : [1..SlotsPerSector -> Entries]]
        BY <1>4, <2>9, <3>1, <3>2
      <3>. QED
        BY <3>3 DEF Contents
    <2>11. PICK ws : ws = BlockWrite(b, End, d)
      OBVIOUS
    <2>12. PICK new : new = ApplyAll(cur, ws)
      OBVIOUS
    <2>13. OneWrite(ws) /\ Written(cur, new, b, End, d)
      BY <2>2, <2>4, <2>8, <2>10, <2>11, <2>12, Ranges, BlockApplied
    <2>14. Extended(img, new, b, e)
      BY <2>3, <2>4, <2>5, <2>8, <2>9, <2>13, Ranges DEF Extended, Written, Changed
    <2>15. Entered(img, new, <<b, 1>>, e) /\ <<b, 1>> \notin Live(img)
      BY <2>4, <2>14, SectorEntered
    <2>16. PICK ok \in Outcomes :
            /\ Put(c, ws, ok, ok)
            /\ ok => /\ stream' = [stream EXCEPT ![c] = NoStream]
                     /\ acked' = acked \cup {stream[c].id} /\ task' = Idle
      BY <1>1, <1>6, <2>2, <2>3, <2>9, <2>11 DEF WriteEntry, At, EntryOf
    <2>17. ok = TRUE
      BY <1>6, OutcomesAre DEF Safe
    <2>18. /\ Put(c, ws, TRUE, TRUE) /\ stream' = [stream EXCEPT ![c] = NoStream]
           /\ acked' = acked \cup {stream[c].id} /\ task' = Idle
      BY <2>16, <2>17
    <2>19. new = ApplyAll(Now, ws)
      BY <2>6, <2>12
    <2>20. D64Inv' /\ Visible' = new /\ Flushed
      BY <1>1, <1>2, <2>1, <2>13, <2>15, <2>18, <2>19, EntryWritten
    <2>21. EntersAt(<<b, 1>>, e)
      BY <2>1, <2>3, <2>15, <2>20 DEF EntersAt
    <2>. QED
      BY <1>1, <2>18, <2>20, <2>21 DEF EntryDone
  <1>. QED
    BY <1>2, <1>5, <1>6

LEMMA RollbackStep ==
    ASSUME Safe, D64Inv, Rollback
    PROVE  D64Inv' /\ Flushed /\ (Gave(Head(task.todo)) \/ Fails)
  <1>0. task.pc = "rollback" /\ UNCHANGED <<buffered, saves, lost>> /\ acked' = acked
    BY DEF Rollback, At
  <1>1. PICK c, img : c = task.h /\ img = Now /\ img = Visible /\ Serves(img, c)
    BY <1>0, ServesChannel, VisibleIsNow
  <1>2. /\ Good(img, stream, task, acked, saves) /\ img \in Image /\ task.pc \in Points
        /\ Seen(c) = img /\ c \in Channels /\ stream \in [Channels -> Streams(saves)]
        /\ stream[c].open /\ acked \subseteq 1..saves /\ task \in Tasks
    BY <1>1 DEF Serves, RunsOn, Good, WhoOK
  <1>3. PICK closing \in BOOLEAN : closing <=> Len(task.todo) = 1 /\ task.then = "close"
    OBVIOUS
  <1>4. PICK ws : ws = DeallocateWrite(img, Head(task.todo))
    OBVIOUS
  <1>5. PICK ok \in Outcomes : Put(c, ws, ok, closing)
    <2>1. closing = (Len(task.todo) = 1 /\ task.then = "close")
      BY <1>3
    <2>. QED
      BY <1>1, <1>2, <1>4, <2>1 DEF Rollback
  <1>6. ok \in BOOLEAN /\ (ok \/ trouble < MaxTrouble)
    BY OutcomesAre
  <1>7. Head(task.todo) \in Block
    <2>1. task.todo # <<>> /\ task.todo \in Seq(Block)
      BY <1>0, <1>2, TaskFields DEF Good, StepOK
    <2>. QED
      BY <2>1
  <1>8. /\ OneWrite(ws) /\ FreedOnly(img, ApplyAll(img, ws))
        /\ ApplyAll(img, ws).free = img.free \cup {Head(task.todo)}
    BY <1>2, <1>4, <1>7, Deallocated
  <1>9. PICK new : new = ApplyAll(img, IF ok THEN ws ELSE <<>>)
    OBVIOUS
  <1>10. FreedOnly(img, new) /\ new.free \subseteq img.free \cup {Head(task.todo)} /\ new \in Image
    BY <1>2, <1>6, <1>8, <1>9, NotWritten DEF FreedOnly
  <1>11. PICK s2 : s2 = IF closing THEN NoStream
                        ELSE IF Len(task.todo) = 1 THEN [stream[c] EXCEPT !.held = <<>>]
                        ELSE stream[c]
    OBVIOUS
  <1>12. stream' = [stream EXCEPT ![c] = s2]
    <2>1. CASE closing
      BY <1>1, <1>3, <1>11, <2>1 DEF Rollback
    <2>2. CASE ~closing /\ Len(task.todo) = 1
      BY <1>1, <1>2, <1>3, <1>11, <2>2 DEF Rollback
    <2>3. CASE ~closing /\ Len(task.todo) # 1
      BY <1>1, <1>2, <1>3, <1>11, <2>3 DEF Rollback
    <2>. QED
      BY <2>1, <2>2, <2>3
  <1>13. \/ Len(task.todo) = 1 /\ task' = Idle /\ s2 \in {NoStream, [stream[c] EXCEPT !.held = <<>>]}
         \/ Len(task.todo) # 1 /\ task' = [task EXCEPT !.todo = Tail(task.todo)] /\ s2 = stream[c]
    BY <1>3, <1>11 DEF Rollback
  <1>14. Good(new, stream', task', acked, saves)
    <2>1. Good(new, [stream EXCEPT ![c] = s2], task', acked, saves)
      BY <1>0, <1>1, <1>2, <1>10, <1>13, RollbackGood
    <2>. QED
      BY <1>12, <2>1
  <1>15. (task' = Idle \/ (task'.h = task.h /\ task'.pc = "rollback")) /\ task'.pc # "newEntry"
    BY <1>0, <1>2, <1>13, IdleOK DEF Tasks
  <1>16. Moves(closing)
    <2>1. (closing \/ s2.open) /\ (s2.open => stream[c].open)
      BY <1>2, <1>11 DEF Streams
    <2>2. stream'[c] = s2 /\ \A d \in Channels \ {c} : stream'[d] = stream[d]
      BY <1>2, <1>12
    <2>. QED
      BY <1>0, <1>1, <1>2, <1>15, <2>1, <2>2, IdleOK DEF Moves
  <1>17. D64Inv' /\ Visible' = new /\ Flushed
    BY <1>0, <1>1, <1>2, <1>5, <1>6, <1>8, <1>9, <1>10, <1>14, <1>15, <1>16, StepDone
  <1>18. CASE ok
    BY <1>1, <1>8, <1>9, <1>17, <1>18 DEF Gave
  <1>19. CASE ~ok
    BY <1>1, <1>2, <1>9, <1>17, <1>19, NotWritten, OutcomesAre DEF Fails
  <1>. QED
    BY <1>6, <1>17, <1>18, <1>19

LEMMA FreeStep ==
    ASSUME Safe, D64Inv, FreeBlock
    PROVE  D64Inv' /\ Flushed /\ (Gave(Head(task.todo)) \/ Fails)
  <1>0. task.pc = "free" /\ UNCHANGED <<buffered, stream, saves, lost>> /\ acked' = acked
    BY DEF FreeBlock, At
  <1>1. PICK c, img : c = task.h /\ img = Now /\ img = Visible /\ RunsOn(img, c)
    BY <1>0, Runs, VisibleIsNow
  <1>2. /\ Good(img, stream, task, acked, saves) /\ img \in Image /\ task.pc \in Points
        /\ Seen(c) = img /\ acked \subseteq 1..saves /\ task \in Tasks /\ WhoOK(stream, task)
    BY <1>1 DEF RunsOn, Good, WhoOK, D64Inv, CountsOK
  <1>3. PICK ws : ws = DeallocateWrite(img, Head(task.todo))
    OBVIOUS
  <1>4. PICK ok \in Outcomes : Put(c, ws, ok, FALSE)
    BY <1>1, <1>2, <1>3 DEF FreeBlock
  <1>5. ok \in BOOLEAN /\ (ok \/ trouble < MaxTrouble)
    BY OutcomesAre
  <1>6. Head(task.todo) \in Block
    <2>1. task.todo # <<>> /\ task.todo \in Seq(Block)
      BY <1>0, <1>2, TaskFields DEF Good, StepOK
    <2>. QED
      BY <2>1
  <1>7. /\ OneWrite(ws) /\ FreedOnly(img, ApplyAll(img, ws))
        /\ ApplyAll(img, ws).free = img.free \cup {Head(task.todo)}
    BY <1>2, <1>3, <1>6, Deallocated
  <1>8. PICK new : new = ApplyAll(img, IF ok THEN ws ELSE <<>>)
    OBVIOUS
  <1>9. FreedOnly(img, new) /\ new.free \subseteq img.free \cup {Head(task.todo)} /\ new \in Image
    BY <1>2, <1>5, <1>7, <1>8, NotWritten DEF FreedOnly
  <1>10. task' = [task EXCEPT !.todo = Tail(task.todo),
                              !.pc = IF Len(task.todo) = 1 THEN "clear" ELSE task.pc]
    BY <1>2 DEF FreeBlock, Tasks
  <1>11. Good(new, stream, task', acked, saves)
    BY <1>0, <1>2, <1>9, <1>10, FreeGood
  <1>12. task'.h = task.h /\ task'.pc \in {"clear", "free"}
    BY <1>0, <1>2, <1>10 DEF Tasks
  <1>13. Moves(FALSE)
    <2>1. task.h \in Channels => stream[task.h].open
      BY <1>0, <1>2 DEF WhoOK
    <2>2. task.h \in Channels \/ task.h = Shell
      BY <1>2, TaskFields DEF Handles
    <2>. QED
      BY <1>0, <1>12, <2>1, <2>2 DEF Moves
  <1>14. D64Inv' /\ Visible' = new /\ Flushed
    BY <1>0, <1>1, <1>2, <1>4, <1>5, <1>7, <1>8, <1>9, <1>11, <1>12, <1>13, StepDone
  <1>15. CASE ok
    BY <1>1, <1>7, <1>8, <1>14, <1>15 DEF Gave
  <1>16. CASE ~ok
    BY <1>1, <1>2, <1>8, <1>14, <1>16, NotWritten, OutcomesAre DEF Fails
  <1>. QED
    BY <1>5, <1>14, <1>15, <1>16

\* The entry of a slot, marked.
Marks(img, s, e) ==
    \E live \in BOOLEAN : e = [EntryAt(img, s) EXCEPT !.live = live]

LEMMA MarkApplied ==
    ASSUME NEW img, NEW but, NEW done, Sound(img, but, done), task.pc \in Points,
           NEW s \in Places(img), NEW e, Marks(img, s, e), NEW ws, ws = SlotWrite(img, s, e)
    PROVE  /\ OneWrite(ws) /\ Entered(img, ApplyAll(img, ws), s, e) /\ EntryAt(img, s) \in Entries
           /\ e.name = EntryAt(img, s).name /\ e.start = EntryAt(img, s).start
  <1>1. EntryAt(img, s) \in Entries
    <2>1. PICK b, i : b = s[1] /\ i = s[2]
      OBVIOUS
    <2>2. b \in Dir(img) /\ i \in 1..SlotsPerSector /\ b \in Block
      BY <2>1, DirWalk DEF Places
    <2>3. img.data[b] \in Contents /\ img.data[b].kind = "dir"
      BY <2>2, ImageFields DEF Sound, DirOK
    <2>4. img.data[b] \in [kind : {"dir"}, slots : [1..SlotsPerSector -> Entries]]
      BY <2>3 DEF Contents
    <2>. QED
      BY <2>1, <2>2, <2>4 DEF EntryAt
  <1>2. e \in Entries /\ e.name = EntryAt(img, s).name /\ e.start = EntryAt(img, s).start
    BY <1>1 DEF Entries, Marks
  <1>. QED
    BY <1>1, <1>2, SlotApplied

MarkDone(live) ==
    \E e : /\ Entered(Visible, Visible', task.slot, e) /\ (e.live <=> live)
           /\ e.name = EntryAt(Visible, task.slot).name
           /\ e.start = EntryAt(Visible, task.slot).start

LEMMA ClearStep ==
    ASSUME Safe, D64Inv, ClearEntry
    PROVE  D64Inv' /\ Flushed /\ MarkDone(FALSE)
  <1>0. task.pc = "clear" /\ UNCHANGED <<buffered, stream, saves, lost>> /\ acked' = acked
    BY DEF ClearEntry, At
  <1>1. PICK c, img : c = task.h /\ img = Now /\ img = Visible /\ RunsOn(img, c)
    BY <1>0, Runs, VisibleIsNow
  <1>2. /\ Good(img, stream, task, acked, saves) /\ img \in Image /\ task.pc \in Points
        /\ Seen(c) = img /\ acked \subseteq 1..saves /\ task \in Tasks /\ WhoOK(stream, task)
        /\ Sound(img, But(task), acked)
    BY <1>1 DEF RunsOn, Good, WhoOK, D64Inv, CountsOK
  <1>3. PICK ws : ws = MarkWrite(FALSE)
    OBVIOUS
  <1>4. PICK closing \in BOOLEAN : closing = (task.then = "return")
    OBVIOUS
  <1>5. PICK ok \in Outcomes : Put(c, ws, ok, closing)
    BY <1>1, <1>3, <1>4 DEF ClearEntry
  <1>6. ok = TRUE
    BY <1>0, OutcomesAre DEF Safe
  <1>7. PICK s : s = task.slot
    OBVIOUS
  <1>8. s \in Live(img) /\ s \in Places(img)
    BY <1>0, <1>2, <1>7 DEF Good, StepOK, Live
  <1>9. PICK e : e = [EntryAt(img, s) EXCEPT !.live = FALSE]
    OBVIOUS
  <1>10. PICK new : new = ApplyAll(img, ws)
    OBVIOUS
  <1>11. /\ OneWrite(ws) /\ Entered(img, new, s, e)
         /\ ~e.live /\ e.name = EntryAt(img, s).name /\ e.start = EntryAt(img, s).start
    <2>1. ws = SlotWrite(img, s, e) /\ Marks(img, s, e)
      BY <1>1, <1>2, <1>3, <1>7, <1>9 DEF MarkWrite, Marks
    <2>2. /\ OneWrite(ws) /\ Entered(img, new, s, e) /\ EntryAt(img, s) \in Entries
          /\ e.name = EntryAt(img, s).name /\ e.start = EntryAt(img, s).start
      BY <1>2, <1>8, <1>10, <2>1, MarkApplied
    <2>. QED
      BY <1>9, <2>2 DEF Entries
  <1>12. EntryOK(e)
    BY <1>2, <1>8, <1>11 DEF Sound, EntriesOK, EntryOK
  <1>13. task' = IF task.then = "return" THEN Idle ELSE [Idle EXCEPT !.pc = "begin", !.h = task.h]
    BY DEF ClearEntry
  <1>14. Good(new, stream, task', acked, saves)
    BY <1>0, <1>2, <1>7, <1>11, <1>12, <1>13, ClearGood
  <1>15. (task' = Idle /\ closing) \/ (~closing /\ task'.pc = "begin" /\ task'.h = task.h)
    BY <1>4, <1>13 DEF Idle
  <1>16. task'.pc # "newEntry" /\ (task'.pc = "idle" \/ task'.h = task.h)
    BY <1>15, IdleOK
  <1>17. Moves(closing)
    <2>1. task.h \in Channels => stream[task.h].open
      BY <1>0, <1>2 DEF WhoOK
    <2>2. closing \/ task.h \in Channels
      BY <1>0, <1>2, <1>4 DEF WhoOK
    <2>. QED
      BY <1>0, <1>16, <2>1, <2>2 DEF Moves
  <1>18. new \in Image /\ new = ApplyAll(Now, IF ok THEN ws ELSE <<>>)
    BY <1>1, <1>6, <1>10, <1>11 DEF Entered
  <1>19. D64Inv' /\ Visible' = new /\ Flushed
    BY <1>0, <1>1, <1>2, <1>5, <1>6, <1>11, <1>14, <1>16, <1>17, <1>18, StepDone
  <1>. QED
    BY <1>1, <1>7, <1>11, <1>19 DEF MarkDone

ReclaimDone ==
    \/ /\ Took(Head(task.todo)) /\ task'.h = task.h /\ task'.slot = task.slot
       /\ task'.pc \in {"restore", "reclaim"}
    \/ Fails /\ task' = Idle

LEMMA ReclaimStep ==
    ASSUME Safe, D64Inv, Reclaim
    PROVE  D64Inv' /\ Flushed /\ ReclaimDone
  <1>0. task.pc = "reclaim" /\ UNCHANGED <<buffered, stream, saves, lost>> /\ acked' = acked
    BY DEF Reclaim, At
  <1>1. PICK img : img = Now /\ img = Visible /\ RunsOn(img, task.h)
    BY <1>0, Runs, VisibleIsNow
  <1>2. /\ Good(img, stream, task, acked, saves) /\ img \in Image /\ task.pc \in Points
        /\ task.h = Shell /\ Seen(Shell) = img /\ acked \subseteq 1..saves /\ task \in Tasks
    BY <1>0, <1>1 DEF RunsOn, Good, WhoOK, D64Inv, CountsOK
  <1>3. PICK b : b = Head(task.todo)
    OBVIOUS
  <1>4. b \in img.free
    <2>1. task.todo # <<>> /\ task.todo \in Seq(Block) /\ Range(task.todo) \subseteq img.free
      BY <1>0, <1>2, TaskFields DEF Good, StepOK
    <2>. QED
      BY <1>3, <2>1, TailFacts
  <1>5. PICK ws : ws = AllocateWrite(img, b)
    OBVIOUS
  <1>6. PICK ok \in Outcomes :
          /\ Put(Shell, ws, ok, ~ok)
          /\ task' = IF ~ok THEN Idle
                     ELSE [task EXCEPT !.todo = Tail(@),
                             !.pc = IF Len(task.todo) = 1 THEN "restore" ELSE @]
    BY <1>2, <1>3, <1>4, <1>5 DEF Reclaim
  <1>7. ok \in BOOLEAN /\ (ok \/ trouble < MaxTrouble)
    BY OutcomesAre
  <1>8. /\ OneWrite(ws) /\ FreedOnly(img, ApplyAll(img, ws))
        /\ ApplyAll(img, ws).free = img.free \ {b}
    BY <1>2, <1>4, <1>5, Allocated
  <1>9. CASE ok
    <2>1. ok = TRUE
      BY <1>7, <1>9
    <2>2. /\ Put(Shell, ws, TRUE, FALSE)
          /\ task' = [task EXCEPT !.todo = Tail(task.todo),
                                  !.pc = IF Len(task.todo) = 1 THEN "restore" ELSE task.pc]
      BY <1>2, <1>6, <2>1 DEF Tasks
    <2>3. PICK new : new = ApplyAll(img, ws)
      OBVIOUS
    <2>4. Good(new, stream, task', acked, saves) /\ new \in Image
      <3>1. FreedOnly(img, new) /\ new.free = img.free \ {Head(task.todo)} /\ new \in Image
        BY <1>3, <1>8, <2>3 DEF FreedOnly
      <3>. QED
        BY <1>0, <1>2, <2>2, <3>1, ReclaimGood
    <2>5. task'.h = Shell /\ task'.pc \in {"restore", "reclaim"}
      BY <1>0, <1>2, <2>2 DEF Tasks
    <2>6. Moves(FALSE)
      BY <1>0, <1>2, <2>5 DEF Moves
    <2>7. new = ApplyAll(Now, IF TRUE THEN ws ELSE <<>>) /\ task'.pc # "newEntry"
      BY <1>1, <2>3, <2>5
    <2>8. D64Inv' /\ Visible' = new /\ Flushed
      BY <1>0, <1>2, <1>8, <2>2, <2>4, <2>6, <2>7, StepDone
    <2>9. Took(Head(task.todo))
      BY <1>1, <1>3, <1>8, <2>3, <2>8 DEF Took
    <2>. QED
      BY <1>2, <2>2, <2>5, <2>8, <2>9 DEF ReclaimDone, Tasks
  <1>10. CASE ~ok
    <2>1. ok = FALSE
      BY <1>7, <1>10
    <2>2. Put(Shell, ws, FALSE, TRUE) /\ task' = Idle
      BY <1>6, <2>1
    <2>3. Good(img, stream, Idle, acked, saves)
      BY <1>0, <1>2, AsideEnds
    <2>4. img = ApplyAll(Now, IF FALSE THEN ws ELSE <<>>) /\ Idle.pc = "idle"
      BY <1>1, <1>2, NotWritten, IdleOK
    <2>5. Moves(TRUE)
      BY <1>0, <2>2, <2>4 DEF Moves
    <2>6. D64Inv' /\ Visible' = img /\ Flushed
      BY <1>0, <1>2, <1>7, <1>8, <1>10, <2>2, <2>3, <2>4, <2>5, StepDone
    <2>. QED
      BY <1>1, <1>10, <2>2, <2>6, OutcomesAre DEF ReclaimDone, Fails
  <1>. QED
    BY <1>7, <1>9, <1>10

LEMMA RestoreStep ==
    ASSUME Safe, D64Inv, RestoreEntry
    PROVE  D64Inv' /\ Flushed /\ (MarkDone(TRUE) \/ Fails)
  <1>0. /\ task.pc = "restore" /\ UNCHANGED <<buffered, stream, saves, lost>> /\ acked' = acked
        /\ task' = Idle
    BY DEF RestoreEntry, At
  <1>1. PICK img : img = Now /\ img = Visible /\ RunsOn(img, task.h)
    BY <1>0, Runs, VisibleIsNow
  <1>2. /\ Good(img, stream, task, acked, saves) /\ img \in Image /\ task.pc \in Points
        /\ task.h = Shell /\ Seen(task.h) = img /\ acked \subseteq 1..saves
        /\ Sound(img, But(task), acked)
    BY <1>0, <1>1 DEF RunsOn, Good, WhoOK, D64Inv, CountsOK
  <1>3. PICK ws : ws = MarkWrite(TRUE)
    OBVIOUS
  <1>4. PICK ok \in Outcomes : Put(Shell, ws, ok, TRUE)
    BY <1>3 DEF RestoreEntry
  <1>5. ok \in BOOLEAN /\ (ok \/ trouble < MaxTrouble)
    BY OutcomesAre
  <1>6. PICK s, e : s = task.slot /\ e = [EntryAt(img, s) EXCEPT !.live = TRUE]
    OBVIOUS
  <1>7. s \in Places(img)
    BY <1>0, <1>2, <1>6 DEF Good, StepOK
  <1>8. /\ OneWrite(ws) /\ Entered(img, ApplyAll(img, ws), s, e)
        /\ e.live /\ e.name = EntryAt(img, s).name /\ e.start = EntryAt(img, s).start
    <2>1. ws = SlotWrite(img, s, e) /\ Marks(img, s, e)
      BY <1>2, <1>3, <1>6 DEF MarkWrite, Marks
    <2>2. /\ OneWrite(ws) /\ Entered(img, ApplyAll(img, ws), s, e) /\ EntryAt(img, s) \in Entries
          /\ e.name = EntryAt(img, s).name /\ e.start = EntryAt(img, s).start
      BY <1>2, <1>7, <2>1, MarkApplied
    <2>. QED
      BY <1>6, <2>2 DEF Entries
  <1>9. Idle.pc = "idle" /\ Moves(TRUE)
    BY <1>0, IdleOK DEF Moves
  <1>10. PICK new : new = ApplyAll(img, IF ok THEN ws ELSE <<>>)
    OBVIOUS
  <1>11. Good(new, stream, Idle, acked, saves) /\ new \in Image
    <2>1. CASE ok
      <3>1. Entered(img, new, task.slot, e)
        BY <1>6, <1>8, <1>10, <2>1
      <3>2. /\ e.live /\ e.name = EntryAt(img, task.slot).name
            /\ e.start = EntryAt(img, task.slot).start
        BY <1>6, <1>8
      <3>. QED
        BY <1>0, <1>2, <3>1, <3>2, RestoreGood DEF Entered
    <2>2. CASE ~ok
      BY <1>0, <1>2, <1>10, <2>2, AsideEnds, NotWritten
    <2>. QED
      BY <1>5, <2>1, <2>2
  <1>12. D64Inv' /\ Visible' = new /\ Flushed
    BY <1>0, <1>1, <1>2, <1>4, <1>5, <1>8, <1>9, <1>10, <1>11, StepDone
  <1>13. CASE ok
    BY <1>1, <1>6, <1>8, <1>10, <1>12, <1>13 DEF MarkDone
  <1>14. CASE ~ok
    BY <1>1, <1>2, <1>10, <1>12, <1>14, NotWritten, OutcomesAre DEF Fails
  <1>. QED
    BY <1>5, <1>12, <1>13, <1>14

-----------------------------------------------------------------------------
(* The handlers that start.                                                *)

LEMMA IdleSees ==
    ASSUME D64Inv, task.pc = "idle"
    PROVE  /\ Visible = Now /\ Good(Now, stream, task, acked, saves)
           /\ stream \in [Channels -> Streams(saves)] /\ saves \in Nat
           /\ acked \subseteq 1..saves /\ saves \in 0..MaxSaves
  <1>1. Visible = Now /\ Good(Now, stream, task, acked, saves)
    BY VisibleIsNow DEF D64Inv
  <1>. QED
    BY <1>1 DEF Good, StreamsOK, D64Inv, CountsOK

\* A client that may use an image finds no write in a buffer.
Quiet == \A g \in Handles : pend[g] = <<>> /\ ~(buffered /\ Busy(g))

LEMMA QuietImage ==
    ASSUME Safe, D64Inv, NEW h \in Handles, MayUse(h), h \in Channels => ~stream[h].open
    PROVE  Now = image /\ Quiet
  <1>1. \A g \in Handles : ~(buffered /\ Busy(g))
    <2>. SUFFICES ASSUME NEW g \in Handles, buffered, Busy(g) PROVE FALSE
      OBVIOUS
    <2>1. OneAtATime
      BY HandleAssumption DEF D64Inv, CountsOK, Safe
    <2>2. g \in Channels /\ stream[g].open
      BY DEF Busy, MayUse
    <2>. QED
      BY <2>1, <2>2 DEF MayUse
  <1>. QED
    BY <1>1, QuietIsNow DEF D64Inv, Quiet

\* A handler starts for handle h on an image nobody else uses.
OnlyBusy(h) == \A g \in Handles : buffered /\ Busy(g) => g = h

\* Neither the image nor a buffer changes.
Untouched == Visible' = Visible /\ image' = image /\ pend' = pend

LEMMA StartDone ==
    ASSUME D64Inv, Quiet, task.pc = "idle", Now = image, UNCHANGED <<image, pend, buffered, trouble, lost>>,
           task'.pc # "newEntry", Good(image, stream', task', acked', saves'),
           saves' \in 0..MaxSaves, acked' \subseteq 1..saves', NEW h, OnlyBusy(h)'
    PROVE  D64Inv' /\ Untouched /\ Visible = image
  <1>1. \A g \in Handles : pend'[g] = <<>>
    BY DEF Quiet
  <1>2. Now' = image
    BY <1>1 DEF Now, Holding
  <1>3. Visible' = image
    BY <1>2, VisibleIsNowNext
  <1>4. PendOK'
    <2>1. pend' \in [Handles -> {<<>>} \cup {<<w>> : w \in Writes}]
      BY DEF D64Inv, PendOK
    <2>2. buffered' => \A f, g \in Handles : Busy(f)' /\ Busy(g)' => f = g
      BY DEF OnlyBusy
    <2>. QED
      BY <1>1, <2>1, <2>2 DEF PendOK
  <1>5. CountsOK' /\ image' \in Image
    BY DEF D64Inv, CountsOK
  <1>6. NewLinked'
    BY DEF NewLinked
  <1>7. Visible = image
    BY VisibleIsNow
  <1>. QED
    BY <1>3, <1>4, <1>5, <1>6, <1>7 DEF D64Inv, Untouched

LEMMA OpenNewStep ==
    ASSUME Safe, D64Inv, NEW c \in Channels, NEW name \in Names, OpenNew(c, name)
    PROVE  D64Inv' /\ Untouched /\ Visible = image
  <1>1. /\ MayUse(c) /\ ~stream[c].open /\ saves < MaxSaves /\ saves' = saves + 1
        /\ stream' = [stream EXCEPT ![c] = Opened(name)]
        /\ task' = [Idle EXCEPT !.pc = "begin", !.h = c]
        /\ UNCHANGED <<image, pend, buffered, trouble, lost>> /\ acked' = acked
    BY DEF OpenNew
  <1>2. c \in Handles /\ c # Shell /\ task.pc = "idle"
    BY <1>1, HandleAssumption DEF Handles, MayUse
  <1>3. Now = image /\ Quiet
    BY <1>1, <1>2, QuietImage
  <1>4. /\ Good(image, stream, task, acked, saves) /\ stream \in [Channels -> Streams(saves)]
        /\ saves \in Nat /\ acked \subseteq 1..saves /\ saves \in 0..MaxSaves
    BY <1>2, <1>3, IdleSees
  <1>5. PICK s2 : s2 = [NoStream EXCEPT !.open = TRUE, !.name = name, !.id = saves + 1]
    OBVIOUS
  <1>6. stream' = [stream EXCEPT ![c] = s2]
    BY <1>1, <1>5 DEF Opened
  <1>7. Good(image, stream', task', acked, saves + 1)
    <2>1. PICK tsk2, n : tsk2 = [Idle EXCEPT !.pc = "begin", !.h = c] /\ n = saves
      OBVIOUS
    <2>2. /\ Good(image, stream, task, acked, n) /\ task.pc = "idle"
          /\ s2 = [NoStream EXCEPT !.open = TRUE, !.name = name, !.id = n + 1]
      BY <1>2, <1>4, <1>5, <2>1
    <2>3. Good(image, [stream EXCEPT ![c] = s2], tsk2, acked, n + 1)
      BY <2>1, <2>2, OpenNewGood
    <2>. QED
      BY <1>1, <1>6, <2>1, <2>3
  <1>8. task'.pc = "begin" /\ task'.h = c
    BY <1>1 DEF Idle
  <1>9. saves' \in 0..MaxSaves /\ acked' \subseteq 1..saves'
    BY <1>1, <1>4, BoundAssumption
  <1>10. OnlyBusy(c)'
    <2>1. \A g \in Channels \ {c} : stream'[g] = stream[g]
      BY <1>4, <1>6
    <2>. QED
      BY <1>1, <1>2, <1>3, <1>8, <2>1 DEF OnlyBusy, Busy, Quiet, Handles
  <1>. QED
    BY <1>1, <1>2, <1>3, <1>7, <1>8, <1>9, <1>10, StartDone

LEMMA OpenReplaceStep ==
    ASSUME Safe, D64Inv, NEW c \in Channels, NEW name \in Names, OpenReplace(c, name)
    PROVE  D64Inv' /\ Untouched /\ Visible = image
  <1>0. PICK s, chain : s = SeekEntry(image, name) /\ chain = FileChain(image, s)
    OBVIOUS
  <1>1. /\ MayUse(c) /\ ~stream[c].open /\ saves < MaxSaves /\ saves' = saves + 1
        /\ stream' = [stream EXCEPT ![c] = Opened(name)] /\ s # NoSlot
        /\ task' = [Idle EXCEPT !.pc = "free", !.h = c, !.slot = s, !.todo = chain, !.then = "begin"]
        /\ UNCHANGED <<image, pend, buffered, trouble, lost>>
        /\ acked' = acked \ {image.data[chain[1]].id}
    BY <1>0 DEF OpenReplace, FileChain
  <1>2. c \in Handles /\ c # Shell /\ task.pc = "idle"
    BY <1>1, HandleAssumption DEF Handles, MayUse
  <1>3. Now = image /\ Quiet
    BY <1>1, <1>2, QuietImage
  <1>4. /\ Good(image, stream, task, acked, saves) /\ stream \in [Channels -> Streams(saves)]
        /\ saves \in Nat /\ acked \subseteq 1..saves /\ saves \in 0..MaxSaves
    BY <1>2, <1>3, IdleSees
  <1>5. PICK s2 : s2 = [NoStream EXCEPT !.open = TRUE, !.name = name, !.id = saves + 1]
    OBVIOUS
  <1>6. stream' = [stream EXCEPT ![c] = s2] /\ s \in Live(image)
    BY <1>0, <1>1, <1>5, SeekEntryFinds DEF Opened
  <1>7. Good(image, stream', task', acked', saves + 1)
    <2>1. PICK tsk2, n, done2 :
            /\ tsk2 = [Idle EXCEPT !.pc = "free", !.h = c, !.slot = s, !.todo = chain, !.then = "begin"]
            /\ n = saves /\ done2 = acked \ {image.data[chain[1]].id}
      OBVIOUS
    <2>2. /\ Good(image, stream, task, acked, n) /\ task.pc = "idle"
          /\ s2 = [NoStream EXCEPT !.open = TRUE, !.name = name, !.id = n + 1]
          /\ s \in Live(image) /\ chain = FileChain(image, s)
      BY <1>0, <1>2, <1>4, <1>5, <1>6, <2>1
    <2>3. Good(image, [stream EXCEPT ![c] = s2], tsk2, done2, n + 1)
      BY <2>1, <2>2, OpenReplaceGood
    <2>. QED
      BY <1>1, <1>6, <2>1, <2>3
  <1>8. task'.pc = "free" /\ task'.h = c
    BY <1>1 DEF Idle
  <1>9. saves' \in 0..MaxSaves /\ acked' \subseteq 1..saves'
    BY <1>1, <1>4, BoundAssumption
  <1>10. OnlyBusy(c)'
    <2>1. \A g \in Channels \ {c} : stream'[g] = stream[g]
      BY <1>4, <1>6
    <2>. QED
      BY <1>1, <1>2, <1>3, <1>8, <2>1 DEF OnlyBusy, Busy, Quiet, Handles
  <1>. QED
    BY <1>1, <1>2, <1>3, <1>7, <1>8, <1>9, <1>10, StartDone

LEMMA ScratchStep ==
    ASSUME Safe, D64Inv, NEW name \in Names, Scratch(name)
    PROVE  D64Inv' /\ Untouched /\ Visible = image
  <1>0. PICK s, chain : s = SeekEntry(image, name) /\ chain = FileChain(image, s)
    OBVIOUS
  <1>1. /\ MayUse(Shell) /\ s # NoSlot
        /\ task' = [Idle EXCEPT !.pc = "free", !.slot = s, !.todo = chain]
        /\ UNCHANGED <<image, pend, buffered, stream, saves, trouble, lost>>
        /\ acked' = acked \ {image.data[chain[1]].id}
    BY <1>0 DEF Scratch, FileChain
  <1>2. Shell \in Handles /\ Shell \notin Channels /\ task.pc = "idle"
    BY <1>1, HandleAssumption DEF Handles, MayUse
  <1>3. Now = image /\ Quiet
    BY <1>1, <1>2, QuietImage
  <1>4. /\ Good(image, stream, task, acked, saves)
        /\ saves \in Nat /\ acked \subseteq 1..saves /\ saves \in 0..MaxSaves
    BY <1>2, <1>3, IdleSees
  <1>5. s \in Live(image)
    BY <1>0, <1>1, SeekEntryFinds
  <1>6. Good(image, stream', task', acked', saves')
    <2>1. Scratches(image, s, chain, task', acked, acked')
      BY <1>0, <1>1, <1>5 DEF Scratches
    <2>2. Good(image, stream, task', acked', saves)
      BY <1>2, <1>4, <2>1, ScratchGood
    <2>. QED
      BY <1>1, <2>2
  <1>7. task'.pc = "free"
    BY <1>1 DEF Idle
  <1>8. saves' \in 0..MaxSaves /\ acked' \subseteq 1..saves'
    BY <1>1, <1>4
  <1>9. OnlyBusy(Shell)'
    BY <1>1, <1>3 DEF OnlyBusy, Busy, Quiet, Handles
  <1>. QED
    BY <1>1, <1>2, <1>3, <1>6, <1>7, <1>8, <1>9, StartDone

LEMMA UnscratchStep ==
    ASSUME Safe, D64Inv, NEW name \in Names, Unscratch(name)
    PROVE  D64Inv' /\ Untouched /\ Visible = image
  <1>0. PICK s, chain : s = SeekScratchedEntry(image, name) /\ chain = FileChain(image, s)
    OBVIOUS
  <1>1. /\ MayUse(Shell) /\ s # NoSlot /\ Recoverable(image, s)
        /\ task' = [Idle EXCEPT !.pc = "reclaim", !.slot = s, !.todo = chain]
        /\ UNCHANGED <<image, pend, buffered, stream, saves, trouble, lost>> /\ acked' = acked
    BY <1>0 DEF Unscratch, FileChain
  <1>2. Shell \in Handles /\ Shell \notin Channels /\ task.pc = "idle"
    BY <1>1, HandleAssumption DEF Handles, MayUse
  <1>3. Now = image /\ Quiet
    BY <1>1, <1>2, QuietImage
  <1>4. /\ Good(image, stream, task, acked, saves)
        /\ saves \in Nat /\ acked \subseteq 1..saves /\ saves \in 0..MaxSaves
    BY <1>2, <1>3, IdleSees
  <1>5. s \in Places(image) \ Live(image) /\ EntryAt(image, s).name = name
    BY <1>0, <1>1, SeekScratchedFinds
  <1>6. Good(image, stream', task', acked', saves')
    BY <1>0, <1>1, <1>2, <1>4, <1>5, UnscratchGood
  <1>7. task'.pc = "reclaim"
    BY <1>1 DEF Idle
  <1>8. saves' \in 0..MaxSaves /\ acked' \subseteq 1..saves'
    BY <1>1, <1>4
  <1>9. OnlyBusy(Shell)'
    BY <1>1, <1>3 DEF OnlyBusy, Busy, Quiet, Handles
  <1>. QED
    BY <1>1, <1>2, <1>3, <1>6, <1>7, <1>8, <1>9, StartDone

\* A handler of a channel starts that leaves the image and its buffers alone.
LEMMA SameImage ==
    ASSUME D64Inv, task.pc = "idle", NEW c \in Channels, stream[c].open,
           UNCHANGED <<image, pend, buffered, saves, trouble, lost, acked>>,
           task'.h = c, task'.pc # "newEntry", \A d \in Channels : stream'[d].open = stream[d].open,
           Good(Now, stream', task', acked, saves)
    PROVE  D64Inv' /\ Untouched
  <1>1. Now' = Now
    BY DEF Now, Holding, Seen
  <1>2. Visible' = Now
    BY <1>1, VisibleIsNowNext
  <1>3. c # Shell /\ Shell \notin Channels
    BY HandleAssumption
  <1>4. ASSUME NEW g \in Handles PROVE Busy(g)' <=> Busy(g)
    BY <1>3 DEF Busy, Handles
  <1>5. PendOK'
    <2>1. PendOK
      BY DEF D64Inv
    <2>2. \A h \in Handles : pend'[h] # <<>> => buffered' /\ Busy(h)'
      BY <1>4, <2>1 DEF PendOK
    <2>3. buffered' => \A g, h \in Handles : Busy(g)' /\ Busy(h)' => g = h
      BY <1>4, <2>1 DEF PendOK
    <2>. QED
      BY <2>1, <2>2, <2>3 DEF PendOK
  <1>6. CountsOK' /\ image' \in Image
    BY DEF D64Inv, CountsOK
  <1>7. NewLinked'
    BY DEF NewLinked
  <1>8. Good(Visible', stream', task', acked', saves')
    BY <1>2
  <1>. QED
    BY <1>2, <1>5, <1>6, <1>7, <1>8, VisibleIsNow DEF D64Inv, Untouched

LEMMA WriteFullStep ==
    ASSUME Safe, D64Inv, NEW c \in Channels, WriteFull(c)
    PROVE  D64Inv' /\ Untouched
  <1>1. /\ task.pc = "idle" /\ stream[c].creating /\ Len(stream[c].held) < MaxBlocks
        /\ task' = [Idle EXCEPT !.pc = "next", !.h = c] /\ stream' = stream
        /\ UNCHANGED <<image, pend, buffered, saves, trouble, lost, acked>>
    BY DEF WriteFull
  <1>2. PICK img : img = Now /\ Good(img, stream, task, acked, saves)
    BY <1>1, IdleSees
  <1>3. stream[c].open
    BY <1>1, <1>2 DEF Good, StreamsOK, StreamOK
  <1>4. Good(img, stream, task', acked, saves)
    BY <1>1, <1>2, WriteFullGood
  <1>5. task'.pc = "next" /\ task'.h = c
    BY <1>1 DEF Idle
  <1>. QED
    BY <1>1, <1>2, <1>3, <1>4, <1>5, SameImage

LEMMA CloseSavingStep ==
    ASSUME Safe, D64Inv, NEW c \in Channels, CloseSaving(c)
    PROVE  D64Inv' /\ Untouched
  <1>1. /\ task.pc = "idle" /\ stream[c].creating /\ stream[c].open
        /\ task' = [Idle EXCEPT !.pc = "last", !.h = c, !.then = "close"]
        /\ stream' = [stream EXCEPT ![c].creating = FALSE]
        /\ UNCHANGED <<image, pend, buffered, saves, trouble, lost, acked>>
    BY DEF CloseSaving
  <1>2. PICK img : img = Now /\ Good(img, stream, task, acked, saves)
    BY <1>1, IdleSees
  <1>3. \A d \in Channels : stream'[d].open = stream[d].open
    <2>1. stream \in [Channels -> Streams(saves)]
      BY <1>1, IdleSees
    <2>. QED
      BY <1>1, <2>1 DEF Streams
  <1>4. Good(img, stream', task', acked, saves)
    BY <1>1, <1>2, CloseSavingGood
  <1>5. task'.pc = "last" /\ task'.h = c
    BY <1>1 DEF Idle
  <1>. QED
    BY <1>1, <1>2, <1>3, <1>4, <1>5, SameImage

LEMMA CloseFailedStep ==
    ASSUME Safe, D64Inv, NEW c \in Channels, CloseFailed(c)
    PROVE  D64Inv' /\ Flushed /\ Visible' = Visible
  <1>1. /\ task.pc = "idle" /\ stream[c].open /\ Put(c, <<>>, TRUE, TRUE)
        /\ stream' = [stream EXCEPT ![c] = NoStream] /\ task' = task
        /\ UNCHANGED <<buffered, saves, lost, acked>>
    BY DEF CloseFailed
  <1>2. PICK img : img = Now /\ Good(img, stream, task, acked, saves)
    BY <1>1, IdleSees
  <1>3. /\ stream \in [Channels -> Streams(saves)] /\ img \in Image
    BY <1>1, <1>2, IdleSees DEF Good, Sound
  <1>4. Good(img, stream', task', acked', saves')
    BY <1>1, <1>2, CloseFailedGood
  <1>5. c \in Handles /\ Busy(c) /\ PendOK /\ OneWrite(<<>>) /\ img = ApplyAll(Now, <<>>)
    BY <1>1, <1>2, <1>3, NotWritten DEF Handles, Busy, D64Inv
  <1>6. PutDone(c, img, TRUE)
    <2>1. img = ApplyAll(Now, IF TRUE THEN <<>> ELSE <<>>)
      BY <1>5
    <2>. QED
      BY <1>1, <1>5, <2>1, PutIs
  <1>7. \A g \in Handles : Busy(g)' => Busy(g)
    <2>1. ~stream'[c].open /\ \A d \in Channels \ {c} : stream'[d] = stream[d]
      BY <1>1, <1>3 DEF NoStream
    <2>. QED
      BY <1>1, <2>1 DEF Busy
  <1>8. PendOK' /\ image' \in Image
    BY <1>1, <1>3, <1>5, <1>6, <1>7, PutPend
  <1>9. Visible' = img
    BY <1>1, <1>6, VisibleIsNowNext DEF PutDone
  <1>10. CountsOK' /\ NewLinked'
    BY <1>1 DEF D64Inv, CountsOK, Put, NewLinked
  <1>11. Flushed /\ Visible' = Visible
    BY <1>1, <1>2, <1>6, <1>9, VisibleIsNow DEF PutDone, Flushed
  <1>. QED
    BY <1>4, <1>8, <1>9, <1>10, <1>11 DEF D64Inv

LEMMA PowerCutStep ==
    ASSUME Safe, D64Inv, PowerCut
    PROVE  D64Inv' /\ Visible' = image /\ \A h \in Handles : pend'[h] = <<>>
  <1>1. /\ task.pc \in CutPoints /\ trouble < MaxTrouble /\ trouble' = trouble + 1
        /\ (\A h \in Handles : \A i \in DOMAIN pend[h] : pend[h][i].at \in CutPoints)
        /\ pend' = [h \in Handles |-> <<>>] /\ stream' = [c \in Channels |-> NoStream]
        /\ task' = Idle /\ UNCHANGED <<image, buffered, saves, acked>>
        /\ lost' = lost \cup (Claimed \cap (Block \ image.free))
    BY DEF PowerCut
  <1>2. PendOK /\ CountsOK /\ image \in Image
    BY DEF D64Inv
  <1>3. Sound(image, NoSlot, acked)
    <2>1. CASE \A h \in Handles : pend[h] = <<>>
      <3>1. Now = image
        BY <2>1 DEF Now, Holding
      <3>2. task.pc \notin {"free", "clear", "newEntry"}
        BY <1>1 DEF Safe
      <3>3. Good(image, stream, task, acked, saves) /\ But(task) = NoSlot
        BY <3>1, <3>2, VisibleIsNow DEF D64Inv, But
      <3>. QED
        BY <3>3 DEF Good
    <2>2. ASSUME NEW h \in Handles, pend[h] # <<>> PROVE Sound(image, NoSlot, acked)
      <3>1. PICK w \in Writes : pend[h] = <<w>>
        BY <1>2, <2>2 DEF PendOK
      <3>2. 1 \in DOMAIN pend[h]
        BY <3>1
      <3>. QED
        BY <1>1, <1>2, <2>2, <3>2 DEF PendOK
    <2>. QED
      BY <2>1, <2>2
  <1>4. Good(image, stream', Idle, acked, saves)
    <2>1. saves \in Nat
      BY <1>2, BoundAssumption DEF CountsOK
    <2>. QED
      BY <1>1, <1>3, <2>1, PowerCutGood
  <1>5. \A h \in Handles : pend'[h] = <<>>
    BY <1>1
  <1>6. Visible' = image
    <2>1. Now' = image
      BY <1>1, <1>5 DEF Now, Holding
    <2>2. task'.pc # "newEntry"
      BY <1>1, IdleOK
    <2>. QED
      BY <2>1, <2>2, VisibleIsNowNext
  <1>7. PendOK'
    <2>1. \A g \in Handles : ~Busy(g)'
      BY <1>1, IdleOK DEF Busy, NoStream
    <2>. QED
      BY <1>1, <1>5, <2>1 DEF PendOK
  <1>8. CountsOK'
    BY <1>1, <1>2, BoundAssumption DEF CountsOK
  <1>9. NewLinked'
    BY <1>1, IdleOK DEF NewLinked
  <1>. QED
    BY <1>1, <1>2, <1>4, <1>5, <1>6, <1>7, <1>8, <1>9 DEF D64Inv

-----------------------------------------------------------------------------
(* The invariant.                                                          *)

\* formatImage() makes a sound image.
LEMMA FormatSound ==
    ASSUME Init
    PROVE  /\ Sound(image, NoSlot, {})
           /\ Live(image) = {} /\ Dir(image) = {FirstDir} /\ image.free = Block \ {System, FirstDir}
  <1>1. image = [free |-> Block \ {System, FirstDir},
                 next |-> [b \in Links |->
                             IF b \in Block \ {FirstDir} THEN Unformatted ELSE End],
                 data |-> [b \in Block |->
                             IF b = FirstDir THEN EmptyDir ELSE [kind |-> "fill"]]]
    BY DEF Init
  <1>2. PICK img : img = image
    OBVIOUS
  <1>3. /\ img.free = Block \ {System, FirstDir}
        /\ img.next = [b \in Links |-> IF b \in Block \ {FirstDir} THEN Unformatted ELSE End]
        /\ img.data = [b \in Block |-> IF b = FirstDir THEN EmptyDir ELSE [kind |-> "fill"]]
    BY <1>1, <1>2
  <1>4. NeverUsed \in Entries
    BY BoundAssumption DEF NeverUsed, Entries
  <1>5. EmptyDir \in Contents /\ [kind |-> "fill"] \in Contents
    BY <1>4 DEF EmptyDir, Contents
  <1>6. img \in Image
    <2>1. /\ img.free \subseteq Block /\ img.data \in [Block -> Contents]
          /\ img.next \in [Links -> Links] /\ \A x \in Links \ Block : img.next[x] = End
      BY <1>3, <1>5, Ranges
    <2>2. img = [free |-> img.free, data |-> img.data, next |-> img.next]
      BY <1>1, <1>2
    <2>. QED
      BY <2>1, <2>2, ImageIs
  <1>7. DirChain(img) = <<FirstDir>> /\ Ends(img, <<FirstDir>>)
    <2>1. FirstDir \in Block /\ FirstDir \in Links
      BY Ranges
    <2>2. <<FirstDir>> \in Walks /\ Len(<<FirstDir>>) = 1 /\ <<FirstDir>>[1] = FirstDir
      BY <2>1 DEF Walks
    <2>3. img.next[FirstDir] = End
      BY <1>3, <2>1
    <2>4. Path(img, <<FirstDir>>)
      BY <2>2, <2>3, LimitNat, Ranges DEF Path, Longer
    <2>5. ChainFrom(img, FirstDir) = <<FirstDir>>
      BY <2>2, <2>4, ChainIs
    <2>. QED
      BY <2>2, <2>3, <2>5 DEF DirChain, Ends, Last
  <1>8. Dir(img) = {FirstDir}
    BY <1>7 DEF Dir, Range
  <1>9. img.data[FirstDir] = EmptyDir
    BY <1>3, Ranges
  <1>10. DirOK(img)
    BY <1>3, <1>7, <1>8, <1>9, Ranges DEF DirOK, EmptyDir
  <1>11. LinksOK(img)
    <2>1. Unformatted \notin DirBlocks
      BY GeometryAssumption DEF Unformatted, DirBlocks
    <2>. QED
      BY <1>3, <1>8, <2>1, Ranges DEF LinksOK
  <1>12. \A s \in Places(img) : EntryAt(img, s) = NeverUsed
    <2>. SUFFICES ASSUME NEW s \in Places(img) PROVE EntryAt(img, s) = NeverUsed
      OBVIOUS
    <2>1. s[1] = FirstDir /\ s[2] \in 1..SlotsPerSector
      BY <1>8 DEF Places
    <2>2. EmptyDir.slots = [i \in 1..SlotsPerSector |-> NeverUsed]
      BY DEF EmptyDir
    <2>. QED
      BY <1>9, <2>1, <2>2 DEF EntryAt
  <1>13. EntriesOK(img) /\ Live(img) = {}
    BY <1>12 DEF EntriesOK, EntryOK, NeverUsed, Live
  <1>14. FilesApart(img) /\ FilesOK(img, NoSlot) /\ Kept(img, NoSlot, {})
    BY <1>13 DEF FilesApart, FilesOK, Kept
  <1>. QED
    BY <1>2, <1>3, <1>6, <1>8, <1>10, <1>11, <1>13, <1>14 DEF Sound

LEMMA InitInv == Init => D64Inv
  <1>. SUFFICES ASSUME Init PROVE D64Inv
    OBVIOUS
  <1>1. /\ pend = [h \in Handles |-> <<>>] /\ buffered \in BufferedHandles
        /\ stream = [c \in Channels |-> NoStream] /\ task = Idle
        /\ saves = 0 /\ trouble = 0 /\ lost = {} /\ acked = {}
    BY DEF Init
  <1>2. Sound(image, NoSlot, {})
    BY FormatSound
  <1>3. Good(image, stream, Idle, {}, 0)
    <2>1. 0 \in Nat
      OBVIOUS
    <2>. QED
      BY <1>1, <1>2, <2>1, PowerCutGood
  <1>4. \A h \in Handles : pend[h] = <<>>
    BY <1>1
  <1>5. Visible = image
    <2>1. Now = image
      BY <1>4 DEF Now, Holding
    <2>. QED
      BY <1>1, <2>1, IdleOK, VisibleIsNow
  <1>6. PendOK
    <2>1. \A g \in Handles : ~Busy(g)
      BY <1>1, IdleOK DEF Busy, NoStream
    <2>. QED
      BY <1>1, <1>4, <2>1 DEF PendOK
  <1>7. CountsOK /\ NewLinked
    BY <1>1, IdleOK, BoundAssumption DEF CountsOK, NewLinked
  <1>8. image \in Image
    BY <1>2 DEF Sound
  <1>. QED
    BY <1>1, <1>3, <1>5, <1>6, <1>7, <1>8 DEF D64Inv

LEMMA StutterInv ==
    ASSUME D64Inv, UNCHANGED vars
    PROVE  D64Inv'
  <1>1. /\ image' = image /\ pend' = pend /\ buffered' = buffered /\ stream' = stream
        /\ task' = task /\ saves' = saves /\ trouble' = trouble /\ lost' = lost /\ acked' = acked
    BY DEF vars
  <1>2. Visible' = Visible /\ Now' = Now
    BY <1>1 DEF Visible, Now, Holding, Seen
  <1>3. PendOK'
    <2>1. \A h \in Handles : Busy(h)' <=> Busy(h)
      BY <1>1 DEF Busy
    <2>. QED
      BY <1>1, <2>1 DEF D64Inv, PendOK
  <1>. QED
    BY <1>1, <1>2, <1>3 DEF D64Inv, NewLinked, CountsOK

LEMMA NextInv ==
    ASSUME Safe
    PROVE  D64Inv /\ [Next]_vars => D64Inv'
  <1>. SUFFICES ASSUME D64Inv, [Next]_vars PROVE D64Inv'
    OBVIOUS
  <1>1. CASE UNCHANGED vars
    BY <1>1, StutterInv
  <1>2. CASE \E c \in Channels, n \in Names : OpenNew(c, n) \/ OpenReplace(c, n)
    BY <1>2, OpenNewStep, OpenReplaceStep
  <1>3. CASE \E c \in Channels : WriteFull(c) \/ CloseSaving(c) \/ CloseFailed(c)
    BY <1>3, WriteFullStep, CloseSavingStep, CloseFailedStep
  <1>4. CASE \E n \in Names : Scratch(n) \/ Unscratch(n)
    BY <1>4, ScratchStep, UnscratchStep
  <1>5. CASE Step
    BY <1>5, BeginStep, NextStep, LinkStep, LastStep, SlotStep, ExtendStep, LinkDirStep,
       UndoDirStep, EntryStep, RollbackStep, FreeStep, ClearStep, ReclaimStep, RestoreStep
       DEF Step
  <1>6. CASE PowerCut
    BY <1>6, PowerCutStep
  <1>. QED
    BY <1>1, <1>2, <1>3, <1>4, <1>5, <1>6 DEF Next

\* The inductive invariant holds in every reachable state.
THEOREM InvariantHolds ==
    ASSUME Safe
    PROVE  Spec => []D64Inv
  <1>1. Init => D64Inv
    BY InitInv
  <1>2. D64Inv /\ [Next]_vars => D64Inv'
    BY NextInv
  <1>. QED
    BY <1>1, <1>2, PTL DEF Spec

-----------------------------------------------------------------------------
(* The theorems.                                                           *)

\* The image, the streams and the handler keep their shapes; the counters of
\* the model stay within their bounds.
THEOREM ImageTypes ==
    ASSUME Safe
    PROVE  Spec => []TypeOK
  <1>1. D64Inv => TypeOK
    <2>. SUFFICES ASSUME D64Inv PROVE TypeOK
      OBVIOUS
    <2>1. /\ StreamsOK(stream, task, saves) /\ task \in Tasks /\ image \in Image /\ PendOK
          /\ CountsOK
      BY DEF D64Inv, Good, WhoOK
    <2>2. /\ image.free \subseteq Block /\ image.next \in [Links -> Links]
          /\ image.data \in [Block -> Contents]
      BY <2>1, ImageFields
    <2>3. ASSUME NEW h \in Handles
          PROVE  Len(pend[h]) <= 1 /\ \A i \in DOMAIN pend[h] : pend[h][i] \in Writes
      <3>1. pend[h] = <<>> \/ \E w \in Writes : pend[h] = <<w>>
        BY <2>1 DEF PendOK
      <3>2. CASE pend[h] = <<>>
        BY <3>2
      <3>3. CASE \E w \in Writes : pend[h] = <<w>>
        <4>0. PICK w \in Writes : pend[h] = <<w>>
          BY <3>3
        <4>1. PICK q : q = <<w>> /\ pend[h] = q
          BY <4>0
        <4>2. Len(q) <= 1 /\ (\A i \in DOMAIN q : i = 1) /\ q[1] \in Writes
          BY <4>1
        <4>3. \A i \in DOMAIN q : q[i] \in Writes
          BY <4>2
        <4>. QED
          BY <4>1, <4>2, <4>3
      <3>. QED
        BY <3>1, <3>2, <3>3
    <2>4. ASSUME NEW c \in Channels
          PROVE  /\ stream[c].open \in BOOLEAN /\ stream[c].creating \in BOOLEAN
                 /\ stream[c].error \in BOOLEAN /\ stream[c].name \in Names \cup {Nobody}
                 /\ stream[c].id \in 0..saves
                 /\ Range(stream[c].held) \subseteq FileBlocks
                 /\ Len(stream[c].held) <= MaxBlocks
      <3>1. stream[c] \in Streams(saves) /\ Len(stream[c].held) <= MaxBlocks
        BY <2>1 DEF StreamsOK, StreamOK
      <3>2. Range(stream[c].held) \subseteq FileBlocks
        BY <3>1, HeldSeq
      <3>. QED
        BY <3>1, <3>2 DEF Streams
    <2>5. /\ task.pc \in Points /\ task.h \in Handles /\ task.todo \in Seq(Block)
          /\ task.slot \in Slots \cup {NoSlot} /\ task.new \in Block \cup {End}
          /\ task.then \in {"return", "close", "begin"}
      BY <2>1, TaskFields
    <2>6. Range(task.todo) \subseteq Block
      <3>1. PICK q \in Seq(Block) : q = task.todo
        BY <2>5
      <3>. QED
        BY <3>1 DEF Range
    <2>7. /\ saves \in 0..MaxSaves /\ trouble \in 0..MaxTrouble
          /\ lost \subseteq Block /\ acked \subseteq 1..saves /\ buffered \in BOOLEAN
      BY <2>1, HandleAssumption DEF CountsOK
    <2>. QED
      BY <2>2, <2>3, <2>4, <2>5, <2>6, <2>7 DEF TypeOK
  <1>. QED
    BY <1>1, InvariantHolds, PTL

\* What the invariant says of the blocks.
LEMMA BlocksApart ==
    ASSUME NEW img, NEW strm, NEW tsk, NEW done, NEW n, Good(img, strm, tsk, done, n)
    PROVE  /\ img \in Image /\ DirOK(img) /\ FilesApart(img) /\ Apart(img, strm, tsk)
           /\ FilesOK(img, But(tsk))
           /\ \A s \in Live(img) : (Dir(img) \cup {System}) \cap Blocks(img, s) = {}
           /\ \A c \in Channels : (Dir(img) \cup {System}) \cap Held(strm, c) = {}
  <1>1. /\ img \in Image /\ DirOK(img) /\ FilesApart(img) /\ Apart(img, strm, tsk)
        /\ LinksOK(img) /\ EntriesOK(img) /\ StreamsOK(strm, tsk, n) /\ FilesOK(img, But(tsk))
    BY DEF Good, Sound
  <1>2. (Dir(img) \cup {System}) \cap FileBlocks = {}
    BY <1>1, Ranges DEF DirOK
  <1>3. ASSUME NEW s \in Live(img) PROVE Blocks(img, s) \subseteq FileBlocks
    BY <1>1, LiveStart, BlocksOfFile
  <1>4. ASSUME NEW c \in Channels PROVE Held(strm, c) \subseteq FileBlocks
    <2>1. strm[c] \in Streams(n)
      BY <1>1 DEF StreamsOK
    <2>. QED
      BY <2>1, HeldSeq DEF Held
  <1>. QED
    BY <1>1, <1>2, <1>3, <1>4

\* No block belongs to two files, to a file and a save under way, to two
\* saves, or to one of them and the directory, whatever write fails and
\* wherever power is cut within Safe.
THEOREM BlocksNotShared ==
    ASSUME Safe
    PROVE  Spec => []NoSharedBlock
  <1>1. D64Inv => NoSharedBlock
    <2>. SUFFICES ASSUME D64Inv PROVE NoSharedBlock
      OBVIOUS
    <2>1. PICK img : img = Visible /\ Good(img, stream, task, acked, saves)
      BY DEF D64Inv
    <2>2. LiveSlots(img) = Live(img) /\ Range(DirChain(img)) = Dir(img)
      BY LiveSlotsAre DEF Dir
    <2>3. /\ FilesApart(img) /\ Apart(img, stream, task)
          /\ \A s \in Live(img) : (Dir(img) \cup {System}) \cap Blocks(img, s) = {}
          /\ \A c \in Channels : (Dir(img) \cup {System}) \cap Held(stream, c) = {}
      BY <2>1, BlocksApart
    <2>. QED
      BY <2>1, <2>2, <2>3 DEF NoSharedBlock, FilesApart, Apart, Blocks, Held
  <1>. QED
    BY <1>1, InvariantHolds, PTL

\* Every chain ends and is allocated, in an image whose writes fail and whose
\* power is cut within Safe only: not at the write that marks an entry deleted
\* nor at the one that fills a new directory sector (d64.cpp:900), and no cut
\* while blocks are freed or right after the directory was linked (d64.cpp:866).
THEOREM ChainsStayAllocated ==
    ASSUME Safe
    PROVE  Spec => []ChainsAllocated
  <1>1. D64Inv => ChainsAllocated
    <2>. SUFFICES ASSUME D64Inv PROVE ChainsAllocated
      OBVIOUS
    <2>1. PICK img : img = Visible /\ Good(img, stream, task, acked, saves)
      BY DEF D64Inv
    <2>2. LiveSlots(img) = Live(img) /\ Range(DirChain(img)) = Dir(img)
      BY LiveSlotsAre DEF Dir
    <2>3. DirOK(img) /\ FilesOK(img, But(task))
      BY <2>1, BlocksApart
    <2>4. Ends(img, DirChain(img)) /\ Range(DirChain(img)) \cap img.free = {}
      BY <2>2, <2>3 DEF DirOK
    <2>5. ASSUME NEW s \in Live(img), ~BeingScratched(s)
          PROVE  Ends(img, FileChain(img, s)) /\ Range(FileChain(img, s)) \cap img.free = {}
      <3>1. s # But(task)
        BY <2>5, NotNoSlot DEF BeingScratched, But
      <3>. QED
        BY <2>3, <3>1 DEF FilesOK, FileOK, Blocks
    <2>6. ASSUME NEW c \in Channels, stream[c].creating
          PROVE  Range(stream[c].held) \cap img.free = {}
      <3>1. ~RollingBack(task, c)
        BY <2>1, <2>6 DEF Good, WhoOK, RollingBack
      <3>. QED
        BY <2>1, <3>1 DEF Good, SavesOK, SaveOK
    <2>. QED
      BY <2>1, <2>2, <2>4, <2>5, <2>6 DEF ChainsAllocated
  <1>. QED
    BY <1>1, InvariantHolds, PTL

\* A reader gets all of a save that is there.
LEMMA HoldsReads ==
    ASSUME NEW img, NEW s, NEW id, Holds(img, s, id)
    PROVE  ReadBack(img, s) = Sent(id, EntryAt(img, s).blocks)
  <1>1. PICK p, n : p = FileChain(img, s) /\ n = EntryAt(img, s).blocks
    OBVIOUS
  <1>2. Len(p) = n /\ \A i \in 1..n : img.data[p[i]] = FileData(id, i)
    BY <1>1 DEF Holds
  <1>3. \A i \in 1..n : img.data[p[i]].id = id /\ img.data[p[i]].index = i
    <2>. SUFFICES ASSUME NEW i \in 1..n
                  PROVE  img.data[p[i]].id = id /\ img.data[p[i]].index = i
      OBVIOUS
    <2>1. PICK d : d = img.data[p[i]] /\ d = FileData(id, i)
      BY <1>2
    <2>2. d.id = id /\ d.index = i
      BY <2>1 DEF FileData
    <2>. QED
      BY <2>1, <2>2
  <1>4. ReadBack(img, s) = [i \in 1..n |-> <<img.data[p[i]].id, img.data[p[i]].index>>]
    BY <1>1, <1>2 DEF ReadBack
  <1>5. ReadBack(img, s) = Sent(id, n)
    BY <1>3, <1>4 DEF Sent
  <1>. QED
    BY <1>1, <1>5

\* A save the drive reported as done stays in the directory, whole, until
\* somebody scratches it, through the troubles within Safe.
THEOREM SavedStays ==
    ASSUME Safe
    PROVE  Spec => []AckedOnDisk
  <1>1. D64Inv => AckedOnDisk
    <2>. SUFFICES ASSUME D64Inv PROVE AckedOnDisk
      OBVIOUS
    <2>1. PICK img : img = Visible /\ Good(img, stream, task, acked, saves)
      BY DEF D64Inv
    <2>2. LiveSlots(img) = Live(img)
      BY LiveSlotsAre
    <2>3. /\ FilesOK(img, But(task)) /\ Kept(img, But(task), acked) /\ img \in Image
          /\ LinksOK(img) /\ EntriesOK(img)
      BY <2>1 DEF Good, Sound
    <2>4. ASSUME NEW id \in acked
          PROVE  \E s \in Live(img) : /\ Ends(img, FileChain(img, s))
                                      /\ ReadBack(img, s) = Sent(id, EntryAt(img, s).blocks)
      <3>1. PICK s \in Live(img) \ {But(task)} : Holds(img, s, id)
        BY <2>3 DEF Kept
      <3>2. Ends(img, FileChain(img, s))
        BY <2>3, <3>1 DEF FilesOK, FileOK
      <3>3. ReadBack(img, s) = Sent(id, EntryAt(img, s).blocks)
        BY <3>1, HoldsReads
      <3>. QED
        BY <3>1, <3>2, <3>3
    <2>. QED
      BY <2>1, <2>2, <2>4 DEF AckedOnDisk
  <1>. QED
    BY <1>1, InvariantHolds, PTL
=============================================================================
