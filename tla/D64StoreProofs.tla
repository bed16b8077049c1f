--------------------------- MODULE D64StoreProofs ---------------------------
(***************************************************************************)
(* D64Image implements FileStore, and leaves no block without an owner:    *)
(* what every step of a handler does to the files a reader finds, and to   *)
(* the blocks the allocation map shows in use.                             *)
(***************************************************************************)
EXTENDS D64ImageProofs

-----------------------------------------------------------------------------
(* The files of an image.                                                  *)

FilesOf(img) ==
    {[slot |-> s, name |-> EntryAt(img, s).name, data |-> ReadBack(img, s)] : s \in Live(img)}

\* Two images with the same directory and the same files in it.
SameStore(img, new) ==
    /\ Dir(new) = Dir(img) /\ Live(new) = Live(img)
    /\ \A s \in Live(img) : SameFile(img, new, s) /\ Blocks(new, s) = Blocks(img, s)

LEMMA FilesAre == StoreFiles = FilesOf(Visible)
  BY LiveSlotsAre DEF StoreFiles, FilesOf

LEMMA FilesAreNext == StoreFiles' = FilesOf(Visible')
  <1>1. \A img : LiveSlots(img) = Live(img)
    BY LiveSlotsAre
  <1>2. PICK img : img = Visible'
    OBVIOUS
  <1>3. StoreFiles' = {[slot |-> s, name |-> EntryAt(img, s).name, data |-> ReadBack(img, s)] :
                          s \in LiveSlots(img)}
    BY <1>2 DEF StoreFiles
  <1>. QED
    BY <1>1, <1>2, <1>3 DEF FilesOf

LEMMA StoreItself == ASSUME NEW img PROVE SameStore(img, img)
  BY DEF SameStore, SameFile

\* A reader gets the same data from a file whose blocks are the same.
LEMMA SameRead ==
    ASSUME NEW img, NEW new, NEW but, NEW done, Sound(img, but, done), NEW s \in Live(img),
           SameFile(img, new, s)
    PROVE  /\ EntryAt(new, s) = EntryAt(img, s) /\ ReadBack(new, s) = ReadBack(img, s)
  <1>1. EntryAt(img, s).start \in FileBlocks /\ LinksOK(img) /\ img \in Image
    BY LiveStart DEF Sound
  <1>2. PICK p : p = FileChain(img, s) /\ p = FileChain(new, s)
    BY DEF SameFile
  <1>3. \A i \in 1..Len(p) : p[i] \in Blocks(img, s)
    BY <1>1, <1>2, BlocksOfFile
  <1>4. \A i \in 1..Len(p) : new.data[p[i]] = img.data[p[i]]
    BY <1>3 DEF SameFile
  <1>5. /\ ReadBack(img, s) = [i \in 1..Len(p) |-> <<img.data[p[i]].id, img.data[p[i]].index>>]
        /\ ReadBack(new, s) = [i \in 1..Len(p) |-> <<new.data[p[i]].id, new.data[p[i]].index>>]
    BY <1>2 DEF ReadBack
  <1>6. ReadBack(new, s) = ReadBack(img, s)
    BY <1>4, <1>5
  <1>. QED
    BY <1>6 DEF SameFile

LEMMA SameFiles ==
    ASSUME NEW img, NEW new, NEW but, NEW done, Sound(img, but, done), SameStore(img, new)
    PROVE  FilesOf(new) = FilesOf(img)
  <1>1. \A s \in Live(img) : EntryAt(new, s) = EntryAt(img, s) /\ ReadBack(new, s) = ReadBack(img, s)
    BY SameRead DEF SameStore
  <1>2. Live(new) = Live(img)
    BY DEF SameStore
  <1>. QED
    BY <1>1, <1>2 DEF FilesOf

\* Claiming and freeing blocks changes no file.
LEMMA FreedStore ==
    ASSUME NEW img, NEW new, NEW but, NEW done, Sound(img, but, done), FreedOnly(img, new)
    PROVE  SameStore(img, new)
  <1>1. Alike(img, new) /\ EntriesOK(img)
    BY FreeAlike DEF Sound
  <1>2. \A s \in Live(img) : s \in Places(img) /\ EntryAt(img, s).start \in FileBlocks
    BY <1>1, LiveStart
  <1>. QED
    BY <1>1, <1>2 DEF Alike, SameStore

\* Writing a block of a save changes no file.
LEMMA WrittenStore ==
    ASSUME NEW img, NEW new, NEW strm, NEW tsk, NEW done, NEW n, Good(img, strm, tsk, done, n),
           tsk.pc \in {"link", "last"}, NEW b \in Held(strm, tsk.h), NEW d, NEW nx,
           Written(img, new, b, nx, d)
    PROVE  SameStore(img, new)
  <1>1. PICK c \in Channels : c = tsk.h
    BY Running
  <1>2. strm \in [Channels -> Streams(n)] /\ Apart(img, strm, tsk) /\ Sound(img, NoSlot, done)
    BY Running
  <1>3. b \in FileBlocks
    BY <1>1, <1>2, HeldSeq DEF Held
  <1>4. b \notin Dir(img)
    BY <1>2, <1>3, Ranges DEF Sound, DirOK
  <1>5. \A s \in Live(img) : b \notin Blocks(img, s)
    BY <1>1, <1>2 DEF Apart
  <1>6. Changed(img, new, b)
    BY DEF Written
  <1>. QED
    BY <1>2, <1>4, <1>5, <1>6, ChangedFiles, ChangedDir DEF SameStore

\* An entry that is written or marked changes no other file.
LEMMA EnteredStore ==
    ASSUME NEW img, NEW new, NEW s, NEW e, NEW but, NEW done,
           Sound(img, but, done), Entered(img, new, s, e)
    PROVE  /\ {f \in FilesOf(new) : f.slot # s} = {f \in FilesOf(img) : f.slot # s}
           /\ Live(new) \ {s} = Live(img) \ {s} /\ (s \in Live(new) <=> e.live)
  <1>1. /\ Live(new) \ {s} = Live(img) \ {s} /\ (s \in Live(new) <=> e.live)
        /\ \A t \in Live(img) \ {s} : SameFile(img, new, t)
    BY EnteredFiles
  <1>2. \A t \in Live(img) \ {s} :
           EntryAt(new, t) = EntryAt(img, t) /\ ReadBack(new, t) = ReadBack(img, t)
    BY <1>1, SameRead
  <1>. QED
    BY <1>1, <1>2 DEF FilesOf

-----------------------------------------------------------------------------
(* What power may take: the write a buffer holds changes no file, if power *)
(* may be cut where it was made.                                           *)

Agree == \A h \in Handles :
    pend[h] # <<>> /\ pend[h][1].at \in CutPoints => SameStore(image, Visible)

LEMMA AgreeFlushed ==
    ASSUME Flushed, SameStore(Visible, Visible') \/ task.pc \notin CutPoints
    PROVE  Agree'
  BY DEF Flushed, Agree

LEMMA AgreeUntouched ==
    ASSUME Agree, Untouched
    PROVE  Agree' /\ SameStore(Visible, Visible')
  BY StoreItself DEF Untouched, Agree

LEMMA AgreeClosed ==
    ASSUME \A h \in Handles : pend'[h] = <<>>
    PROVE  Agree'
  BY DEF Agree

\* The handler that closes its container leaves no write in a buffer.
LEMMA ClosingFlushes ==
    ASSUME D64Inv, D64Inv', NEW h \in Handles, Busy(h), ~Busy(h)', buffered' = buffered,
           \A g \in Handles : Busy(g)' => Busy(g)
    PROVE  \A g \in Handles : pend'[g] = <<>>
  <1>1. PendOK /\ PendOK'
    BY DEF D64Inv
  <1>2. buffered => \A g \in Handles : Busy(g) => g = h
    BY <1>1 DEF PendOK
  <1>3. \A g \in Handles : pend'[g] # <<>> => buffered' /\ Busy(g)'
    BY <1>1 DEF PendOK
  <1>. QED
    BY <1>2, <1>3

-----------------------------------------------------------------------------
(* The saves under way.                                                    *)

Data == (1..MaxSaves) \X (1..MaxBlocks)
Save(c) == IF SavingOn(c) THEN [name |-> stream[c].name,
                                data |-> Sent(stream[c].id, Len(stream[c].held))]
           ELSE Nobody

LEMMA SavingAre == StoreSaving = [c \in Channels |-> Save(c)]
  BY DEF StoreSaving, Save

LEMMA SavingAreNext == StoreSaving' = [c \in Channels |-> Save(c)']
  BY DEF StoreSaving, Save

\* The saves of the other channels are the same after a step.
Alone(c) == \A d \in Channels \ {c} : Save(d)' = Save(d)

LEMMA OthersSave ==
    ASSUME NEW c, \A d \in Channels \ {c} : stream'[d] = stream[d],
           task.h \in {c, Shell}, task'.h \in {c, Shell}
    PROVE  Alone(c)
  <1>. SUFFICES ASSUME NEW d \in Channels \ {c} PROVE Save(d)' = Save(d)
    BY DEF Alone
  <1>1. stream'[d] = stream[d] /\ task.h # d /\ task'.h # d
    BY HandleAssumption
  <1>2. SavingOn(d)' <=> SavingOn(d)
    BY <1>1 DEF SavingOn
  <1>. QED
    BY <1>1, <1>2 DEF Save

LEMMA OneSave ==
    ASSUME NEW c \in Channels, Alone(c)
    PROVE  /\ StoreSaving' = [StoreSaving EXCEPT ![c] = Save(c)']
           /\ StoreSaving[c] = Save(c) /\ StoreSaving = [d \in Channels |-> Save(d)]
           /\ Save(c)' = Save(c) => StoreSaving' = StoreSaving
  BY SavingAre, SavingAreNext DEF Alone

\* What a save under way is.
LEMMA SaveOf ==
    ASSUME NEW img, NEW strm, NEW tsk, NEW done, NEW n, Good(img, strm, tsk, done, n),
           n \in 0..MaxSaves, NEW c \in Channels, strm[c].creating \/ Finalizing(tsk, c)
    PROVE  /\ strm[c] \in Streams(n) /\ strm[c].name \in Names
           /\ strm[c].id \in 1..MaxSaves /\ Len(strm[c].held) \in 1..MaxBlocks
  <1>1. StreamsOK(strm, tsk, n) /\ WhoOK(strm, tsk)
    BY DEF Good
  <1>2. StreamOK(strm[c], Finalizing(tsk, c) \/ RollingBack(tsk, c), n)
    BY <1>1 DEF StreamsOK
  <1>4. strm[c].open
    BY <1>1, <1>2 DEF StreamOK, WhoOK, Finalizing, Finishing
  <1>5. /\ strm[c] \in Streams(n) /\ strm[c].name \in Names /\ strm[c].id \in 1..n
        /\ strm[c].held # <<>> /\ Len(strm[c].held) <= MaxBlocks
    BY <1>2, <1>4 DEF StreamOK
  <1>6. Len(strm[c].held) \in Nat /\ Len(strm[c].held) > 0
    BY <1>5, HeldSeq
  <1>7. Len(strm[c].held) \in 1..MaxBlocks
    BY <1>5, <1>6, BoundAssumption
  <1>8. strm[c].id \in 1..MaxSaves
    BY <1>5, BoundAssumption
  <1>. QED
    BY <1>5, <1>7, <1>8

LEMMA SaveIs ==
    ASSUME D64Inv, NEW c \in Channels, SavingOn(c)
    PROVE  /\ stream[c] \in Streams(saves) /\ stream[c].name \in Names
           /\ stream[c].id \in 1..MaxSaves /\ Len(stream[c].held) \in 1..MaxBlocks
  <1>1. stream[c].creating \/ Finalizing(task, c)
    BY DEF SavingOn, Finalizing, Finishing
  <1>2. Good(Visible, stream, task, acked, saves) /\ saves \in 0..MaxSaves
    BY DEF D64Inv, CountsOK
  <1>. QED
    BY <1>1, <1>2, SaveOf

LEMMA SaveIsNext ==
    ASSUME D64Inv', NEW c \in Channels, SavingOn(c)'
    PROVE  /\ stream'[c] \in Streams(saves') /\ stream'[c].name \in Names
           /\ stream'[c].id \in 1..MaxSaves /\ Len(stream'[c].held) \in 1..MaxBlocks
  <1>1. stream'[c].creating \/ Finalizing(task', c)
    BY DEF SavingOn, Finalizing, Finishing
  <1>2. Good(Visible', stream', task', acked', saves') /\ saves' \in 0..MaxSaves
    BY DEF D64Inv, CountsOK
  <1>. QED
    BY <1>1, <1>2, SaveOf

LEMMA SentIs ==
    ASSUME NEW id \in 1..MaxSaves, NEW n \in 1..MaxBlocks
    PROVE  Sent(id, n) \in Seq(Data) /\ Len(Sent(id, n)) = n
  <1>1. n \in Nat /\ \A i \in 1..n : i \in 1..MaxBlocks
    BY BoundAssumption
  <1>. QED
    BY <1>1 DEF Sent, Data

LEMMA SaveThere ==
    ASSUME D64Inv, NEW c \in Channels, SavingOn(c)
    PROVE  Save(c) # Nobody
  <1>1. PICK d : d = Sent(stream[c].id, Len(stream[c].held)) /\ d \in Seq(Data)
    BY SaveIs, SentIs
  <1>2. PICK n \in Names : n = stream[c].name
    BY SaveIs
  <1>3. Save(c) = [name |-> n, data |-> d]
    BY <1>1, <1>2 DEF Save
  <1>. QED
    BY <1>1, <1>3, NobodyAssumption DEF Data

-----------------------------------------------------------------------------
(* Steps of the abstract store.                                            *)

StoreStep == [Store!Next]_<<StoreFiles, StoreSaving>>
Keeps == SameStore(Visible, Visible')

LEMMA KeepsFiles ==
    ASSUME D64Inv, Keeps
    PROVE  StoreFiles' = StoreFiles
  <1>1. Sound(Visible, But(task), acked)
    BY DEF D64Inv, Good
  <1>2. PICK img, new : img = Visible /\ new = Visible'
    OBVIOUS
  <1>3. FilesOf(new) = FilesOf(img)
    BY <1>1, <1>2, SameFiles DEF Keeps
  <1>. QED
    BY <1>2, <1>3, FilesAre, FilesAreNext

LEMMA Stutters ==
    ASSUME D64Inv, Keeps, NEW c \in Channels, Alone(c), Save(c)' = Save(c)
    PROVE  StoreStep
  BY KeepsFiles, OneSave DEF StoreStep

LEMMA StartsSave ==
    ASSUME D64Inv, D64Inv', Keeps, NEW c \in Channels, Alone(c), ~SavingOn(c), SavingOn(c)',
           Len(stream'[c].held) = 1
    PROVE  StoreStep
  <1>1. /\ StoreFiles' = StoreFiles /\ StoreSaving' = [StoreSaving EXCEPT ![c] = Save(c)']
        /\ StoreSaving[c] = Nobody
    BY KeepsFiles, OneSave DEF Save
  <1>2. PICK n \in Names, id \in 1..MaxSaves : n = stream'[c].name /\ id = stream'[c].id
    BY SaveIsNext
  <1>3. PICK d \in Data : d = <<id, 1>>
    <2>1. 1 \in 1..MaxBlocks
      BY BoundAssumption
    <2>. QED
      BY <2>1 DEF Data
  <1>4. Sent(id, 1) = <<d>>
    BY <1>3 DEF Sent
  <1>5. Save(c)' = [name |-> n, data |-> <<d>>]
    BY <1>2, <1>4 DEF Save
  <1>6. Store!Start(c)
    BY <1>1, <1>3, <1>5 DEF Store!Start, Data
  <1>. QED
    BY <1>6 DEF StoreStep, Store!Next

LEMMA Sends ==
    ASSUME D64Inv, D64Inv', Keeps, NEW c \in Channels, Alone(c), SavingOn(c), SavingOn(c)',
           stream'[c].name = stream[c].name, stream'[c].id = stream[c].id,
           Len(stream'[c].held) = Len(stream[c].held) + 1
    PROVE  StoreStep
  <1>1. /\ StoreFiles' = StoreFiles /\ StoreSaving' = [StoreSaving EXCEPT ![c] = Save(c)']
        /\ StoreSaving[c] = Save(c) /\ StoreSaving = [d \in Channels |-> Save(d)]
    BY KeepsFiles, OneSave
  <1>2. PICK id \in 1..MaxSaves, n \in 1..MaxBlocks, name \in Names :
           id = stream[c].id /\ n = Len(stream[c].held) /\ name = stream[c].name
    BY SaveIs
  <1>3. n + 1 \in 1..MaxBlocks
    BY <1>2, SaveIsNext
  <1>4. PICK d \in Data : d = <<id, n + 1>>
    BY <1>3 DEF Data
  <1>5. Sent(id, n + 1) = Append(Sent(id, n), d)
    <2>1. /\ Sent(id, n) \in Seq(Data) /\ Len(Sent(id, n)) = n
      BY SentIs
    <2>2. /\ Sent(id, n + 1) \in Seq(Data) /\ Len(Sent(id, n + 1)) = n + 1
      BY <1>3, SentIs
    <2>3. \A i \in 1..n : Sent(id, n)[i] = Sent(id, n + 1)[i]
      BY <1>3 DEF Sent
    <2>4. Sent(id, n + 1)[n + 1] = d
      BY <1>3, <1>4 DEF Sent
    <2>5. PICK p, q \in Seq(Data) : p = Sent(id, n) /\ q = Sent(id, n + 1)
      BY <2>1, <2>2
    <2>6. q = Append(p, d)
      BY <2>1, <2>2, <2>3, <2>4, <2>5
    <2>. QED
      BY <2>5, <2>6
  <1>6. /\ Save(c) = [name |-> name, data |-> Sent(id, n)]
        /\ Save(c)' = [name |-> name, data |-> Sent(id, n + 1)]
    BY <1>2 DEF Save
  <1>7. Save(c)' = [Save(c) EXCEPT !.data = Append(@, d)]
    <2>1. PICK p, q : p = Sent(id, n) /\ q = Sent(id, n + 1) /\ q = Append(p, d)
      BY <1>5
    <2>2. PICK r : r = [name |-> name, data |-> p] /\ r = Save(c)
      BY <1>6, <2>1
    <2>3. r.data = p /\ [r EXCEPT !.data = q] = [name |-> name, data |-> q]
      BY <2>2
    <2>. QED
      BY <1>6, <2>1, <2>2, <2>3
  <1>8. Save(c) # Nobody
    BY SaveThere
  <1>9. StoreSaving' = [StoreSaving EXCEPT ![c].data = Append(@, d)]
    BY <1>1, <1>7
  <1>10. Store!Send(c)
    BY <1>1, <1>4, <1>8, <1>9 DEF Store!Send, Data
  <1>. QED
    BY <1>10 DEF StoreStep, Store!Next

LEMMA Aborts ==
    ASSUME D64Inv, Keeps, NEW c \in Channels, Alone(c), SavingOn(c), ~SavingOn(c)'
    PROVE  StoreStep
  <1>1. /\ StoreFiles' = StoreFiles /\ StoreSaving' = [StoreSaving EXCEPT ![c] = Save(c)']
        /\ StoreSaving[c] = Save(c) /\ Save(c)' = Nobody
    BY KeepsFiles, OneSave DEF Save
  <1>2. Save(c) # Nobody
    BY SaveThere
  <1>3. Store!Abort(c)
    BY <1>1, <1>2 DEF Store!Abort
  <1>. QED
    BY <1>3 DEF StoreStep, Store!Next

\* A step of a handler that starts no save and sends nothing.
LEMMA StopsOrStays ==
    ASSUME D64Inv, Keeps, NEW c \in Channels, Alone(c), SavingOn(c)' => Save(c)' = Save(c)
    PROVE  StoreStep
  <1>1. CASE SavingOn(c)'
    BY <1>1, Stutters
  <1>2. CASE ~SavingOn(c)' /\ SavingOn(c)
    BY <1>2, Aborts
  <1>3. CASE ~SavingOn(c)' /\ ~SavingOn(c)
    <2>1. Save(c)' = Nobody /\ Save(c) = Nobody
      BY <1>3 DEF Save
    <2>. QED
      BY <2>1, Stutters
  <1>. QED
    BY <1>1, <1>2, <1>3

\* A handler that works on no save.
LEMMA NotSaving ==
    ASSUME stream' = stream,
           {task.pc, task'.pc} \cap {"last", "slot", "extend", "dirLink", "entry", "newEntry"} = {}
    PROVE  StoreSaving' = StoreSaving
  <1>1. \A d \in Channels : SavingOn(d)' <=> SavingOn(d)
    BY DEF SavingOn
  <1>2. \A d \in Channels : Save(d)' = Save(d)
    BY <1>1 DEF Save
  <1>. QED
    BY <1>2, SavingAre, SavingAreNext

-----------------------------------------------------------------------------
(* The steps of the handlers, seen from the store.                         *)

LEMMA Shapes ==
    ASSUME D64Inv
    PROVE  /\ task \in Tasks /\ stream \in [Channels -> Streams(saves)] /\ WhoOK(stream, task)
           /\ Good(Visible, stream, task, acked, saves) /\ Sound(Visible, But(task), acked)
           /\ StepOK(Visible, stream, task) /\ StreamsOK(stream, task, saves)
  BY DEF D64Inv, Good, WhoOK, StreamsOK

\* The handlers of a channel.
LEMMA ChannelRuns ==
    ASSUME D64Inv, task.pc \notin {"idle", "free", "clear", "reclaim", "restore"}
    PROVE  task.h \in Channels /\ task.h # Shell
  BY Shapes, HandleAssumption DEF WhoOK

LEMMA FreedKeeps == ASSUME D64Inv, FreedOnly(Visible, Visible') PROVE Keeps
  <1>1. PICK img, new : img = Visible /\ new = Visible'
    OBVIOUS
  <1>. QED
    BY <1>1, Shapes, FreedStore DEF Keeps

LEMMA SameKeeps == ASSUME Visible' = Visible PROVE Keeps
  BY StoreItself DEF Keeps

\* rollbackFileWrite() ends the save.
LEMMA UndoStops ==
    ASSUME D64Inv, NEW c \in Channels, c = task.h, Undo(c)
    PROVE  /\ Alone(c) /\ ~SavingOn(c)' /\ task'.pc = "rollback" /\ task'.h = c
           /\ task'.todo = stream[c].held /\ stream'[c].held = stream[c].held
           /\ stream'[c].error /\ ~stream'[c].creating
           /\ \A d \in Channels \ {c} : stream'[d] = stream[d]
  <1>1. /\ task'.pc = "rollback" /\ task'.h = c /\ task'.todo = stream[c].held
    BY Shapes DEF Undo, Tasks
  <1>2. /\ ~stream'[c].creating /\ stream'[c].error /\ stream'[c].held = stream[c].held
        /\ \A d \in Channels \ {c} : stream'[d] = stream[d]
    BY Shapes DEF Undo, Streams
  <1>3. Alone(c)
    BY <1>1, <1>2, OthersSave
  <1>. QED
    BY <1>1, <1>2, <1>3 DEF SavingOn

LEMMA UndoAborts ==
    ASSUME D64Inv, NEW c \in Channels, c = task.h, Undo(c), Keeps, Flushed
    PROVE  Agree' /\ StoreStep
  BY UndoStops, StopsOrStays, AgreeFlushed DEF Keeps

LEMMA BeginStore ==
    ASSUME Safe, D64Inv, Agree, Begin
    PROVE  Agree' /\ StoreStep
  <1>1. D64Inv' /\ Flushed /\ BeginDone(task.h)
    BY BeginStep
  <1>2. task.pc = "begin" /\ task' = Idle
    BY DEF Begin, At
  <1>3. PICK c \in Channels : c = task.h
    BY <1>2, ChannelRuns
  <1>4. /\ task'.h = Shell /\ task'.pc = "idle" /\ stream \in [Channels -> Streams(saves)]
        /\ WhoOK(stream, task)
    BY <1>2, Shapes DEF Idle
  <1>5. Keeps
    BY <1>1, FreedKeeps, SameKeeps DEF BeginDone, Took
  <1>6. Alone(c)
    BY <1>1, <1>3, <1>4, OthersSave DEF BeginDone
  <1>7. ~SavingOn(c)
    BY <1>2, <1>3, <1>4 DEF SavingOn, WhoOK
  <1>8. CASE \E b \in FileBlocks :
                stream' = [stream EXCEPT ![c].creating = TRUE, ![c].held = <<b>>]
    <2>1. PICK b \in FileBlocks : stream' = [stream EXCEPT ![c].creating = TRUE, ![c].held = <<b>>]
      BY <1>8
    <2>2. stream'[c].creating /\ stream'[c].held = <<b>>
      BY <1>4, <2>1 DEF Streams
    <2>3. SavingOn(c)' /\ Len(stream'[c].held) = 1
      BY <2>2 DEF SavingOn
    <2>. QED
      BY <1>1, <1>5, <1>6, <1>7, <2>3, StartsSave, AgreeFlushed DEF Keeps
  <1>9. CASE stream' = [stream EXCEPT ![c].error = TRUE]
    <2>1. stream'[c].creating = stream[c].creating
      BY <1>4, <1>9 DEF Streams
    <2>2. ~SavingOn(c)'
      BY <1>4, <1>7, <2>1 DEF SavingOn
    <2>. QED
      BY <1>1, <1>5, <1>6, <2>2, StopsOrStays, AgreeFlushed DEF Keeps
  <1>. QED
    BY <1>1, <1>3, <1>8, <1>9 DEF BeginDone

\* A step of a handler of a save that goes on with it.
LEMMA SaveGoesOn ==
    ASSUME D64Inv, Keeps, Flushed, NEW c \in Channels, c = task.h, stream' = stream,
           task'.h = c, SavingOn(c)
    PROVE  Agree' /\ StoreStep
  <1>1. Alone(c)
    BY OthersSave
  <1>2. SavingOn(c)' => Save(c)' = Save(c)
    BY DEF Save
  <1>. QED
    BY <1>1, <1>2, StopsOrStays, AgreeFlushed DEF Keeps

LEMMA NextStore ==
    ASSUME Safe, D64Inv, Agree, NextBlock
    PROVE  Agree' /\ StoreStep
  <1>1. D64Inv' /\ Flushed /\ NextDone(task.h)
    BY NextStep
  <1>2. task.pc = "next"
    BY DEF NextBlock, At
  <1>3. PICK c \in Channels : c = task.h
    BY <1>2, ChannelRuns
  <1>4. CASE Visible' = Visible /\ Undo(c)
    BY <1>1, <1>3, <1>4, SameKeeps, UndoAborts
  <1>5. CASE stream' = stream /\ \E b \in FileBlocks :
                Took(b) /\ task' = [task EXCEPT !.pc = "link", !.new = b]
    <2>1. Keeps
      BY <1>5, FreedKeeps DEF Took
    <2>2. task'.h = c
      BY <1>3, <1>5, Shapes DEF Tasks
    <2>3. SavingOn(c)
      BY <1>2, <1>3, Shapes DEF SavingOn, WhoOK
    <2>. QED
      BY <1>1, <1>3, <1>5, <2>1, <2>2, <2>3, SaveGoesOn
  <1>. QED
    BY <1>1, <1>3, <1>4, <1>5 DEF NextDone

LEMMA ExtendStore ==
    ASSUME Safe, D64Inv, Agree, ExtendDirectory
    PROVE  Agree' /\ StoreStep
  <1>1. D64Inv' /\ Flushed /\ ExtendDone(task.h)
    BY ExtendStep
  <1>2. task.pc = "extend"
    BY DEF ExtendDirectory, At
  <1>3. PICK c \in Channels : c = task.h
    BY <1>2, ChannelRuns
  <1>4. CASE Visible' = Visible /\ Undo(c)
    BY <1>1, <1>3, <1>4, SameKeeps, UndoAborts
  <1>5. CASE stream' = stream /\ \E b \in DirBlocks :
                Took(b) /\ task' = [task EXCEPT !.pc = "dirLink", !.new = b]
    <2>1. Keeps
      BY <1>5, FreedKeeps DEF Took
    <2>2. task'.h = c
      BY <1>3, <1>5, Shapes DEF Tasks
    <2>3. SavingOn(c)
      BY <1>2, <1>3 DEF SavingOn
    <2>. QED
      BY <1>1, <1>3, <1>5, <2>1, <2>2, <2>3, SaveGoesOn
  <1>. QED
    BY <1>1, <1>3, <1>4, <1>5 DEF ExtendDone

LEMMA SlotStore ==
    ASSUME Safe, D64Inv, Agree, FindSlot
    PROVE  Agree' /\ StoreStep
  <1>1. D64Inv' /\ Flushed /\ SlotDone(task.h)
    BY SlotStep
  <1>2. task.pc = "slot"
    BY DEF FindSlot, At
  <1>3. PICK c \in Channels : c = task.h
    BY <1>2, ChannelRuns
  <1>4. Keeps /\ SavingOn(c)
    BY <1>1, <1>2, <1>3, SameKeeps DEF SlotDone, SavingOn
  <1>. QED
    BY <1>1, <1>3, <1>4, UndoAborts, SaveGoesOn DEF SlotDone

LEMMA LinkDirStore ==
    ASSUME Safe, D64Inv, Agree, LinkDirectory
    PROVE  Agree' /\ StoreStep
  <1>1. D64Inv' /\ Flushed /\ LinkDirDone
    BY LinkDirStep
  <1>2. task.pc = "dirLink"
    BY DEF LinkDirectory, At
  <1>3. PICK c \in Channels : c = task.h
    BY <1>2, ChannelRuns
  <1>4. Keeps /\ SavingOn(c)
    BY <1>1, <1>2, <1>3, SameKeeps DEF LinkDirDone, SavingOn
  <1>. QED
    BY <1>1, <1>3, <1>4, SaveGoesOn DEF LinkDirDone

LEMMA UndoDirStore ==
    ASSUME Safe, D64Inv, Agree, UndoDirectory
    PROVE  Agree' /\ StoreStep
  <1>1. D64Inv' /\ Flushed /\ Undo(task.h) /\ (Gave(task.new) \/ Fails)
    BY UndoDirStep
  <1>2. task.pc = "undoDir"
    BY DEF UndoDirectory, At
  <1>3. PICK c \in Channels : c = task.h
    BY <1>2, ChannelRuns
  <1>4. Keeps
    BY <1>1, SameKeeps, FreedKeeps DEF Gave, Fails
  <1>. QED
    BY <1>1, <1>3, <1>4, UndoAborts

\* A block of a save is written.
LEMMA BlockKeeps ==
    ASSUME D64Inv, task.pc \in {"link", "last"}, NEW c \in Channels, c = task.h, NEW nx,
           BlockDone(c, nx)
    PROVE  Keeps /\ SavingOn(c)
  <1>1. SavingOn(c)
    BY Shapes DEF WhoOK, SavingOn
  <1>2. PICK q : q = stream[c].held
    OBVIOUS
  <1>3. q \in Seq(FileBlocks) /\ Len(q) \in Nat /\ Len(q) > 0
    BY <1>1, <1>2, SaveIs, HeldSeq
  <1>4. q[Len(q)] \in Held(stream, c)
    <2>1. q[Len(q)] \in Range(q)
      BY <1>3 DEF Range
    <2>. QED
      BY <1>2, <2>1 DEF Held
  <1>5. PICK img, new : img = Visible /\ new = Visible'
    OBVIOUS
  <1>6. PICK d : Written(img, new, q[Len(q)], nx, d)
    BY <1>2, <1>5 DEF BlockDone
  <1>7. SameStore(img, new)
    BY <1>4, <1>5, <1>6, Shapes, WrittenStore
  <1>. QED
    BY <1>1, <1>5, <1>7 DEF Keeps

LEMMA LinkStore ==
    ASSUME Safe, D64Inv, Agree, LinkBlock
    PROVE  Agree' /\ StoreStep
  <1>1. D64Inv' /\ Flushed /\ LinkDone(task.h)
    BY LinkStep
  <1>2. task.pc = "link"
    BY DEF LinkBlock, At
  <1>3. PICK c \in Channels : c = task.h
    BY <1>2, ChannelRuns
  <1>4. CASE Visible' = Visible /\ Undo(c)
    BY <1>1, <1>3, <1>4, SameKeeps, UndoAborts
  <1>5. CASE /\ BlockDone(c, task.new) /\ task' = Idle
             /\ stream' = [stream EXCEPT ![c].held = Append(stream[c].held, task.new)]
    <2>1. Keeps /\ SavingOn(c)
      BY <1>2, <1>3, <1>5, BlockKeeps
    <2>2. stream \in [Channels -> Streams(saves)] /\ stream[c].creating
      BY <1>2, <1>3, Shapes DEF WhoOK
    <2>3. /\ stream'[c].held = Append(stream[c].held, task.new) /\ stream'[c].creating
          /\ stream'[c].name = stream[c].name /\ stream'[c].id = stream[c].id
          /\ \A d \in Channels \ {c} : stream'[d] = stream[d]
      BY <1>5, <2>2 DEF Streams
    <2>4. Len(stream'[c].held) = Len(stream[c].held) + 1
      <3>1. PICK q \in Seq(FileBlocks) : q = stream[c].held
        BY <2>2, HeldSeq
      <3>2. PICK b : b = task.new
        OBVIOUS
      <3>3. Len(Append(q, b)) = Len(q) + 1
        BY <3>1
      <3>. QED
        BY <2>3, <3>1, <3>2, <3>3
    <2>5. Alone(c)
      BY <1>3, <1>5, <2>3, OthersSave DEF Idle
    <2>6. SavingOn(c)'
      BY <2>3 DEF SavingOn
    <2>. QED
      BY <1>1, <2>1, <2>3, <2>4, <2>5, <2>6, Sends, AgreeFlushed DEF Keeps
  <1>. QED
    BY <1>1, <1>3, <1>4, <1>5 DEF LinkDone, Fails

LEMMA LastStore ==
    ASSUME Safe, D64Inv, Agree, LastBlock
    PROVE  Agree' /\ StoreStep
  <1>1. D64Inv' /\ Flushed /\ LastDone(task.h)
    BY LastStep
  <1>2. task.pc = "last"
    BY DEF LastBlock, At
  <1>3. PICK c \in Channels : c = task.h
    BY <1>2, ChannelRuns
  <1>4. CASE Visible' = Visible /\ Undo(c)
    BY <1>1, <1>3, <1>4, SameKeeps, UndoAborts
  <1>5. CASE BlockDone(c, End) /\ stream' = stream /\ task'.h = task.h
    <2>1. Keeps /\ SavingOn(c)
      BY <1>2, <1>3, <1>5, BlockKeeps
    <2>. QED
      BY <1>1, <1>3, <1>5, <2>1, SaveGoesOn
  <1>. QED
    BY <1>1, <1>3, <1>4, <1>5 DEF LastDone

LEMMA RollbackStore ==
    ASSUME Safe, D64Inv, Agree, Rollback
    PROVE  Agree' /\ StoreStep
  <1>1. D64Inv' /\ Flushed /\ (Gave(Head(task.todo)) \/ Fails)
    BY RollbackStep
  <1>2. task.pc = "rollback"
    BY DEF Rollback, At
  <1>3. PICK c \in Channels : c = task.h
    BY <1>2, ChannelRuns
  <1>4. Keeps
    BY <1>1, SameKeeps, FreedKeeps DEF Gave, Fails
  <1>5. /\ task'.h \in {c, Shell} /\ task'.pc \in {"idle", "rollback"}
        /\ ~stream[c].creating
        /\ stream' \in {stream, [stream EXCEPT ![c] = NoStream], [stream EXCEPT ![c].held = <<>>]}
    BY <1>2, <1>3, Shapes DEF Rollback, Idle, Tasks, WhoOK
  <1>6. ~stream'[c].creating /\ \A d \in Channels \ {c} : stream'[d] = stream[d]
    <2>1. stream \in [Channels -> Streams(saves)] /\ ~NoStream.creating
      BY Shapes DEF NoStream
    <2>2. CASE stream' = [stream EXCEPT ![c] = NoStream]
      BY <2>1, <2>2
    <2>3. CASE stream' = [stream EXCEPT ![c].held = <<>>]
      BY <1>5, <2>1, <2>3 DEF Streams
    <2>. QED
      BY <1>5, <2>2, <2>3
  <1>7. Alone(c)
    BY <1>3, <1>5, <1>6, OthersSave
  <1>8. ~SavingOn(c)'
    BY <1>5, <1>6 DEF SavingOn
  <1>. QED
    BY <1>1, <1>4, <1>7, <1>8, StopsOrStays, AgreeFlushed DEF Keeps

LEMMA FreeStore ==
    ASSUME Safe, D64Inv, Agree, FreeBlock
    PROVE  Agree' /\ StoreStep
  <1>1. D64Inv' /\ Flushed /\ (Gave(Head(task.todo)) \/ Fails)
    BY FreeStep
  <1>2. Keeps
    BY <1>1, SameKeeps, FreedKeeps DEF Gave, Fails
  <1>3. stream' = stream /\ task.pc = "free" /\ task'.pc \in {"free", "clear"}
    BY Shapes DEF FreeBlock, At, Tasks
  <1>. QED
    BY <1>1, <1>2, <1>3, NotSaving, KeepsFiles, AgreeFlushed DEF Keeps, StoreStep

LEMMA ReclaimStore ==
    ASSUME Safe, D64Inv, Agree, Reclaim
    PROVE  Agree' /\ StoreStep
  <1>1. D64Inv' /\ Flushed /\ ReclaimDone
    BY ReclaimStep
  <1>2. Keeps
    BY <1>1, SameKeeps, FreedKeeps DEF ReclaimDone, Took, Fails
  <1>3. stream' = stream /\ task.pc = "reclaim" /\ task'.pc \in {"reclaim", "restore", "idle"}
    BY <1>1 DEF Reclaim, At, ReclaimDone, Idle
  <1>. QED
    BY <1>1, <1>2, <1>3, NotSaving, KeepsFiles, AgreeFlushed DEF Keeps, StoreStep

\* An entry that becomes live adds a file, one that is marked deleted takes
\* its file away.
LEMMA FilesPlus ==
    ASSUME NEW img, NEW new, NEW s, NEW e, NEW but, NEW done, Sound(img, but, done),
           Entered(img, new, s, e), e.live, s \notin Live(img)
    PROVE  /\ FilesOf(new) = FilesOf(img) \cup
                 {[slot |-> s, name |-> e.name, data |-> ReadBack(new, s)]}
           /\ \A f \in FilesOf(img) : f.slot # s
  <1>1. /\ {f \in FilesOf(new) : f.slot # s} = {f \in FilesOf(img) : f.slot # s}
        /\ s \in Live(new)
    BY EnteredStore
  <1>2. \A f \in FilesOf(img) : f.slot # s
    BY DEF FilesOf
  <1>3. EntryAt(new, s) = e
    BY DEF Entered
  <1>4. PICK g : g = [slot |-> s, name |-> e.name, data |-> ReadBack(new, s)]
    OBVIOUS
  <1>5. g \in FilesOf(new) /\ \A f \in FilesOf(new) : f.slot = s => f = g
    BY <1>1, <1>3, <1>4 DEF FilesOf
  <1>6. g.slot = s
    BY <1>4
  <1>. QED
    BY <1>1, <1>2, <1>4, <1>5, <1>6

LEMMA FilesMinus ==
    ASSUME NEW img, NEW new, NEW s, NEW e, NEW but, NEW done, Sound(img, but, done),
           Entered(img, new, s, e), ~e.live, s \in Live(img)
    PROVE  \E f \in FilesOf(img) : FilesOf(new) = FilesOf(img) \ {f}
  <1>1. /\ {f \in FilesOf(new) : f.slot # s} = {f \in FilesOf(img) : f.slot # s}
        /\ s \notin Live(new)
    BY EnteredStore
  <1>2. \A f \in FilesOf(new) : f.slot # s
    BY <1>1 DEF FilesOf
  <1>3. PICK g : g = [slot |-> s, name |-> EntryAt(img, s).name, data |-> ReadBack(img, s)]
    OBVIOUS
  <1>4. g \in FilesOf(img) /\ \A f \in FilesOf(img) : f.slot = s => f = g
    BY <1>3 DEF FilesOf
  <1>5. g.slot = s
    BY <1>3
  <1>. QED
    BY <1>1, <1>2, <1>4, <1>5

\* The handler of a channel closes it.
LEMMA ChannelCloses ==
    ASSUME D64Inv, D64Inv', NEW c \in Channels, stream[c].open, task.h \in {c, Shell},
           stream' = [stream EXCEPT ![c] = NoStream], task' = Idle, buffered' = buffered
    PROVE  Agree' /\ Alone(c)
  <1>1. /\ stream \in [Channels -> Streams(saves)] /\ ~NoStream.open
        /\ task'.pc = "idle" /\ task'.h = Shell
    BY Shapes DEF NoStream, Idle
  <1>2. ~stream'[c].open /\ \A d \in Channels \ {c} : stream'[d] = stream[d]
    BY <1>1
  <1>3. c \in Handles /\ Busy(c) /\ ~Busy(c)' /\ \A g \in Handles : Busy(g)' => Busy(g)
    BY <1>1, <1>2, HandleAssumption DEF Busy, Handles
  <1>4. Agree'
    BY <1>3, ClosingFlushes, AgreeClosed
  <1>. QED
    BY <1>1, <1>2, <1>4, OthersSave

LEMMA EntryStore ==
    ASSUME Safe, D64Inv, Agree, WriteEntry
    PROVE  Agree' /\ StoreStep
  <1>1. D64Inv' /\ Flushed /\ EntryDone(task.h)
    BY EntryStep
  <1>2. task.pc \in {"entry", "newEntry"} /\ buffered' = buffered
    BY DEF WriteEntry, At
  <1>3. PICK c \in Channels : c = task.h
    BY <1>2, ChannelRuns
  <1>4. CASE Visible' = Visible /\ Undo(c)
    BY <1>1, <1>3, <1>4, SameKeeps, UndoAborts
  <1>5. CASE /\ \E s : EntersAt(s, EntryOf(stream[c]))
             /\ stream' = [stream EXCEPT ![c] = NoStream] /\ task' = Idle
    <2>1. PICK img, new : img = Visible /\ new = Visible'
      OBVIOUS
    <2>2. PICK q, e : q = stream[c].held /\ e = EntryOf(stream[c])
      OBVIOUS
    <2>3. e = [live |-> TRUE, name |-> stream[c].name, start |-> Head(q), blocks |-> Len(q)]
      BY <2>2 DEF EntryOf
    <2>4. PICK s : s \notin Live(img) /\ Entered(img, new, s, e)
      BY <1>5, <2>1, <2>2 DEF EntersAt
    <2>5. Good(img, stream, task, acked, saves) /\ Sound(img, But(task), acked)
      BY <2>1, Shapes
    <2>6. task.pc \in Finishing
      BY <1>2 DEF Finishing
    <2>7. e.live /\ Holds(new, s, stream[c].id)
      BY <1>3, <2>2, <2>3, <2>4, <2>5, <2>6, SavedFile
    <2>8. EntryAt(new, s) = e /\ e.blocks = Len(q) /\ e.name = stream[c].name
      BY <2>3, <2>4 DEF Entered
    <2>9. ReadBack(new, s) = Sent(stream[c].id, Len(q))
      BY <2>7, <2>8, HoldsReads
    <2>10. /\ FilesOf(new) = FilesOf(img) \cup
                 {[slot |-> s, name |-> e.name, data |-> ReadBack(new, s)]}
           /\ \A f \in FilesOf(img) : f.slot # s
      BY <2>4, <2>5, <2>7, FilesPlus
    <2>11. s \in Slots
      BY <2>4 DEF Entered, DirOK, Places, Slots
    <2>12. SavingOn(c) /\ stream[c].open
      BY <1>2, <1>3, Shapes DEF SavingOn, WhoOK
    <2>13. Agree' /\ Alone(c)
      BY <1>1, <1>2, <1>3, <1>5, <2>12, ChannelCloses
    <2>14. ~SavingOn(c)'
      <3>1. stream'[c] = NoStream /\ task'.pc = "idle" /\ ~NoStream.creating
        BY <1>5, Shapes DEF Idle, NoStream
      <3>. QED
        BY <3>1 DEF SavingOn
    <2>15. /\ StoreSaving' = [StoreSaving EXCEPT ![c] = Nobody]
           /\ StoreSaving[c] = Save(c) /\ Save(c) # Nobody
      BY <2>12, <2>13, <2>14, OneSave, SaveThere DEF Save
    <2>16. Save(c) = [name |-> e.name, data |-> ReadBack(new, s)]
      BY <2>2, <2>8, <2>9, <2>12 DEF Save
    <2>17. StoreSaving[c].name = e.name /\ StoreSaving[c].data = ReadBack(new, s)
      BY <2>15, <2>16
    <2>18. StoreFiles = FilesOf(img) /\ StoreFiles' = FilesOf(new)
      BY <2>1, FilesAre, FilesAreNext
    <2>19. Store!Unused(s)
      BY <2>10, <2>18 DEF Store!Unused
    <2>20. Store!Commit(c)
      BY <2>10, <2>11, <2>15, <2>17, <2>18, <2>19 DEF Store!Commit
    <2>. QED
      BY <2>13, <2>20 DEF StoreStep, Store!Next
  <1>. QED
    BY <1>1, <1>3, <1>4, <1>5 DEF EntryDone

LEMMA ClearStore ==
    ASSUME Safe, D64Inv, Agree, ClearEntry
    PROVE  Agree' /\ StoreStep
  <1>1. D64Inv' /\ Flushed /\ MarkDone(FALSE)
    BY ClearStep
  <1>2. stream' = stream /\ task.pc = "clear" /\ task'.pc \in {"idle", "begin"}
    BY DEF ClearEntry, At, Idle
  <1>3. Agree'
    BY <1>1, <1>2, AgreeFlushed DEF Safe
  <1>4. PICK img, new, s : img = Visible /\ new = Visible' /\ s = task.slot
    OBVIOUS
  <1>5. PICK e : Entered(img, new, s, e) /\ ~e.live
    BY <1>1, <1>4 DEF MarkDone
  <1>6. s \in Live(img) /\ Sound(img, But(task), acked)
    BY <1>2, <1>4, Shapes DEF StepOK
  <1>7. \E f \in FilesOf(img) : FilesOf(new) = FilesOf(img) \ {f}
    BY <1>5, <1>6, FilesMinus
  <1>8. StoreFiles = FilesOf(img) /\ StoreFiles' = FilesOf(new) /\ StoreSaving' = StoreSaving
    BY <1>2, <1>4, FilesAre, FilesAreNext, NotSaving
  <1>9. Store!Scratch
    BY <1>7, <1>8 DEF Store!Scratch
  <1>. QED
    BY <1>3, <1>9 DEF StoreStep, Store!Next

LEMMA RestoreStore ==
    ASSUME Safe, D64Inv, Agree, RestoreEntry
    PROVE  Agree' /\ StoreStep
  <1>1. D64Inv' /\ Flushed /\ (MarkDone(TRUE) \/ Fails)
    BY RestoreStep
  <1>2. stream' = stream /\ task.pc = "restore" /\ task' = Idle /\ buffered' = buffered
    BY DEF RestoreEntry, At
  <1>3. task.h = Shell /\ task'.pc = "idle"
    BY <1>2, Shapes DEF WhoOK, Idle
  <1>4. StoreSaving' = StoreSaving
    BY <1>2, <1>3, NotSaving
  <1>5. Agree'
    <2>1. /\ Shell \in Handles /\ Busy(Shell) /\ ~Busy(Shell)'
          /\ \A g \in Handles : Busy(g)' => Busy(g)
      BY <1>2, <1>3, HandleAssumption DEF Busy, Handles
    <2>. QED
      BY <1>1, <1>2, <2>1, ClosingFlushes, AgreeClosed
  <1>6. CASE Fails
    BY <1>4, <1>5, <1>6, SameKeeps, KeepsFiles DEF Fails, StoreStep
  <1>7. CASE MarkDone(TRUE)
    <2>1. PICK img, new, s : img = Visible /\ new = Visible' /\ s = task.slot
      OBVIOUS
    <2>2. PICK e : Entered(img, new, s, e) /\ e.live
      BY <1>7, <2>1 DEF MarkDone
    <2>3. s \notin Live(img) /\ Sound(img, But(task), acked)
      BY <1>2, <2>1, Shapes DEF StepOK
    <2>4. PICK f : f = [slot |-> s, name |-> e.name, data |-> ReadBack(new, s)]
      OBVIOUS
    <2>5. f.slot = s /\ FilesOf(new) = FilesOf(img) \cup {f} /\ \A g \in FilesOf(img) : g.slot # s
      BY <2>2, <2>3, <2>4, FilesPlus
    <2>6. StoreFiles = FilesOf(img) /\ StoreFiles' = FilesOf(new)
      BY <2>1, FilesAre, FilesAreNext
    <2>7. Store!Unused(f.slot) /\ f \in StoreFiles' \ StoreFiles
      BY <2>5, <2>6 DEF Store!Unused
    <2>8. Store!Unscratch
      BY <1>4, <2>5, <2>6, <2>7 DEF Store!Unscratch
    <2>. QED
      BY <1>5, <2>8 DEF StoreStep, Store!Next
  <1>. QED
    BY <1>1, <1>6, <1>7

-----------------------------------------------------------------------------
(* The handlers that start, and power cuts.                                *)

\* The channel opens: nothing is sent yet.
LEMMA OpensStore ==
    ASSUME D64Inv, Agree, Untouched, NEW c \in Channels, NEW n \in Names, task.pc = "idle",
           stream' = [stream EXCEPT ![c] = Opened(n)], task'.pc \in {"begin", "free"}, task'.h = c
    PROVE  Agree' /\ StoreStep
  <1>1. Agree' /\ Keeps
    BY AgreeUntouched DEF Keeps
  <1>2. /\ task.h = Shell /\ stream \in [Channels -> Streams(saves)] /\ ~Opened(n).creating
    BY Shapes DEF WhoOK, Opened, NoStream
  <1>3. ~stream'[c].creating /\ \A d \in Channels \ {c} : stream'[d] = stream[d]
    BY <1>2
  <1>4. Alone(c)
    BY <1>2, <1>3, OthersSave
  <1>5. ~SavingOn(c)'
    BY <1>3 DEF SavingOn
  <1>. QED
    BY <1>1, <1>4, <1>5, StopsOrStays

LEMMA OpenNewStore ==
    ASSUME Safe, D64Inv, Agree, NEW c \in Channels, NEW n \in Names, OpenNew(c, n)
    PROVE  Agree' /\ StoreStep
  <1>1. Untouched
    BY OpenNewStep
  <1>2. /\ task.pc = "idle" /\ stream' = [stream EXCEPT ![c] = Opened(n)]
        /\ task'.pc = "begin" /\ task'.h = c
    BY DEF OpenNew, MayUse, Idle
  <1>. QED
    BY <1>1, <1>2, OpensStore

LEMMA OpenReplaceStore ==
    ASSUME Safe, D64Inv, Agree, NEW c \in Channels, NEW n \in Names, OpenReplace(c, n)
    PROVE  Agree' /\ StoreStep
  <1>1. Untouched
    BY OpenReplaceStep
  <1>2. /\ task.pc = "idle" /\ stream' = [stream EXCEPT ![c] = Opened(n)]
        /\ task'.pc = "free" /\ task'.h = c
    BY DEF OpenReplace, MayUse, Idle
  <1>. QED
    BY <1>1, <1>2, OpensStore

LEMMA WriteFullStore ==
    ASSUME Safe, D64Inv, Agree, NEW c \in Channels, WriteFull(c)
    PROVE  Agree' /\ StoreStep
  <1>1. Untouched
    BY WriteFullStep
  <1>2. Agree' /\ Keeps
    BY <1>1, AgreeUntouched DEF Keeps
  <1>3. stream' = stream /\ task.pc = "idle" /\ task'.pc = "next"
    BY DEF WriteFull, Idle
  <1>. QED
    BY <1>2, <1>3, NotSaving, KeepsFiles DEF StoreStep

LEMMA CloseSavingStore ==
    ASSUME Safe, D64Inv, Agree, NEW c \in Channels, CloseSaving(c)
    PROVE  Agree' /\ StoreStep
  <1>1. Untouched
    BY CloseSavingStep
  <1>2. Agree' /\ Keeps
    BY <1>1, AgreeUntouched DEF Keeps
  <1>3. /\ stream' = [stream EXCEPT ![c].creating = FALSE] /\ task'.h = c /\ stream[c].creating
        /\ task.h = Shell
    BY Shapes DEF CloseSaving, Idle, WhoOK
  <1>4. /\ stream'[c].name = stream[c].name /\ stream'[c].id = stream[c].id
        /\ stream'[c].held = stream[c].held /\ \A d \in Channels \ {c} : stream'[d] = stream[d]
    BY <1>3, Shapes DEF Streams
  <1>5. Alone(c)
    BY <1>3, <1>4, OthersSave
  <1>6. SavingOn(c)
    BY <1>3 DEF SavingOn
  <1>7. SavingOn(c)' => Save(c)' = Save(c)
    BY <1>4, <1>6 DEF Save
  <1>. QED
    BY <1>2, <1>5, <1>7, StopsOrStays

LEMMA CloseFailedStore ==
    ASSUME Safe, D64Inv, Agree, NEW c \in Channels, CloseFailed(c)
    PROVE  Agree' /\ StoreStep
  <1>1. Flushed /\ Visible' = Visible
    BY CloseFailedStep
  <1>2. Agree' /\ Keeps
    BY <1>1, SameKeeps, AgreeFlushed DEF Keeps
  <1>3. /\ stream' = [stream EXCEPT ![c] = NoStream] /\ task' = task /\ task.h = Shell
        /\ task.pc = "idle"
    BY Shapes DEF CloseFailed, WhoOK
  <1>4. ~stream'[c].creating /\ \A d \in Channels \ {c} : stream'[d] = stream[d]
    BY <1>3, Shapes DEF NoStream
  <1>5. Alone(c)
    BY <1>3, <1>4, OthersSave
  <1>6. ~SavingOn(c)'
    BY <1>3, <1>4 DEF SavingOn
  <1>. QED
    BY <1>2, <1>5, <1>6, StopsOrStays

LEMMA ScratchStore ==
    ASSUME Safe, D64Inv, Agree, NEW n \in Names, Scratch(n) \/ Unscratch(n)
    PROVE  Agree' /\ StoreStep
  <1>1. Untouched
    BY ScratchStep, UnscratchStep
  <1>2. Agree' /\ Keeps
    BY <1>1, AgreeUntouched DEF Keeps
  <1>3. stream' = stream /\ task.pc = "idle" /\ task'.pc \in {"free", "reclaim"}
    BY DEF Scratch, Unscratch, MayUse, Idle
  <1>. QED
    BY <1>2, <1>3, NotSaving, KeepsFiles DEF StoreStep

\* What power takes.
LEMMA CutImage ==
    ASSUME Safe, D64Inv, Agree, PowerCut
    PROVE  SameStore(image, Visible) /\ Sound(image, NoSlot, acked)
  <1>1. /\ task.pc \in CutPoints
        /\ \A h \in Handles : \A i \in DOMAIN pend[h] : pend[h][i].at \in CutPoints
    BY DEF PowerCut
  <1>2. CASE \A h \in Handles : pend[h] = <<>>
    <2>1. Now = image
      BY <1>2 DEF Now, Holding
    <2>2. task.pc \notin {"free", "clear", "newEntry"}
      BY <1>1 DEF Safe
    <2>3. Visible = image /\ But(task) = NoSlot
      BY <2>1, <2>2, VisibleIsNow DEF But
    <2>. QED
      BY <2>3, StoreItself, Shapes
  <1>3. ASSUME NEW h \in Handles, pend[h] # <<>>
        PROVE  SameStore(image, Visible) /\ Sound(image, NoSlot, acked)
    <2>1. PICK w \in Writes : pend[h] = <<w>>
      BY <1>3 DEF D64Inv, PendOK
    <2>2. pend[h][1].at \in CutPoints
      BY <1>1, <2>1
    <2>. QED
      BY <1>3, <2>2 DEF Agree, D64Inv, PendOK
  <1>. QED
    BY <1>2, <1>3

LEMMA PowerCutStore ==
    ASSUME Safe, D64Inv, Agree, PowerCut
    PROVE  Agree' /\ StoreStep
  <1>1. Visible' = image /\ Agree'
    BY PowerCutStep, AgreeClosed
  <1>2. PICK img, cut : img = Visible /\ cut = image
    OBVIOUS
  <1>3. FilesOf(img) = FilesOf(cut)
    BY <1>2, CutImage, SameFiles
  <1>4. StoreFiles' = StoreFiles
    BY <1>1, <1>2, <1>3, FilesAre, FilesAreNext
  <1>5. stream' = [c \in Channels |-> NoStream] /\ task'.pc = "idle" /\ ~NoStream.creating
    BY DEF PowerCut, Idle, NoStream
  <1>6. \A c \in Channels : Save(c)' = Nobody
    BY <1>5 DEF SavingOn, Save
  <1>7. StoreSaving' = [c \in Channels |-> Nobody]
    BY <1>6, SavingAreNext
  <1>8. Store!PowerCut
    BY <1>4, <1>7 DEF Store!PowerCut
  <1>. QED
    BY <1>1, <1>8 DEF StoreStep, Store!Next

-----------------------------------------------------------------------------
(* The refinement.                                                         *)

LEMMA InitStore == Init => Agree /\ Store!Init
  <1>. SUFFICES ASSUME Init PROVE Agree /\ Store!Init
    OBVIOUS
  <1>1. /\ pend = [h \in Handles |-> <<>>] /\ stream = [c \in Channels |-> NoStream]
        /\ task = Idle
    BY DEF Init
  <1>2. Agree
    BY <1>1 DEF Agree
  <1>3. task.pc = "idle" /\ ~NoStream.creating
    BY <1>1 DEF Idle, NoStream
  <1>4. Visible = image
    BY <1>1, <1>3 DEF Visible
  <1>5. \A c \in Channels : Save(c) = Nobody
    BY <1>1, <1>3 DEF SavingOn, Save
  <1>6. StoreSaving = [c \in Channels |-> Nobody]
    BY <1>5, SavingAre
  <1>7. Live(image) = {}
    BY FormatSound
  <1>8. StoreFiles = {}
    BY <1>4, <1>7, FilesAre DEF FilesOf
  <1>. QED
    BY <1>2, <1>6, <1>8 DEF Store!Init

LEMMA NextStoreStep ==
    ASSUME Safe, D64Inv, Agree, [Next]_vars
    PROVE  Agree' /\ StoreStep
  <1>1. CASE UNCHANGED vars
    <2>1. /\ image' = image /\ pend' = pend /\ stream' = stream /\ task' = task
      BY <1>1 DEF vars
    <2>2. Visible' = Visible
      BY <2>1 DEF Visible, Seen
    <2>3. Agree' /\ Keeps
      BY <2>1, <2>2, AgreeUntouched DEF Untouched, Keeps
    <2>4. \A c \in Channels : Save(c)' = Save(c)
      BY <2>1 DEF Save, SavingOn
    <2>. QED
      BY <2>3, <2>4, KeepsFiles, SavingAre, SavingAreNext DEF StoreStep
  <1>2. CASE \E c \in Channels, n \in Names : OpenNew(c, n) \/ OpenReplace(c, n)
    BY <1>2, OpenNewStore, OpenReplaceStore
  <1>3. CASE \E c \in Channels : WriteFull(c) \/ CloseSaving(c) \/ CloseFailed(c)
    BY <1>3, WriteFullStore, CloseSavingStore, CloseFailedStore
  <1>4. CASE \E n \in Names : Scratch(n) \/ Unscratch(n)
    BY <1>4, ScratchStore
  <1>5. CASE Step
    BY <1>5, BeginStore, NextStore, LinkStore, LastStore, SlotStore, ExtendStore, LinkDirStore,
       UndoDirStore, EntryStore, RollbackStore, FreeStore, ClearStore, ReclaimStore, RestoreStore
       DEF Step
  <1>6. CASE PowerCut
    BY <1>6, PowerCutStore
  <1>. QED
    BY <1>1, <1>2, <1>3, <1>4, <1>5, <1>6 DEF Next

\* The image implements the store of whole files: every write of a handler,
\* every failure and every power cut within Safe is a step of the store or
\* changes nothing there.
THEOREM ImageIsStore ==
    ASSUME Safe
    PROVE  Spec => ImplementsFileStore
  <1>1. Init => D64Inv /\ Agree /\ Store!Init
    BY InitInv, InitStore
  <1>2. D64Inv /\ Agree /\ [Next]_vars => D64Inv' /\ Agree' /\ StoreStep
    BY NextInv, NextStoreStep
  <1>3. D64Inv /\ Agree /\ [Next]_vars => [Store!Next]_<<StoreFiles, StoreSaving>>
    BY <1>2 DEF StoreStep
  <1>. QED
    BY <1>1, <1>2, <1>3, PTL DEF Spec, ImplementsFileStore, Store!Spec

-----------------------------------------------------------------------------
(* Allocated blocks and their owners.                                      *)

\* What the proof that no block is orphaned assumes of the failing writes
\* besides Safe: the writes that give a block back or claim one for a file
\* that is recovered do not fail, nor does the write of a full block, whose
\* successor is claimed and not yet part of the save.
NoLeak == FaultPoints \cap {"free", "link", "rollback", "undoDir", "reclaim", "restore"} = {}

\* The blocks the running handler has claimed and not yet handed over.
Works(img, tsk) ==
    IF tsk.pc \in {"link", "dirLink", "undoDir", "newEntry"} THEN {tsk.new}
    ELSE IF tsk.pc \in {"reclaim", "restore"} THEN Blocks(img, tsk.slot) ELSE {}

\* Block b is free or belongs to something; gone are the blocks of the saves
\* that power cuts interrupted.
Accounted(img, strm, tsk, gone, b) ==
    \/ b \in img.free \/ b = System \/ b \in Dir(img) \/ b \in gone \/ b \in Works(img, tsk)
    \/ \E s \in Live(img) : b \in Blocks(img, s)
    \/ \E c \in Channels : b \in Held(strm, c)
Owned(img, strm, tsk, gone) == \A b \in Block : Accounted(img, strm, tsk, gone, b)

\* A scratch and a rollback have given back what is no longer on their list.
FreeingOK(img, strm, tsk) ==
    /\ tsk.pc = "free" => Blocks(img, tsk.slot) \subseteq img.free \cup Range(tsk.todo)
    /\ tsk.pc = "clear" => Blocks(img, tsk.slot) \subseteq img.free
    /\ tsk.pc = "rollback" => Held(strm, tsk.h) \subseteq img.free \cup Range(tsk.todo)

\* A stream that carries an error holds no save, and a save begins without one.
ErrorOK(strm, tsk) ==
    /\ \A c \in Channels : strm[c].error => ~strm[c].creating
    /\ tsk.pc = "begin" \/ (tsk.pc \in {"free", "clear"} /\ tsk.then # "return") =>
          ~strm[tsk.h].error

\* A recovery claims blocks; links and contents are the same in the image file.
Marked == task.pc \in {"reclaim", "restore"} =>
    image.next = Visible.next /\ image.data = Visible.data

Clean == /\ Owned(Visible, stream, task, lost) /\ FreeingOK(Visible, stream, task)
         /\ ErrorOK(stream, task) /\ Marked

LEMMA OwnersStay ==
    ASSUME NEW img, NEW new, NEW strm, NEW strm2, NEW tsk, NEW tsk2, NEW gone,
           Owned(img, strm, tsk, gone), Dir(img) \subseteq Dir(new),
           \A s \in Live(img) : \A b \in Blocks(img, s) : Accounted(new, strm2, tsk2, gone, b),
           \A c \in Channels : \A b \in Held(strm, c) : Accounted(new, strm2, tsk2, gone, b),
           \A b \in Works(img, tsk) : Accounted(new, strm2, tsk2, gone, b),
           \A b \in img.free : Accounted(new, strm2, tsk2, gone, b)
    PROVE  Owned(new, strm2, tsk2, gone)
  <1>. SUFFICES ASSUME NEW b \in Block PROVE Accounted(new, strm2, tsk2, gone, b)
    BY DEF Owned
  <1>1. Accounted(img, strm, tsk, gone, b)
    BY DEF Owned
  <1>2. CASE b = System \/ b \in Dir(img) \/ b \in gone
    BY <1>2 DEF Accounted
  <1>3. CASE b \in img.free \/ b \in Works(img, tsk)
    BY <1>3
  <1>4. CASE \E s \in Live(img) : b \in Blocks(img, s)
    BY <1>4
  <1>5. CASE \E c \in Channels : b \in Held(strm, c)
    BY <1>5
  <1>. QED
    BY <1>1, <1>2, <1>3, <1>4, <1>5 DEF Accounted

\* The files stay; a block a save gives up is free.
LEMMA OwnersSame ==
    ASSUME NEW img, NEW new, NEW strm, NEW strm2, NEW tsk, NEW tsk2, NEW gone,
           Owned(img, strm, tsk, gone), SameStore(img, new),
           \A c \in Channels : Held(strm, c) \subseteq Held(strm2, c) \cup new.free,
           \A b \in Works(img, tsk) : Accounted(new, strm2, tsk2, gone, b),
           \A b \in img.free : Accounted(new, strm2, tsk2, gone, b)
    PROVE  Owned(new, strm2, tsk2, gone)
  <1>1. Dir(img) \subseteq Dir(new)
    BY DEF SameStore
  <1>2. \A s \in Live(img) : \A b \in Blocks(img, s) : Accounted(new, strm2, tsk2, gone, b)
    BY DEF SameStore, Accounted
  <1>3. \A c \in Channels : \A b \in Held(strm, c) : Accounted(new, strm2, tsk2, gone, b)
    BY DEF Accounted
  <1>. QED
    BY <1>1, <1>2, <1>3, OwnersStay

\* The same, of a step.
LEMMA OwnersKept ==
    ASSUME Clean, Keeps, lost' = lost,
           \A c \in Channels : Held(stream, c) \subseteq Held(stream', c) \cup Visible'.free,
           Works(Visible, task) \subseteq Visible'.free \cup Works(Visible', task')
                                            \cup UNION {Held(stream', c) : c \in Channels},
           Visible.free \subseteq Visible'.free \cup Works(Visible', task')
                                            \cup UNION {Held(stream', c) : c \in Channels}
    PROVE  Owned(Visible', stream', task', lost')
  <1>1. PICK img, new, strm, strm2, tsk, tsk2, gone :
           /\ img = Visible /\ new = Visible' /\ strm = stream /\ strm2 = stream'
           /\ tsk = task /\ tsk2 = task' /\ gone = lost
    OBVIOUS
  <1>2. Owned(img, strm, tsk, gone) /\ SameStore(img, new)
    BY <1>1 DEF Clean, Keeps
  <1>3. \A b : b \in new.free \cup Works(new, tsk2) \cup UNION {Held(strm2, c) : c \in Channels}
               => Accounted(new, strm2, tsk2, gone, b)
    BY DEF Accounted
  <1>4. \A b \in Works(img, tsk) : Accounted(new, strm2, tsk2, gone, b)
    BY <1>1, <1>3
  <1>5. \A b \in img.free : Accounted(new, strm2, tsk2, gone, b)
    BY <1>1, <1>3
  <1>6. \A c \in Channels : Held(strm, c) \subseteq Held(strm2, c) \cup new.free
    BY <1>1
  <1>7. Owned(new, strm2, tsk2, gone)
    BY <1>2, <1>4, <1>5, <1>6, OwnersSame
  <1>. QED
    BY <1>1, <1>7

\* The rest of Clean after a step that starts nothing.
LEMMA CleanRest ==
    ASSUME task'.pc \notin {"begin", "free", "clear", "rollback", "reclaim", "restore"},
           \A c \in Channels : stream'[c].error => ~stream'[c].creating
    PROVE  FreeingOK(Visible', stream', task') /\ ErrorOK(stream', task') /\ Marked'
  BY DEF FreeingOK, ErrorOK, Marked

LEMMA UndoClean ==
    ASSUME D64Inv, Clean, NEW c \in Channels, c = task.h, Undo(c), Keeps, lost' = lost,
           Visible.free \subseteq Visible'.free, Works(Visible, task) \subseteq Visible'.free
    PROVE  Clean'
  <1>1. /\ task'.pc = "rollback" /\ task'.h = c
        /\ task'.todo = stream[c].held /\ stream'[c].held = stream[c].held
        /\ stream'[c].error /\ ~stream'[c].creating
        /\ \A d \in Channels \ {c} : stream'[d] = stream[d]
    BY UndoStops
  <1>2. \A d \in Channels : Held(stream', d) = Held(stream, d)
    BY <1>1 DEF Held
  <1>3. Owned(Visible', stream', task', lost')
    BY <1>2, OwnersKept
  <1>4. FreeingOK(Visible', stream', task')
    BY <1>1 DEF FreeingOK, Held
  <1>5. ErrorOK(stream', task')
    BY <1>1 DEF Clean, ErrorOK
  <1>6. Marked'
    BY <1>1 DEF Marked
  <1>. QED
    BY <1>3, <1>4, <1>5, <1>6 DEF Clean

-----------------------------------------------------------------------------
(* The steps of the handlers and the owners of blocks.                     *)

LEMMA RangeAppend ==
    ASSUME NEW S, NEW q \in Seq(S), NEW b \in S
    PROVE  Range(q) \cup {b} \subseteq Range(Append(q, b))
  <1>0. Append(q, b) \in Seq(S)
    OBVIOUS
  <1>1. PICK r \in Seq(S) : r = Append(q, b)
    BY <1>0
  <1>2. /\ DOMAIN q = 1..Len(q) /\ DOMAIN r = 1..Len(r) /\ Len(q) \in Nat /\ Len(r) = Len(q) + 1
        /\ (\A i \in 1..Len(q) : r[i] = q[i]) /\ r[Len(q) + 1] = b
    BY <1>1
  <1>3. Range(q) \subseteq Range(r)
    <2>1. \A i \in 1..Len(q) : i \in 1..Len(r)
      BY <1>2
    <2>. QED
      BY <1>2, <2>1 DEF Range
  <1>4. b \in Range(r)
    <2>1. Len(q) + 1 \in 1..Len(r)
      BY <1>2
    <2>. QED
      BY <1>2, <2>1 DEF Range
  <1>. QED
    BY <1>1, <1>3, <1>4

\* A channel between saves holds no block.
LEMMA HoldsNothing ==
    ASSUME D64Inv, NEW c \in Channels, ~stream[c].creating,
           task.h # c \/ task.pc \in {"idle", "free", "clear", "begin", "next", "link"}
    PROVE  Held(stream, c) = {}
  <1>1. StreamOK(stream[c], Finalizing(task, c) \/ RollingBack(task, c), saves)
    BY Shapes DEF StreamsOK
  <1>2. ~Finalizing(task, c) /\ ~RollingBack(task, c)
    BY DEF Finalizing, RollingBack, Finishing
  <1>3. stream[c].held = <<>>
    BY <1>1, <1>2 DEF StreamOK
  <1>. QED
    BY <1>3 DEF Held, Range

LEMMA TookFree ==
    ASSUME D64Inv, NEW b, Took(b)
    PROVE  Keeps /\ Visible.free \subseteq Visible'.free \cup {b}
  BY FreedKeeps DEF Took

LEMMA GaveFree ==
    ASSUME D64Inv, NEW b, Gave(b)
    PROVE  Keeps /\ Visible.free \subseteq Visible'.free /\ b \in Visible'.free
  BY FreedKeeps DEF Gave

LEMMA BeginClean ==
    ASSUME Safe, NoLeak, D64Inv, Clean, Begin
    PROVE  Clean'
  <1>1. D64Inv' /\ Flushed /\ BeginDone(task.h)
    BY BeginStep
  <1>2. task.pc = "begin" /\ task' = Idle /\ lost' = lost
    BY DEF Begin, At
  <1>3. PICK c \in Channels : c = task.h
    BY <1>2, ChannelRuns
  <1>4. /\ task'.pc = "idle" /\ stream \in [Channels -> Streams(saves)] /\ ~stream[c].creating
    BY <1>2, <1>3, Shapes DEF Idle, WhoOK
  <1>5. Held(stream, c) = {} /\ Works(Visible, task) = {} /\ Works(Visible', task') = {}
    BY <1>2, <1>3, <1>4, HoldsNothing DEF Works
  <1>6. /\ \A d \in Channels : stream[d].error => ~stream[d].creating
        /\ ~stream[c].error
    BY <1>2, <1>3 DEF Clean, ErrorOK
  <1>7. CASE \E b \in FileBlocks :
                Took(b) /\ stream' = [stream EXCEPT ![c].creating = TRUE, ![c].held = <<b>>]
    <2>1. PICK b \in FileBlocks :
             Took(b) /\ stream' = [stream EXCEPT ![c].creating = TRUE, ![c].held = <<b>>]
      BY <1>7
    <2>2. /\ stream'[c].held = <<b>> /\ stream'[c].error = stream[c].error
          /\ \A d \in Channels \ {c} : stream'[d] = stream[d]
      BY <1>4, <2>1 DEF Streams
    <2>3. b \in Held(stream', c) /\ \A d \in Channels : Held(stream, d) \subseteq Held(stream', d)
      <3>1. PICK q : q = <<b>> /\ q = stream'[c].held
        BY <2>2
      <3>2. b \in Range(q)
        BY <3>1 DEF Range
      <3>. QED
        BY <1>5, <2>2, <3>1, <3>2 DEF Held
    <2>4. Keeps /\ Visible.free \subseteq Visible'.free \cup UNION {Held(stream', d) : d \in Channels}
      BY <2>1, <2>3, TookFree
    <2>5. Owned(Visible', stream', task', lost')
      BY <1>2, <1>5, <2>3, <2>4, OwnersKept
    <2>6. \A d \in Channels : stream'[d].error => ~stream'[d].creating
      BY <1>6, <2>2
    <2>. QED
      BY <1>4, <2>5, <2>6, CleanRest DEF Clean
  <1>8. CASE Visible' = Visible /\ stream' = [stream EXCEPT ![c].error = TRUE]
    <2>1. /\ stream'[c].held = stream[c].held /\ stream'[c].creating = stream[c].creating
          /\ \A d \in Channels \ {c} : stream'[d] = stream[d]
      BY <1>4, <1>8 DEF Streams
    <2>2. \A d \in Channels : Held(stream, d) = Held(stream', d)
      BY <2>1 DEF Held
    <2>3. Owned(Visible', stream', task', lost')
      BY <1>2, <1>5, <1>8, <2>2, SameKeeps, OwnersKept
    <2>4. \A d \in Channels : stream'[d].error => ~stream'[d].creating
      BY <1>4, <1>6, <2>1
    <2>. QED
      BY <1>4, <2>3, <2>4, CleanRest DEF Clean
  <1>. QED
    BY <1>1, <1>3, <1>7, <1>8 DEF BeginDone

\* A handler that goes on with the save and claims at most one block.
LEMMA GoesOnClean ==
    ASSUME D64Inv, Clean, Keeps, stream' = stream, lost' = lost,
           task'.pc \notin {"begin", "free", "clear", "rollback", "reclaim", "restore"},
           Works(Visible, task) \subseteq Visible'.free \cup Works(Visible', task'),
           Visible.free \subseteq Visible'.free \cup Works(Visible', task')
    PROVE  Clean'
  <1>1. Owned(Visible', stream', task', lost')
    BY OwnersKept
  <1>2. \A d \in Channels : stream'[d].error => ~stream'[d].creating
    BY DEF Clean, ErrorOK
  <1>. QED
    BY <1>1, <1>2, CleanRest DEF Clean

LEMMA NextClean ==
    ASSUME Safe, NoLeak, D64Inv, Clean, NextBlock
    PROVE  Clean'
  <1>1. D64Inv' /\ Flushed /\ NextDone(task.h)
    BY NextStep
  <1>2. task.pc = "next" /\ lost' = lost
    BY DEF NextBlock, At
  <1>3. PICK c \in Channels : c = task.h
    BY <1>2, ChannelRuns
  <1>4. Works(Visible, task) = {}
    BY <1>2 DEF Works
  <1>5. CASE Visible' = Visible /\ Undo(c)
    BY <1>2, <1>3, <1>4, <1>5, SameKeeps, UndoClean
  <1>6. CASE stream' = stream /\ \E b \in FileBlocks :
                Took(b) /\ task' = [task EXCEPT !.pc = "link", !.new = b]
    <2>1. PICK b \in FileBlocks : Took(b) /\ task' = [task EXCEPT !.pc = "link", !.new = b]
      BY <1>6
    <2>2. task'.pc = "link" /\ task'.new = b
      BY <2>1, Shapes DEF Tasks
    <2>3. Works(Visible', task') = {b}
      BY <2>2 DEF Works
    <2>. QED
      BY <1>2, <1>4, <1>6, <2>1, <2>2, <2>3, TookFree, GoesOnClean
  <1>. QED
    BY <1>1, <1>3, <1>5, <1>6 DEF NextDone

LEMMA ExtendClean ==
    ASSUME Safe, NoLeak, D64Inv, Clean, ExtendDirectory
    PROVE  Clean'
  <1>1. D64Inv' /\ Flushed /\ ExtendDone(task.h)
    BY ExtendStep
  <1>2. task.pc = "extend" /\ lost' = lost
    BY DEF ExtendDirectory, At
  <1>3. PICK c \in Channels : c = task.h
    BY <1>2, ChannelRuns
  <1>4. Works(Visible, task) = {}
    BY <1>2 DEF Works
  <1>5. CASE Visible' = Visible /\ Undo(c)
    BY <1>2, <1>3, <1>4, <1>5, SameKeeps, UndoClean
  <1>6. CASE stream' = stream /\ \E b \in DirBlocks :
                Took(b) /\ task' = [task EXCEPT !.pc = "dirLink", !.new = b]
    <2>1. PICK b \in DirBlocks : Took(b) /\ task' = [task EXCEPT !.pc = "dirLink", !.new = b]
      BY <1>6
    <2>2. task'.pc = "dirLink" /\ task'.new = b
      BY <2>1, Shapes DEF Tasks
    <2>3. Works(Visible', task') = {b}
      BY <2>2 DEF Works
    <2>. QED
      BY <1>2, <1>4, <1>6, <2>1, <2>2, <2>3, TookFree, GoesOnClean
  <1>. QED
    BY <1>1, <1>3, <1>5, <1>6 DEF ExtendDone

LEMMA SlotClean ==
    ASSUME Safe, NoLeak, D64Inv, Clean, FindSlot
    PROVE  Clean'
  <1>1. D64Inv' /\ Flushed /\ SlotDone(task.h)
    BY SlotStep
  <1>2. task.pc = "slot" /\ lost' = lost
    BY DEF FindSlot, At
  <1>3. PICK c \in Channels : c = task.h
    BY <1>2, ChannelRuns
  <1>4. Works(Visible, task) = {} /\ Visible' = Visible /\ Keeps
    BY <1>1, <1>2, SameKeeps DEF Works, SlotDone
  <1>5. CASE Undo(c)
    BY <1>2, <1>3, <1>4, <1>5, UndoClean
  <1>6. CASE stream' = stream /\ task'.pc \in {"extend", "entry"}
    BY <1>2, <1>4, <1>6, GoesOnClean
  <1>. QED
    BY <1>1, <1>3, <1>5, <1>6 DEF SlotDone

LEMMA LinkClean ==
    ASSUME Safe, NoLeak, D64Inv, Clean, LinkBlock
    PROVE  Clean'
  <1>1. D64Inv' /\ Flushed /\ LinkDone(task.h)
    BY LinkStep
  <1>2. task.pc = "link" /\ lost' = lost
    BY DEF LinkBlock, At
  <1>3. PICK c \in Channels : c = task.h
    BY <1>2, ChannelRuns
  <1>4. /\ BlockDone(c, task.new) /\ task' = Idle
        /\ stream' = [stream EXCEPT ![c].held = Append(stream[c].held, task.new)]
    BY <1>1, <1>2, <1>3 DEF LinkDone, Fails, NoLeak
  <1>5. Keeps /\ Visible'.free = Visible.free
    BY <1>2, <1>3, <1>4, BlockKeeps DEF BlockDone, Written
  <1>6. stream \in [Channels -> Streams(saves)] /\ task'.pc = "idle"
    BY <1>4, Shapes DEF Idle
  <1>7. /\ stream'[c].held = Append(stream[c].held, task.new)
        /\ stream'[c].creating = stream[c].creating /\ stream'[c].error = stream[c].error
        /\ \A d \in Channels \ {c} : stream'[d] = stream[d]
    BY <1>4, <1>6 DEF Streams
  <1>8. Held(stream, c) \cup {task.new} \subseteq Held(stream', c)
    <2>1. PICK q \in Seq(FileBlocks) : q = stream[c].held
      BY <1>6, HeldSeq
    <2>2. PICK b \in FileBlocks : b = task.new
      BY <1>2, Shapes DEF StepOK
    <2>3. Range(q) \cup {b} \subseteq Range(Append(q, b))
      BY RangeAppend
    <2>. QED
      BY <1>7, <2>1, <2>2, <2>3 DEF Held
  <1>9. \A d \in Channels : Held(stream, d) \subseteq Held(stream', d)
    BY <1>7, <1>8 DEF Held
  <1>10. Works(Visible, task) = {task.new}
    BY <1>2 DEF Works
  <1>11. Owned(Visible', stream', task', lost')
    BY <1>2, <1>5, <1>8, <1>9, <1>10, OwnersKept
  <1>12. \A d \in Channels : stream'[d].error => ~stream'[d].creating
    BY <1>7 DEF Clean, ErrorOK
  <1>. QED
    BY <1>6, <1>11, <1>12, CleanRest DEF Clean

LEMMA LastClean ==
    ASSUME Safe, NoLeak, D64Inv, Clean, LastBlock
    PROVE  Clean'
  <1>1. D64Inv' /\ Flushed /\ LastDone(task.h)
    BY LastStep
  <1>2. task.pc = "last" /\ lost' = lost
    BY DEF LastBlock, At
  <1>3. PICK c \in Channels : c = task.h
    BY <1>2, ChannelRuns
  <1>4. Works(Visible, task) = {}
    BY <1>2 DEF Works
  <1>5. CASE Visible' = Visible /\ Undo(c)
    BY <1>2, <1>3, <1>4, <1>5, SameKeeps, UndoClean
  <1>6. CASE BlockDone(c, End) /\ stream' = stream /\ task'.pc = "slot"
    <2>1. Keeps /\ Visible'.free = Visible.free
      BY <1>2, <1>3, <1>6, BlockKeeps DEF BlockDone, Written
    <2>. QED
      BY <1>2, <1>4, <1>6, <2>1, GoesOnClean
  <1>. QED
    BY <1>1, <1>3, <1>5, <1>6 DEF LastDone

LEMMA LinkDirClean ==
    ASSUME Safe, NoLeak, D64Inv, Clean, LinkDirectory
    PROVE  Clean'
  <1>1. D64Inv' /\ Flushed /\ LinkDirDone
    BY LinkDirStep
  <1>2. task.pc = "dirLink" /\ lost' = lost
    BY DEF LinkDirectory, At
  <1>3. Works(Visible, task) = {task.new} /\ Works(Visible', task') = {task.new} /\ Keeps
    BY <1>1, <1>2, SameKeeps DEF Works, LinkDirDone
  <1>. QED
    BY <1>1, <1>2, <1>3, GoesOnClean DEF LinkDirDone

LEMMA UndoDirClean ==
    ASSUME Safe, NoLeak, D64Inv, Clean, UndoDirectory
    PROVE  Clean'
  <1>1. D64Inv' /\ Flushed /\ Undo(task.h) /\ (Gave(task.new) \/ Fails)
    BY UndoDirStep
  <1>2. task.pc = "undoDir" /\ lost' = lost
    BY DEF UndoDirectory, At
  <1>3. PICK c \in Channels : c = task.h
    BY <1>2, ChannelRuns
  <1>4. Gave(task.new)
    BY <1>1, <1>2 DEF Fails, NoLeak
  <1>5. Works(Visible, task) = {task.new}
    BY <1>2 DEF Works
  <1>. QED
    BY <1>1, <1>2, <1>3, <1>4, <1>5, GaveFree, UndoClean

\* The list of a rollback or of a scratch, without its head.
LEMMA Shorter ==
    ASSUME NEW q \in Seq(Block), q # <<>>, NEW S, NEW free, S \subseteq free \cup Range(q)
    PROVE  /\ Len(q) = 1 => S \subseteq free \cup {Head(q)}
           /\ S \subseteq free \cup {Head(q)} \cup Range(Tail(q))
  <1>1. Range(q) \subseteq Range(Tail(q)) \cup {Head(q)} /\ (Len(q) = 1 <=> Tail(q) = <<>>)
    BY TailFacts
  <1>2. Range(<<>>) = {}
    BY DEF Range
  <1>. QED
    BY <1>1, <1>2

LEMMA RollbackClean ==
    ASSUME Safe, NoLeak, D64Inv, Clean, Rollback
    PROVE  Clean'
  <1>1. D64Inv' /\ Flushed /\ (Gave(Head(task.todo)) \/ Fails)
    BY RollbackStep
  <1>2. task.pc = "rollback" /\ lost' = lost
    BY DEF Rollback, At
  <1>3. PICK c \in Channels : c = task.h
    BY <1>2, ChannelRuns
  <1>4. PICK q, b : q = task.todo /\ b = Head(q)
    OBVIOUS
  <1>5. Gave(b)
    BY <1>1, <1>2, <1>4 DEF Fails, NoLeak
  <1>6. /\ Keeps /\ Visible.free \subseteq Visible'.free /\ b \in Visible'.free
        /\ Visible'.free = Visible.free \cup {b}
    BY <1>5, GaveFree DEF Gave
  <1>7. /\ q \in Seq(Block) /\ q # <<>> /\ stream \in [Channels -> Streams(saves)]
        /\ ~stream[c].creating /\ task \in Tasks
    BY <1>2, <1>3, <1>4, Shapes DEF Tasks, StepOK, WhoOK
  <1>8. Held(stream, c) \subseteq Visible.free \cup Range(q)
    BY <1>2, <1>3, <1>4 DEF Clean, FreeingOK
  <1>9. /\ Len(q) = 1 => Held(stream, c) \subseteq Visible'.free
        /\ Held(stream, c) \subseteq Visible'.free \cup Range(Tail(q))
    BY <1>4, <1>6, <1>7, <1>8, Shorter
  <1>10. Works(Visible, task) = {}
    BY <1>2 DEF Works
  <1>11. \A d \in Channels : stream[d].error => ~stream[d].creating
    BY DEF Clean, ErrorOK
  <1>12. CASE Len(q) = 1
    <2>1. /\ task' = Idle
          /\ stream' \in {[stream EXCEPT ![c] = NoStream], [stream EXCEPT ![c].held = <<>>]}
      BY <1>3, <1>4, <1>12 DEF Rollback
    <2>2. task'.pc = "idle" /\ ~NoStream.creating
      BY <2>1 DEF Idle, NoStream
    <2>3. ~stream'[c].creating /\ \A d \in Channels \ {c} : stream'[d] = stream[d]
      <3>1. CASE stream' = [stream EXCEPT ![c] = NoStream]
        BY <1>7, <2>2, <3>1
      <3>2. CASE stream' = [stream EXCEPT ![c].held = <<>>]
        BY <1>7, <3>2 DEF Streams
      <3>. QED
        BY <2>1, <3>1, <3>2
    <2>4. \A d \in Channels : Held(stream, d) \subseteq Held(stream', d) \cup Visible'.free
      BY <1>9, <1>12, <2>3 DEF Held
    <2>5. Owned(Visible', stream', task', lost')
      BY <1>2, <1>6, <1>10, <2>4, OwnersKept
    <2>6. \A d \in Channels : stream'[d].error => ~stream'[d].creating
      BY <1>11, <2>3
    <2>. QED
      BY <2>2, <2>5, <2>6, CleanRest DEF Clean
  <1>13. CASE Len(q) # 1
    <2>1. task' = [task EXCEPT !.todo = Tail(q)] /\ stream' = stream
      BY <1>3, <1>4, <1>13 DEF Rollback
    <2>2. task'.pc = "rollback" /\ task'.h = c /\ task'.todo = Tail(q)
      BY <1>2, <1>3, <1>7, <2>1 DEF Tasks
    <2>3. Owned(Visible', stream', task', lost')
      BY <1>2, <1>6, <1>10, <2>1, OwnersKept
    <2>4. FreeingOK(Visible', stream', task')
      BY <1>9, <2>1, <2>2 DEF FreeingOK
    <2>5. ErrorOK(stream', task') /\ Marked'
      BY <1>11, <2>1, <2>2 DEF ErrorOK, Marked
    <2>. QED
      BY <2>3, <2>4, <2>5 DEF Clean
  <1>. QED
    BY <1>12, <1>13

LEMMA FreeClean ==
    ASSUME Safe, NoLeak, D64Inv, Clean, FreeBlock
    PROVE  Clean'
  <1>1. D64Inv' /\ Flushed /\ (Gave(Head(task.todo)) \/ Fails)
    BY FreeStep
  <1>2. /\ task.pc = "free" /\ lost' = lost /\ stream' = stream
        /\ task' = [task EXCEPT !.todo = Tail(@), !.pc = IF Len(task.todo) = 1 THEN "clear" ELSE @]
    BY DEF FreeBlock, At
  <1>3. PICK q, b, s : q = task.todo /\ b = Head(q) /\ s = task.slot
    OBVIOUS
  <1>4. Gave(b)
    BY <1>1, <1>2, <1>3 DEF Fails, NoLeak
  <1>5. /\ Keeps /\ Visible.free \subseteq Visible'.free /\ b \in Visible'.free
        /\ Visible'.free = Visible.free \cup {b}
    BY <1>4, GaveFree DEF Gave
  <1>6. q \in Seq(Block) /\ q # <<>> /\ task \in Tasks /\ s \in Live(Visible)
    BY <1>2, <1>3, Shapes DEF Tasks, StepOK
  <1>7. Blocks(Visible, s) \subseteq Visible.free \cup Range(q)
    BY <1>2, <1>3 DEF Clean, FreeingOK
  <1>8. /\ Len(q) = 1 => Blocks(Visible, s) \subseteq Visible'.free
        /\ Blocks(Visible, s) \subseteq Visible'.free \cup Range(Tail(q))
    BY <1>3, <1>5, <1>6, <1>7, Shorter
  <1>9. Blocks(Visible', s) = Blocks(Visible, s)
    BY <1>5, <1>6 DEF Keeps, SameStore
  <1>10. /\ task'.todo = Tail(q) /\ task'.slot = s /\ task'.h = task.h /\ task'.then = task.then
         /\ task'.pc = IF Len(q) = 1 THEN "clear" ELSE "free"
    BY <1>2, <1>3, <1>6 DEF Tasks
  <1>11. Works(Visible, task) = {}
    BY <1>2 DEF Works
  <1>12. Owned(Visible', stream', task', lost')
    BY <1>2, <1>5, <1>11, OwnersKept
  <1>13. FreeingOK(Visible', stream', task')
    BY <1>8, <1>9, <1>10 DEF FreeingOK
  <1>14. ErrorOK(stream', task')
    BY <1>2, <1>10 DEF Clean, ErrorOK
  <1>15. Marked'
    BY <1>10 DEF Marked
  <1>. QED
    BY <1>12, <1>13, <1>14, <1>15 DEF Clean

LEMMA ReclaimClean ==
    ASSUME Safe, NoLeak, D64Inv, Clean, Reclaim
    PROVE  Clean'
  <1>1. D64Inv' /\ Flushed /\ ReclaimDone
    BY ReclaimStep
  <1>2. task.pc = "reclaim" /\ lost' = lost /\ stream' = stream
    BY DEF Reclaim, At
  <1>3. PICK b, s : b = Head(task.todo) /\ s = task.slot
    OBVIOUS
  <1>4. Took(b) /\ task'.slot = s /\ task'.pc \in {"restore", "reclaim"}
    BY <1>1, <1>2, <1>3 DEF ReclaimDone, Fails, NoLeak
  <1>5. Keeps /\ Visible.free \subseteq Visible'.free \cup {b}
    BY <1>4, TookFree
  <1>6. /\ task.todo \in Seq(Block) /\ task.todo # <<>>
        /\ Range(task.todo) \subseteq Blocks(Visible, s) /\ s \in Places(Visible)
        /\ EntryAt(Visible, s).name # Nobody /\ Sound(Visible, But(task), acked)
    BY <1>2, <1>3, Shapes DEF Tasks, StepOK
  <1>7. b \in Blocks(Visible, s)
    BY <1>3, <1>6, TailFacts
  <1>8. Blocks(Visible', s) = Blocks(Visible, s)
    <2>1. PICK img, new : img = Visible /\ new = Visible'
      OBVIOUS
    <2>2. Alike(img, new) /\ EntryAt(img, s).start \in FileBlocks
      BY <1>4, <1>6, <2>1, FreeAlike DEF Took, Sound, EntriesOK, EntryOK
    <2>. QED
      BY <1>6, <2>1, <2>2 DEF Alike
  <1>9. Works(Visible, task) = Blocks(Visible, s) /\ Works(Visible', task') = Blocks(Visible, s)
    BY <1>2, <1>3, <1>4, <1>8 DEF Works
  <1>10. Owned(Visible', stream', task', lost')
    BY <1>2, <1>5, <1>7, <1>9, OwnersKept
  <1>11. Marked'
    <2>1. Visible'.next = Visible.next /\ Visible'.data = Visible.data
      BY <1>4 DEF Took, FreedOnly
    <2>2. CASE \A h \in Handles : pend'[h] = <<>>
      <3>1. Now' = image'
        BY <2>2 DEF Now, Holding
      <3>2. Visible' = image'
        BY <1>4, <3>1, VisibleIsNowNext
      <3>. QED
        BY <3>2 DEF Marked
    <2>3. CASE \E h \in Handles : pend'[h] # <<>>
      BY <1>1, <2>1, <2>3 DEF Flushed, Marked
    <2>. QED
      BY <2>2, <2>3
  <1>12. FreeingOK(Visible', stream', task') /\ ErrorOK(stream', task')
    BY <1>2, <1>4 DEF FreeingOK, ErrorOK, Clean
  <1>. QED
    BY <1>10, <1>11, <1>12 DEF Clean

\* An entry is written or marked.
LEMMA EnteredOwners ==
    ASSUME NEW img, NEW new, NEW s, NEW e, NEW but, NEW done, NEW strm, NEW strm2, NEW tsk,
           NEW tsk2, NEW gone, Sound(img, but, done), Entered(img, new, s, e),
           Owned(img, strm, tsk, gone), s \in Live(img) => Blocks(img, s) \subseteq new.free,
           \A c \in Channels : \A b \in Held(strm, c) : Accounted(new, strm2, tsk2, gone, b),
           \A b \in Works(img, tsk) : Accounted(new, strm2, tsk2, gone, b)
    PROVE  Owned(new, strm2, tsk2, gone)
  <1>1. /\ Live(new) \ {s} = Live(img) \ {s}
        /\ \A t \in Live(img) \ {s} : Blocks(new, t) = Blocks(img, t)
    BY EnteredFiles
  <1>2. Places(img) \subseteq Places(new) /\ new.free = img.free
    BY DEF Entered
  <1>3. Dir(img) \subseteq Dir(new)
    <2>. SUFFICES ASSUME NEW d \in Dir(img) PROVE d \in Dir(new)
      OBVIOUS
    <2>1. 1 \in 1..SlotsPerSector
      BY GeometryAssumption
    <2>2. <<d, 1>> \in Places(img)
      BY <2>1 DEF Places
    <2>3. <<d, 1>> \in Places(new)
      BY <1>2, <2>2
    <2>. QED
      BY <2>3 DEF Places
  <1>4. ASSUME NEW t \in Live(img), NEW b \in Blocks(img, t)
        PROVE  Accounted(new, strm2, tsk2, gone, b)
    <2>1. CASE t = s
      BY <1>4, <2>1 DEF Accounted
    <2>2. CASE t # s
      <3>1. t \in Live(new) /\ b \in Blocks(new, t)
        BY <1>1, <1>4, <2>2
      <3>. QED
        BY <3>1 DEF Accounted
    <2>. QED
      BY <2>1, <2>2
  <1>5. \A b \in img.free : Accounted(new, strm2, tsk2, gone, b)
    BY <1>2 DEF Accounted
  <1>. QED
    BY <1>3, <1>4, <1>5, OwnersStay

LEMMA EntryClean ==
    ASSUME Safe, NoLeak, D64Inv, Clean, WriteEntry
    PROVE  Clean'
  <1>1. D64Inv' /\ Flushed /\ EntryDone(task.h)
    BY EntryStep
  <1>2. task.pc \in {"entry", "newEntry"} /\ lost' = lost
    BY DEF WriteEntry, At
  <1>3. PICK c \in Channels : c = task.h
    BY <1>2, ChannelRuns
  <1>4. CASE Visible' = Visible /\ Undo(c) /\ task.pc = "entry"
    <2>1. Works(Visible, task) = {}
      BY <1>4 DEF Works
    <2>. QED
      BY <1>2, <1>3, <1>4, <2>1, SameKeeps, UndoClean
  <1>5. CASE /\ \E s : EntersAt(s, EntryOf(stream[c]))
             /\ stream' = [stream EXCEPT ![c] = NoStream] /\ task' = Idle
    <2>1. PICK img, new, strm2, tsk2, gone :
             img = Visible /\ new = Visible' /\ strm2 = stream' /\ tsk2 = task' /\ gone = lost
      OBVIOUS
    <2>2. PICK q, e : q = stream[c].held /\ e = EntryOf(stream[c])
      OBVIOUS
    <2>3. e = [live |-> TRUE, name |-> stream[c].name, start |-> Head(q), blocks |-> Len(q)]
      BY <2>2 DEF EntryOf
    <2>4. PICK s : /\ s \notin Live(img) /\ Entered(img, new, s, e)
                   /\ task.pc = "newEntry" => s[1] = task.new
      BY <1>5, <2>1, <2>2 DEF EntersAt
    <2>5. Good(img, stream, task, acked, saves) /\ Sound(img, But(task), acked)
      BY <2>1, Shapes
    <2>6. task.pc \in Finishing
      BY <1>2 DEF Finishing
    <2>7. e.live /\ Blocks(new, s) = Held(stream, c)
      BY <1>3, <2>2, <2>3, <2>4, <2>5, <2>6, SavedFile
    <2>8. s \in Live(new)
      BY <2>4, <2>5, <2>7, EnteredFiles
    <2>9. /\ stream \in [Channels -> Streams(saves)] /\ ~NoStream.creating /\ ~NoStream.error
          /\ task'.pc = "idle"
      BY <1>5, Shapes DEF NoStream, Idle
    <2>10. stream'[c] = NoStream /\ \A d \in Channels \ {c} : stream'[d] = stream[d]
      BY <1>5, <2>9
    <2>11. ASSUME NEW d \in Channels, NEW b \in Held(stream, d)
           PROVE  Accounted(new, strm2, tsk2, gone, b)
      <3>1. CASE d = c
        BY <2>7, <2>8, <2>11, <3>1 DEF Accounted
      <3>2. CASE d # c
        <4>1. b \in Held(strm2, d)
          BY <2>1, <2>10, <2>11, <3>2 DEF Held
        <4>. QED
          BY <4>1 DEF Accounted
      <3>. QED
        BY <3>1, <3>2
    <2>12. ASSUME NEW b \in Works(img, task) PROVE Accounted(new, strm2, tsk2, gone, b)
      <3>1. task.pc = "newEntry" /\ b = task.new
        BY <1>2, <2>12 DEF Works
      <3>2. b \in Dir(new)
        BY <2>4, <3>1 DEF Entered, Places
      <3>. QED
        BY <3>2 DEF Accounted
    <2>13. Owned(img, stream, task, gone)
      BY <2>1 DEF Clean
    <2>14. Owned(new, strm2, tsk2, gone)
      BY <2>4, <2>5, <2>11, <2>12, <2>13, EnteredOwners
    <2>15. \A d \in Channels : stream'[d].error => ~stream'[d].creating
      BY <2>9, <2>10 DEF Clean, ErrorOK
    <2>. QED
      BY <1>2, <2>1, <2>9, <2>14, <2>15, CleanRest DEF Clean
  <1>. QED
    BY <1>1, <1>3, <1>4, <1>5 DEF EntryDone

LEMMA ClearClean ==
    ASSUME Safe, NoLeak, D64Inv, Clean, ClearEntry
    PROVE  Clean'
  <1>1. D64Inv' /\ Flushed /\ MarkDone(FALSE)
    BY ClearStep
  <1>2. /\ task.pc = "clear" /\ lost' = lost /\ stream' = stream
        /\ task' = IF task.then = "return" THEN Idle ELSE [Idle EXCEPT !.pc = "begin", !.h = task.h]
    BY DEF ClearEntry, At
  <1>3. PICK img, new, tsk2, gone, s :
           /\ img = Visible /\ new = Visible' /\ tsk2 = task' /\ gone = lost /\ s = task.slot
    OBVIOUS
  <1>4. PICK e : Entered(img, new, s, e) /\ ~e.live
    BY <1>1, <1>3 DEF MarkDone
  <1>5. Sound(img, But(task), acked) /\ Owned(img, stream, task, gone)
    BY <1>3, Shapes DEF Clean
  <1>6. Blocks(img, s) \subseteq new.free
    BY <1>2, <1>3, <1>4 DEF Clean, FreeingOK, Entered
  <1>7. \A c \in Channels : \A b \in Held(stream, c) : Accounted(new, stream, tsk2, gone, b)
    BY DEF Accounted
  <1>8. Works(img, task) = {}
    BY <1>2 DEF Works
  <1>9. Owned(new, stream, tsk2, gone)
    BY <1>4, <1>5, <1>6, <1>7, <1>8, EnteredOwners
  <1>10. task'.pc \in {"idle", "begin"} /\ (task'.pc = "begin" => task'.h = task.h /\ task.then # "return")
    BY <1>2 DEF Idle
  <1>12. FreeingOK(Visible', stream', task') /\ Marked'
    BY <1>10 DEF FreeingOK, Marked
  <1>13. ErrorOK(stream', task')
    BY <1>2, <1>10 DEF Clean, ErrorOK
  <1>. QED
    BY <1>2, <1>3, <1>9, <1>12, <1>13 DEF Clean

LEMMA RestoreClean ==
    ASSUME Safe, NoLeak, D64Inv, Clean, RestoreEntry
    PROVE  Clean'
  <1>1. D64Inv' /\ Flushed /\ (MarkDone(TRUE) \/ Fails)
    BY RestoreStep
  <1>2. task.pc = "restore" /\ lost' = lost /\ stream' = stream /\ task' = Idle
    BY DEF RestoreEntry, At
  <1>3. PICK img, new, tsk2, gone, s :
           /\ img = Visible /\ new = Visible' /\ tsk2 = task' /\ gone = lost /\ s = task.slot
    OBVIOUS
  <1>4. PICK e : Entered(img, new, s, e) /\ e.live /\ e.start = EntryAt(img, s).start
    BY <1>1, <1>2, <1>3 DEF MarkDone, Fails, NoLeak
  <1>5. /\ Sound(img, But(task), acked) /\ Owned(img, stream, task, gone) /\ s \notin Live(img)
        /\ s \in Places(img) /\ EntryAt(img, s).name # Nobody
    BY <1>2, <1>3, Shapes DEF Clean, StepOK
  <1>6. s \in Live(new)
    BY <1>4, <1>5, EnteredFiles
  <1>7. Blocks(new, s) = Blocks(img, s)
    <2>1. PICK a \in FileBlocks : a = EntryAt(img, s).start
      BY <1>5 DEF Sound, EntriesOK, EntryOK
    <2>2. FileChain(img, s) = ChainFrom(img, a) /\ FileChain(new, s) = ChainFrom(new, a)
      BY <1>4, <2>1 DEF FileChain, Entered
    <2>3. ChainFrom(new, a) = ChainFrom(img, a)
      BY <1>4, <1>5, ChainFilesSame DEF Entered, Sound
    <2>. QED
      BY <2>2, <2>3 DEF Blocks
  <1>8. \A c \in Channels : \A b \in Held(stream, c) : Accounted(new, stream, tsk2, gone, b)
    BY DEF Accounted
  <1>9. Works(img, task) = Blocks(img, s)
    BY <1>2, <1>3 DEF Works
  <1>10. \A b \in Works(img, task) : Accounted(new, stream, tsk2, gone, b)
    BY <1>6, <1>7, <1>9 DEF Accounted
  <1>11. Owned(new, stream, tsk2, gone)
    BY <1>4, <1>5, <1>8, <1>10, EnteredOwners
  <1>12. task'.pc = "idle" /\ \A d \in Channels : stream'[d].error => ~stream'[d].creating
    BY <1>2 DEF Clean, ErrorOK, Idle
  <1>. QED
    BY <1>2, <1>3, <1>11, <1>12, CleanRest DEF Clean

-----------------------------------------------------------------------------
(* The handlers that start, power cuts, and the theorem.                   *)

\* Nothing changes for the blocks when a handler starts.
LEMMA StartOwns ==
    ASSUME D64Inv, Clean, Visible' = Visible, lost' = lost, task.pc = "idle",
           \A c \in Channels : Held(stream, c) \subseteq Held(stream', c)
    PROVE  Owned(Visible', stream', task', lost')
  <1>1. Works(Visible, task) = {} /\ Keeps
    BY SameKeeps DEF Works
  <1>. QED
    BY <1>1, OwnersKept

LEMMA OpensClean ==
    ASSUME D64Inv, Clean, Visible' = Visible, lost' = lost, task.pc = "idle",
           NEW c \in Channels, NEW n \in Names, ~stream[c].open,
           stream' = [stream EXCEPT ![c] = Opened(n)], task'.h = c,
           \/ task'.pc = "begin"
           \/ task'.pc = "free" /\ Blocks(Visible, task'.slot) \subseteq Range(task'.todo)
    PROVE  Clean'
  <1>1. /\ stream \in [Channels -> Streams(saves)] /\ ~Opened(n).creating /\ ~Opened(n).error
    BY Shapes DEF Opened, NoStream
  <1>2. ~stream[c].creating
    BY Shapes DEF StreamsOK, StreamOK
  <1>3. Held(stream, c) = {}
    BY <1>2, HoldsNothing
  <1>4. /\ ~stream'[c].creating /\ ~stream'[c].error
        /\ \A d \in Channels \ {c} : stream'[d] = stream[d]
    BY <1>1
  <1>5. \A d \in Channels : Held(stream, d) \subseteq Held(stream', d)
    BY <1>3, <1>4 DEF Held
  <1>6. Owned(Visible', stream', task', lost')
    BY <1>5, StartOwns
  <1>7. FreeingOK(Visible', stream', task') /\ Marked'
    BY DEF FreeingOK, Marked
  <1>8. ErrorOK(stream', task')
    BY <1>4 DEF ErrorOK, Clean
  <1>. QED
    BY <1>6, <1>7, <1>8 DEF Clean

LEMMA OpenNewClean ==
    ASSUME Safe, NoLeak, D64Inv, Clean, NEW c \in Channels, NEW n \in Names, OpenNew(c, n)
    PROVE  Clean'
  <1>1. Visible' = Visible
    BY OpenNewStep DEF Untouched
  <1>2. /\ task.pc = "idle" /\ stream' = [stream EXCEPT ![c] = Opened(n)] /\ ~stream[c].open
        /\ task'.pc = "begin" /\ task'.h = c /\ lost' = lost
    BY DEF OpenNew, MayUse, Idle
  <1>. QED
    BY <1>1, <1>2, OpensClean

LEMMA OpenReplaceClean ==
    ASSUME Safe, NoLeak, D64Inv, Clean, NEW c \in Channels, NEW n \in Names, OpenReplace(c, n)
    PROVE  Clean'
  <1>1. Visible' = Visible /\ Visible = image
    BY OpenReplaceStep DEF Untouched
  <1>2. /\ task.pc = "idle" /\ stream' = [stream EXCEPT ![c] = Opened(n)] /\ ~stream[c].open
        /\ task'.pc = "free" /\ task'.h = c /\ lost' = lost
        /\ task'.todo = FileChain(image, task'.slot)
    BY DEF OpenReplace, MayUse, Idle, FileChain
  <1>3. Blocks(Visible, task'.slot) \subseteq Range(task'.todo)
    BY <1>1, <1>2 DEF Blocks
  <1>. QED
    BY <1>1, <1>2, <1>3, OpensClean

LEMMA WriteFullClean ==
    ASSUME Safe, NoLeak, D64Inv, Clean, NEW c \in Channels, WriteFull(c)
    PROVE  Clean'
  <1>1. Visible' = Visible
    BY WriteFullStep DEF Untouched
  <1>2. stream' = stream /\ task.pc = "idle" /\ task'.pc = "next" /\ lost' = lost
    BY DEF WriteFull, Idle
  <1>3. Owned(Visible', stream', task', lost')
    BY <1>1, <1>2, StartOwns
  <1>4. \A d \in Channels : stream'[d].error => ~stream'[d].creating
    BY <1>2 DEF Clean, ErrorOK
  <1>. QED
    BY <1>2, <1>3, <1>4, CleanRest DEF Clean

LEMMA CloseSavingClean ==
    ASSUME Safe, NoLeak, D64Inv, Clean, NEW c \in Channels, CloseSaving(c)
    PROVE  Clean'
  <1>1. Visible' = Visible
    BY CloseSavingStep DEF Untouched
  <1>2. /\ stream' = [stream EXCEPT ![c].creating = FALSE] /\ task'.pc = "last" /\ lost' = lost
        /\ task.pc = "idle"
    BY DEF CloseSaving, Idle
  <1>3. /\ stream'[c].held = stream[c].held /\ ~stream'[c].creating
        /\ \A d \in Channels \ {c} : stream'[d] = stream[d]
    BY <1>2, Shapes DEF Streams
  <1>4. \A d \in Channels : Held(stream, d) \subseteq Held(stream', d)
    BY <1>3 DEF Held
  <1>5. Owned(Visible', stream', task', lost')
    BY <1>1, <1>2, <1>4, StartOwns
  <1>6. \A d \in Channels : stream'[d].error => ~stream'[d].creating
    BY <1>3 DEF Clean, ErrorOK
  <1>. QED
    BY <1>2, <1>5, <1>6, CleanRest DEF Clean

LEMMA CloseFailedClean ==
    ASSUME Safe, NoLeak, D64Inv, Clean, NEW c \in Channels, CloseFailed(c)
    PROVE  Clean'
  <1>1. Visible' = Visible
    BY CloseFailedStep
  <1>2. /\ stream' = [stream EXCEPT ![c] = NoStream] /\ task' = task /\ lost' = lost
        /\ task.pc = "idle" /\ (stream[c].error \/ ~stream[c].creating)
    BY DEF CloseFailed
  <1>3. ~stream[c].creating
    BY <1>2 DEF Clean, ErrorOK
  <1>4. Held(stream, c) = {}
    BY <1>2, <1>3, HoldsNothing
  <1>5. ~stream'[c].creating /\ \A d \in Channels \ {c} : stream'[d] = stream[d]
    BY <1>2, Shapes DEF NoStream
  <1>6. \A d \in Channels : Held(stream, d) \subseteq Held(stream', d)
    BY <1>4, <1>5 DEF Held
  <1>7. Owned(Visible', stream', task', lost')
    BY <1>1, <1>2, <1>6, StartOwns
  <1>8. \A d \in Channels : stream'[d].error => ~stream'[d].creating
    BY <1>5 DEF Clean, ErrorOK
  <1>. QED
    BY <1>2, <1>7, <1>8, CleanRest DEF Clean

LEMMA ScratchClean ==
    ASSUME Safe, NoLeak, D64Inv, Clean, NEW n \in Names, Scratch(n)
    PROVE  Clean'
  <1>1. Visible' = Visible /\ Visible = image
    BY ScratchStep DEF Untouched
  <1>2. /\ task.pc = "idle" /\ stream' = stream /\ task'.pc = "free" /\ lost' = lost
        /\ task'.todo = FileChain(image, task'.slot) /\ task'.then = "return"
    BY DEF Scratch, MayUse, Idle, FileChain
  <1>3. Blocks(Visible, task'.slot) \subseteq Range(task'.todo)
    BY <1>1, <1>2 DEF Blocks
  <1>4. Owned(Visible', stream', task', lost')
    BY <1>1, <1>2, StartOwns
  <1>5. FreeingOK(Visible', stream', task') /\ Marked'
    BY <1>1, <1>2, <1>3 DEF FreeingOK, Marked
  <1>6. ErrorOK(stream', task')
    BY <1>2 DEF ErrorOK, Clean
  <1>. QED
    BY <1>4, <1>5, <1>6 DEF Clean

LEMMA UnscratchClean ==
    ASSUME Safe, NoLeak, D64Inv, Clean, NEW n \in Names, Unscratch(n)
    PROVE  Clean'
  <1>1. Visible' = Visible /\ Visible = image /\ image' = image
    BY UnscratchStep DEF Untouched
  <1>2. task.pc = "idle" /\ stream' = stream /\ task'.pc = "reclaim" /\ lost' = lost
    BY DEF Unscratch, MayUse, Idle
  <1>3. Owned(Visible', stream', task', lost')
    BY <1>1, <1>2, StartOwns
  <1>4. FreeingOK(Visible', stream', task') /\ Marked'
    BY <1>1, <1>2 DEF FreeingOK, Marked
  <1>5. ErrorOK(stream', task')
    BY <1>2 DEF ErrorOK, Clean
  <1>. QED
    BY <1>3, <1>4, <1>5 DEF Clean

\* The parts of Claimed.
LEMMA ClaimedParts ==
    /\ task.new \in Claimed
    /\ \A c \in Channels : Range(stream[c].held) \subseteq Claimed
    /\ \A h \in Handles : Seen(h).free \subseteq Claimed
    /\ task.pc \in {"reclaim", "restore"} =>
          Range(ChainFrom(image, EntryAt(image, task.slot).start)) \subseteq Claimed
  <1>. DEFINE held == UNION {Range(stream[c].held) : c \in Channels}
              free == UNION {Seen(h).free : h \in Handles}
              chain == Range(ChainFrom(image, EntryAt(image, task.slot).start))
  <1>1. Claimed = {task.new} \cup held \cup free
                    \cup IF task.pc \in {"reclaim", "restore"} THEN chain ELSE {}
    BY Zenon DEF Claimed
  <1>2. \A h \in Handles : Seen(h).free \subseteq free
    OBVIOUS
  <1>3. \A c \in Channels : Range(stream[c].held) \subseteq held
    OBVIOUS
  <1>. HIDE DEF held, free
  <1>. QED
    BY <1>1, <1>2, <1>3

\* A cut takes the blocks that are free in a buffer only.
LEMMA CutFree ==
    ASSUME Safe, PowerCut, NEW b \in Visible.free \ image.free
    PROVE  b \in Claimed
  <1>1. Visible = Now
    BY VisibleIsNow DEF PowerCut, Safe
  <1>2. PICK h \in Handles : Now = Seen(h)
    BY <1>1 DEF Now, Holding
  <1>. QED
    BY <1>1, <1>2, ClaimedParts

\* A cut takes what the running handler has claimed.
LEMMA CutWorks ==
    ASSUME Safe, D64Inv, Clean, PowerCut, NEW b \in Works(Visible, task)
    PROVE  b \in Claimed
  <1>1. CASE task.pc \notin {"reclaim", "restore"}
    BY <1>1, ClaimedParts DEF Works
  <1>2. CASE task.pc \in {"reclaim", "restore"}
    <2>1. PICK img, cut, s : img = Visible /\ cut = image /\ s = task.slot
      OBVIOUS
    <2>2. /\ Sound(img, But(task), acked) /\ s \in Places(img) /\ EntryAt(img, s).name # Nobody
          /\ FreedOnly(img, cut)
      BY <1>2, <2>1, Shapes DEF StepOK, D64Inv, Clean, Marked, FreedOnly
    <2>3. Alike(img, cut) /\ EntryAt(img, s).start \in FileBlocks
      BY <2>2, FreeAlike DEF Sound, EntriesOK, EntryOK
    <2>4. Blocks(cut, s) = Blocks(img, s)
      BY <2>2, <2>3 DEF Alike
    <2>5. b \in Range(ChainFrom(image, EntryAt(image, task.slot).start))
      BY <1>2, <2>1, <2>4 DEF Works, Blocks, FileChain
    <2>. QED
      BY <1>2, <2>5, ClaimedParts
  <1>. QED
    BY <1>1, <1>2

LEMMA PowerCutClean ==
    ASSUME Safe, NoLeak, D64Inv, Agree, Clean, PowerCut
    PROVE  Clean'
  <1>1. Visible' = image
    BY PowerCutStep
  <1>2. /\ stream' = [c \in Channels |-> NoStream] /\ task' = Idle
        /\ lost' = lost \cup (Claimed \cap (Block \ image.free))
    BY DEF PowerCut
  <1>3. task'.pc = "idle" /\ \A c \in Channels : stream'[c].error => ~stream'[c].creating
    BY <1>2 DEF Idle, NoStream
  <1>4. Owned(Visible', stream', task', lost')
    <2>1. PICK cut, strm2, tsk2, gone : /\ cut = image /\ strm2 = stream' /\ tsk2 = task'
                                        /\ gone = lost'
      OBVIOUS
    <2>. SUFFICES ASSUME NEW b \in Block PROVE Accounted(cut, strm2, tsk2, gone, b)
      BY <1>1, <2>1 DEF Owned
    <2>2. SameStore(cut, Visible)
      BY <2>1, CutImage
    <2>3. b \in Claimed => b \in cut.free \/ b \in gone
      BY <1>2, <2>1
    <2>4. CASE b \in Visible.free
      BY <2>1, <2>3, <2>4, CutFree DEF Accounted
    <2>5. CASE b \in Works(Visible, task)
      BY <2>3, <2>5, CutWorks DEF Accounted
    <2>6. CASE \E c \in Channels : b \in Held(stream, c)
      <3>1. b \in Claimed
        BY <2>6, ClaimedParts DEF Held
      <3>. QED
        BY <2>3, <3>1 DEF Accounted
    <2>7. CASE b = System \/ b \in Dir(Visible) \/ b \in lost
      BY <1>2, <2>1, <2>2, <2>7 DEF SameStore, Accounted
    <2>8. CASE \E s \in Live(Visible) : b \in Blocks(Visible, s)
      BY <2>2, <2>8 DEF SameStore, Accounted
    <2>9. Accounted(Visible, stream, task, lost, b)
      BY DEF Clean, Owned
    <2>. QED
      BY <2>4, <2>5, <2>6, <2>7, <2>8, <2>9 DEF Accounted
  <1>. QED
    BY <1>3, <1>4, CleanRest DEF Clean

LEMMA InitClean == Init => Clean
  <1>. SUFFICES ASSUME Init PROVE Clean
    OBVIOUS
  <1>1. /\ pend = [h \in Handles |-> <<>>] /\ stream = [c \in Channels |-> NoStream]
        /\ task = Idle
    BY DEF Init
  <1>2. task.pc = "idle" /\ ~NoStream.error
    BY <1>1 DEF Idle, NoStream
  <1>3. Visible = image
    BY <1>1, <1>2 DEF Visible
  <1>4. Dir(image) = {FirstDir} /\ image.free = Block \ {System, FirstDir}
    BY FormatSound
  <1>5. Owned(Visible, stream, task, lost)
    BY <1>3, <1>4 DEF Owned, Accounted
  <1>. QED
    BY <1>1, <1>2, <1>5 DEF Clean, FreeingOK, ErrorOK, Marked

LEMMA CleanNext ==
    ASSUME Safe, NoLeak, D64Inv, Agree, Clean, [Next]_vars
    PROVE  Clean'
  <1>1. CASE UNCHANGED vars
    <2>1. /\ image' = image /\ pend' = pend /\ stream' = stream /\ task' = task /\ lost' = lost
      BY <1>1 DEF vars
    <2>2. Visible' = Visible
      BY <2>1 DEF Visible, Seen
    <2>. QED
      BY <2>1, <2>2 DEF Clean, Marked
  <1>2. CASE \E c \in Channels, n \in Names : OpenNew(c, n) \/ OpenReplace(c, n)
    BY <1>2, OpenNewClean, OpenReplaceClean
  <1>3. CASE \E c \in Channels : WriteFull(c) \/ CloseSaving(c) \/ CloseFailed(c)
    BY <1>3, WriteFullClean, CloseSavingClean, CloseFailedClean
  <1>4. CASE \E n \in Names : Scratch(n) \/ Unscratch(n)
    BY <1>4, ScratchClean, UnscratchClean
  <1>5. CASE Step
    BY <1>5, BeginClean, NextClean, LinkClean, LastClean, SlotClean, ExtendClean, LinkDirClean,
       UndoDirClean, EntryClean, RollbackClean, FreeClean, ClearClean, ReclaimClean, RestoreClean
       DEF Step
  <1>6. CASE PowerCut
    BY <1>6, PowerCutClean
  <1>. QED
    BY <1>1, <1>2, <1>3, <1>4, <1>5, <1>6 DEF Next

\* Between handlers every block the allocation map shows in use has an owner:
\* a save that failed, a replaced file and a scratched one have given all
\* their blocks back, and what a power cut strands is what the interrupted
\* handler had claimed.  For troubles within Safe, and no failing write at the
\* link block (d64.cpp:777), while blocks are given back, or in pass 2 of a
\* recovery (d64.cpp:1022-1031): each of those leaves blocks behind.
THEOREM NothingOrphaned ==
    ASSUME Safe, NoLeak
    PROVE  Spec => []NoOrphans
  <1>1. Init => D64Inv /\ Agree /\ Clean
    BY InitInv, InitStore, InitClean
  <1>2. D64Inv /\ Agree /\ Clean /\ [Next]_vars => D64Inv' /\ Agree' /\ Clean'
    BY NextInv, NextStoreStep, CleanNext
  <1>3. Clean => NoOrphans
    <2>. SUFFICES ASSUME Clean, task.pc = "idle"
                  PROVE  NoOrphans
      BY DEF NoOrphans
    <2>. DEFINE dir == Range(DirChain(Visible))
                files == UNION {Range(FileChain(Visible, s)) : s \in LiveSlots(Visible)}
                held == UNION {Range(stream[c].held) : c \in Channels}
    <2>1. ASSUME NEW b \in Block \ Visible.free
          PROVE  b \in {System} \cup dir \cup lost \cup files \cup held
      <3>1. Accounted(Visible, stream, task, lost, b) /\ Works(Visible, task) = {}
        BY DEF Clean, Owned, Works
      <3>2. (\E s \in Live(Visible) : b \in Blocks(Visible, s)) => b \in files
        BY LiveSlotsAre DEF Blocks
      <3>3. (\E c \in Channels : b \in Held(stream, c)) => b \in held
        BY DEF Held
      <3>4. b \in Dir(Visible) => b \in dir
        BY DEF Dir
      <3>. HIDE DEF dir, files, held
      <3>. QED
        BY <3>1, <3>2, <3>3, <3>4 DEF Accounted
    <2>2. Block \ Visible.free \subseteq {System} \cup dir \cup lost \cup files \cup held
      <3>. HIDE DEF dir, files, held
      <3>. QED
        BY <2>1
    <2>. QED
      BY <2>2, Zenon DEF NoOrphans
  <1>. QED
    BY <1>1, <1>2, <1>3, PTL DEF Spec
=============================================================================
