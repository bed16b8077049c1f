------------------------------ MODULE FileStore ------------------------------
(***************************************************************************)
(* What a disk image promises to those who save files on it, without       *)
(* blocks, allocation map or directory sectors: a set of named files, and  *)
(* for every open channel the data its client has sent so far.  A save     *)
(* becomes visible in one step, whole, or not at all; nothing but a        *)
(* scratch of that very file takes it away again; a power cut loses the    *)
(* saves under way and nothing else.                                       *)
(***************************************************************************)
EXTENDS Naturals, Sequences

CONSTANTS Channels,     \* the channels files are written on
          Names,        \* file names
          Data,         \* contents of a block of a file
          Slots,        \* the places of directory entries
          Nothing       \* the channel has no save under way

VARIABLES files,        \* set of [slot, name, data]: the directory, with for
                        \* every entry the data read back through it
          saving        \* per channel Nothing or [name, data]: what was sent

Init == files = {} /\ saving = [c \in Channels |-> Nothing]

Unused(s) == \A f \in files : f.slot # s

Start(c) ==
    /\ saving[c] = Nothing
    /\ \E n \in Names, d \in Data :
          saving' = [saving EXCEPT ![c] = [name |-> n, data |-> <<d>>]]
    /\ UNCHANGED files

\* The client sends one more block of data.
Send(c) ==
    /\ saving[c] # Nothing
    /\ \E d \in Data : saving' = [saving EXCEPT ![c].data = Append(@, d)]
    /\ UNCHANGED files

\* The file appears, with the data that was sent and nothing else.
Commit(c) ==
    /\ saving[c] # Nothing
    /\ saving' = [saving EXCEPT ![c] = Nothing]
    /\ \E s \in Slots :
          /\ Unused(s)
          /\ files' = files \cup {[slot |-> s, name |-> saving[c].name,
                                   data |-> saving[c].data]}

\* The disk is full or a write failed: the save leaves no trace.
Abort(c) ==
    /\ saving[c] # Nothing
    /\ saving' = [saving EXCEPT ![c] = Nothing]
    /\ UNCHANGED files

Scratch ==
    /\ UNCHANGED saving
    /\ \E f \in files : files' = files \ {f}

\* One file comes back; its data is whatever its blocks hold by now.
Unscratch ==
    /\ UNCHANGED saving
    /\ \E f \in files' \ files : Unused(f.slot) /\ files' = files \cup {f}

PowerCut ==
    /\ saving' = [c \in Channels |-> Nothing]
    /\ UNCHANGED files

Next ==
    \/ \E c \in Channels : Start(c) \/ Send(c) \/ Commit(c) \/ Abort(c)
    \/ Scratch
    \/ Unscratch
    \/ PowerCut

Spec == Init /\ [][Next]_<<files, saving>>
=============================================================================
