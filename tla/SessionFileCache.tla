-------------------------- MODULE SessionFileCache --------------------------
(***************************************************************************)
(* The per-session file cache of MSession (lib/meatloaf/meat_session.h):   *)
(* whole files fetched over the network are kept for random access, keyed  *)
(* by path, in an unordered_map (file_cache) beside a std::list of the     *)
(* same paths in order of use (cache_order, front = most recent).  The     *)
(* cached bytes play no part in the two containers staying in step, so an  *)
(* entry of file_cache is just its key.                                    *)
(*                                                                         *)
(* The users are the streams of the bus task and of the console task: each *)
(* looks the path up, and on a miss downloads the file before it stores it *)
(* (sftp.cpp, archive.h).  No lock protects the cache, neither during the  *)
(* download nor inside a call, so every call on one of the containers is a *)
(* step of its own.  That is still kinder than the hardware: two tasks     *)
(* inside the same container at once are undefined behaviour.              *)
(***************************************************************************)
EXTENDS Naturals, Sequences, FiniteSets, SequencesExt

CONSTANTS Paths,        \* the paths files are cached under
          Tasks,        \* the tasks that open streams on the session
          NoPath,       \* not a path
          MaxEntries    \* max_file_cache_entries

VARIABLES file_cache,   \* keys of the unordered_map
          cache_order,  \* the LRU list, most recently used first
          pc,           \* per task, the statement it is at
          path,         \* per task, the path of its look-up or download
          oldest        \* per task, the local of the eviction loop

vars == <<file_cache, cache_order, pc, path, oldest>>
containers == <<file_cache, cache_order>>

Init ==
    /\ file_cache = {}
    /\ cache_order = <<>>
    /\ pc = [t \in Tasks |-> "idle"]
    /\ path = [t \in Tasks |-> NoPath]
    /\ oldest = [t \in Tasks |-> NoPath]

Goto(t, from, to) == pc[t] = from /\ pc' = [pc EXCEPT ![t] = to]

\* getCachedFile(): find() tells a hit from a miss, after which the stream
\* starts to download.
getCachedFile(t, p) ==
    /\ Goto(t, "idle", IF p \in file_cache THEN "remove" ELSE "loading")
    /\ path' = [path EXCEPT ![t] = p]
    /\ UNCHANGED <<containers, oldest>>

\* The allocation or the transfer failed: the stream falls back to unbuffered
\* access and caches nothing.
loadFailed(t) ==
    /\ Goto(t, "loading", "idle")
    /\ path' = [path EXCEPT ![t] = NoPath]
    /\ UNCHANGED <<containers, oldest>>

loaded(t) ==
    /\ Goto(t, "loading", "evict")
    /\ UNCHANGED <<containers, path, oldest>>

\* cacheFile(): the test of the eviction loop, with back() when it holds.
evict(t) ==
    LET full == Len(cache_order) >= MaxEntries IN
    /\ Goto(t, "evict", IF full THEN "pop" ELSE "insert")
    /\ oldest' = [oldest EXCEPT ![t] = IF full THEN Last(cache_order) ELSE NoPath]
    /\ UNCHANGED <<containers, path>>

\* pop_back(); on a list another task has emptied it does nothing here.
pop(t) ==
    /\ Goto(t, "pop", "erase")
    /\ cache_order' = IF cache_order = <<>> THEN <<>> ELSE Front(cache_order)
    /\ UNCHANGED <<file_cache, path, oldest>>

erase(t) ==
    /\ Goto(t, "erase", "evict")
    /\ file_cache' = file_cache \ {oldest[t]}
    /\ UNCHANGED <<cache_order, path, oldest>>

insert(t) ==
    /\ Goto(t, "insert", "remove")
    /\ file_cache' = file_cache \cup {path[t]}
    /\ UNCHANGED <<cache_order, path, oldest>>

\* remove() and push_front(), the end of both calls.
remove(t) ==
    /\ Goto(t, "remove", "push")
    /\ cache_order' = SelectSeq(cache_order, LAMBDA p : p # path[t])
    /\ UNCHANGED <<file_cache, path, oldest>>

push(t) ==
    /\ Goto(t, "push", "idle")
    /\ cache_order' = Cons(path[t], cache_order)
    /\ path' = [path EXCEPT ![t] = NoPath]
    /\ UNCHANGED <<file_cache, oldest>>

\* clearFileCache(), of a session that connects or is closed.
clearMap(t) ==
    /\ file_cache # {}
    /\ Goto(t, "idle", "clear")
    /\ file_cache' = {}
    /\ UNCHANGED <<cache_order, path, oldest>>

clearOrder(t) ==
    /\ Goto(t, "clear", "idle")
    /\ cache_order' = <<>>
    /\ UNCHANGED <<file_cache, path, oldest>>

Next ==
    \E t \in Tasks :
        \/ \E p \in Paths : getCachedFile(t, p)
        \/ loadFailed(t) \/ loaded(t)
        \/ evict(t) \/ pop(t) \/ erase(t) \/ insert(t) \/ remove(t) \/ push(t)
        \/ clearMap(t) \/ clearOrder(t)

Spec == Init /\ [][Next]_vars

-----------------------------------------------------------------------------
\* "LRU eviction when exceeding max_file_cache_entries" (meat_session.h:254):
\* whenever no task is inside a call, the cache holds no more files than that,
\* which bounds the memory it takes.  Two tasks that store a file at the same
\* time both pass the test of the loop at meat_session.h:270 before either has
\* pushed its path.
CacheBounded ==
    (\A t \in Tasks : pc[t] \in {"idle", "loading"}) => Cardinality(file_cache) <= MaxEntries
=============================================================================
