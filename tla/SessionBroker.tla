---------------------------- MODULE SessionBroker ----------------------------
(***************************************************************************)
(* The session broker (class SessionBroker and the bookkeeping half of     *)
(* MSession, lib/meatloaf/meat_session.h).  One network connection per     *)
(* scheme://host:port is shared by all drives and consoles through a map   *)
(* of shared_ptr (session_repo).  Clients obtain a session, mark it busy   *)
(* while a stream is open and drop it; the service task looks at every     *)
(* session once a second, disposes of those nobody uses and pings or       *)
(* reconnects the others.                                                  *)
(*                                                                         *)
(* The mutex protects the map only.  connect(), keep_alive() and the       *)
(* counters of a session run without it, and a disposal holds it while     *)
(* disconnect() is on the network.  A session object lives as long as it   *)
(* is referenced; its destructor disconnects.  Time since the last         *)
(* activity is kept in three steps, which is all the code compares it to.  *)
(***************************************************************************)
EXTENDS Naturals, FiniteSets

CONSTANTS Keys,          \* scheme://host:port
          Clients,       \* tasks that open files: bus task, console, ...
          Sessions,      \* MSession objects, reused once destroyed
          NONE,          \* no session, no key
          NetworkFails,  \* keep_alive() and connect() of the service may fail
          Commands       \* subset of {"clear", "dispose"}

ASSUME NONEAssumption == NONE \notin Sessions \cup Keys
ASSUME ClientsAssumption == IsFiniteSet(Clients)

VARIABLES session_repo,  \* key -> session
          connected,     \* per session
          io_active,     \* per session: streams open on it
          idle,          \* per session: 0, Grace or Interval
          cwd,           \* keys that are some drive's or console's directory
          scheme,        \* per key: the protocol of its sessions, one of Schemes
          client,        \* per client: what it does, for which key and session
          svc,           \* where the service task is
          to_remove,     \* its list of keys to dispose of
          to_check,      \* its list of (key, session) to ping, references held
          current        \* the key it is reconnecting or disconnecting

vars == <<session_repo, connected, io_active, idle, cwd, scheme, client, svc, to_remove, to_check, current>>
service_vars == <<svc, to_remove, to_check, current>>

\* The session classes that differ in what matters here.  On a connection that
\* is up, keep_alive() of TNFS cannot fail (tnfs_getcwd() asks nobody) and that
\* of CSIP can; close() of a TNFS stream does nothing once the session is
\* disconnected, close() of a CSIP stream always gives its count back.
Schemes == {"tnfs", "csip"}

\* getIdleTime() has reached idle_grace_period, keep_alive_interval
Grace == 1
Interval == 2

Free == [st |-> "idle", key |-> NONE, session |-> NONE]

Init ==
    /\ session_repo = [k \in Keys |-> NONE]
    /\ connected = [s \in Sessions |-> FALSE]
    /\ io_active = [s \in Sessions |-> 0]
    /\ idle = [s \in Sessions |-> 0]
    /\ cwd = {}
    /\ scheme \in [Keys -> Schemes]
    /\ client = [c \in Clients |-> Free]
    /\ svc = "sleep" /\ to_remove = {} /\ to_check = {} /\ current = NONE

\* Objects some shared_ptr points to.
Referenced ==
    ({session_repo[k] : k \in Keys} \cup {client[c].session : c \in Clients}
        \cup {p.session : p \in to_check}) \ {NONE}

\* The end of every step that may drop a reference: unreferenced objects are
\* destroyed, which disconnects them.
Settle(conn, time) ==
    /\ connected' = [s \in Sessions |-> conn[s] /\ s \in Referenced']
    /\ idle' = [s \in Sessions |-> IF s \in Referenced' THEN time[s] ELSE 0]

\* The mutex is held across steps only while the service task removes.
Unlocked == svc \notin {"remove", "disconnect"}

isBusy(s) == io_active[s] > 0

-----------------------------------------------------------------------------
(***************************************************************************)
(* Clients.                                                                *)
(***************************************************************************)

\* Mutation: find() does not compare the iterator with end().
findWithoutCheck(c, k) ==
    LET s == session_repo[k] IN
    /\ client[c].st = "idle" /\ Unlocked
    /\ client' = [client EXCEPT ![c] = [st |-> "holding", key |-> k, session |-> s]]
    /\ idle' = [x \in Sessions |-> IF x = s THEN 0 ELSE idle[x]]
    /\ UNCHANGED <<session_repo, connected, io_active, cwd, scheme, service_vars>>

\* find() in obtain(): the session is taken over and its activity refreshed.
findHit(c, k) ==
    LET s == session_repo[k] IN
    /\ client[c].st = "idle" /\ Unlocked /\ s # NONE
    /\ client' = [client EXCEPT ![c] = [st |-> "holding", key |-> k, session |-> s]]
    /\ idle' = [idle EXCEPT ![s] = 0]
    /\ UNCHANGED <<session_repo, connected, io_active, cwd, scheme, service_vars>>

\* find() failed: a new object connects, without the lock.
findMiss(c, k) ==
    /\ client[c].st = "idle" /\ Unlocked /\ session_repo[k] = NONE
    /\ \E s \in Sessions \ Referenced :
          /\ client' = [client EXCEPT ![c] = [st |-> "connecting", key |-> k, session |-> s]]
          /\ io_active' = [io_active EXCEPT ![s] = 0]
    /\ UNCHANGED <<session_repo, connected, idle, cwd, scheme, service_vars>>

connectOk(c) ==
    /\ client[c].st = "connecting"
    /\ client' = [client EXCEPT ![c].st = "adding"]
    /\ connected' = [connected EXCEPT ![client[c].session] = TRUE]
    /\ idle' = [idle EXCEPT ![client[c].session] = 0]
    /\ UNCHANGED <<session_repo, io_active, cwd, scheme, service_vars>>

connectFailed(c) ==
    /\ client[c].st = "connecting"
    /\ client' = [client EXCEPT ![c] = Free]
    /\ UNCHANGED <<session_repo, io_active, cwd, scheme, service_vars>>
    /\ Settle(connected, idle)

\* insert() keeps the session another client added first.
add(c) ==
    LET k == client[c].key
        s == client[c].session IN
    /\ client[c].st = "adding" /\ Unlocked
    /\ session_repo' = IF session_repo[k] = NONE
                       THEN [session_repo EXCEPT ![k] = s] ELSE session_repo
    /\ client' = [client EXCEPT ![c].st = "holding"]
    /\ idle' = [idle EXCEPT ![s] = 0]
    /\ UNCHANGED <<connected, io_active, cwd, scheme, service_vars>>

\* The server opened the file, which takes a connection; the stream marks the
\* session busy next.
openFile(c) ==
    /\ client[c].st = "holding" /\ connected[client[c].session]
    /\ client' = [client EXCEPT ![c].st = "opened"]
    /\ UNCHANGED <<session_repo, connected, io_active, idle, cwd, scheme, service_vars>>

acquireIO(c) ==
    LET s == client[c].session IN
    /\ client[c].st = "opened"
    /\ io_active' = [io_active EXCEPT ![s] = @ + 1]
    /\ idle' = [idle EXCEPT ![s] = 0]
    /\ client' = [client EXCEPT ![c].st = "busy"]
    /\ UNCHANGED <<session_repo, connected, cwd, scheme, service_vars>>

\* TNFSMStream::isOpen(), which its close() asks first.
stillOpen(c) == scheme[client[c].key] = "tnfs" => connected[client[c].session]

\* Mutation: close() looks the session up again instead of using its own.
ReleaseByKey(c) ==
    LET s == session_repo[client[c].key] IN
    /\ client[c].st = "busy" /\ stillOpen(c)
    /\ io_active' = IF s # NONE /\ io_active[s] > 0
                    THEN [io_active EXCEPT ![s] = @ - 1] ELSE io_active
    /\ client' = [client EXCEPT ![c] = Free]
    /\ UNCHANGED <<session_repo, cwd, scheme, service_vars>>
    /\ Settle(connected, idle)

\* close(): releaseIO() and the stream's reference goes.
releaseIO(c) ==
    LET s == client[c].session IN
    /\ client[c].st = "busy" /\ stillOpen(c)
    /\ io_active' = IF io_active[s] > 0 THEN [io_active EXCEPT ![s] = @ - 1] ELSE io_active
    /\ client' = [client EXCEPT ![c] = Free]
    /\ UNCHANGED <<session_repo, cwd, scheme, service_vars>>
    /\ Settle(connected, idle)

\* close() of a TNFS stream whose session was disconnected under it: the count
\* is not given back; the reference goes with the stream object.
closeDisconnected(c) ==
    /\ client[c].st = "busy" /\ ~stillOpen(c)
    /\ client' = [client EXCEPT ![c] = Free]
    /\ UNCHANGED <<session_repo, io_active, cwd, scheme, service_vars>>
    /\ Settle(connected, idle)

\* The file could not be opened, or only its directory entry was wanted.
drop(c) ==
    /\ client[c].st = "holding"
    /\ client' = [client EXCEPT ![c] = Free]
    /\ UNCHANGED <<session_repo, io_active, cwd, scheme, service_vars>>
    /\ Settle(connected, idle)

\* A drive or console changes its directory.
changeDirectory(k) ==
    /\ cwd' = IF k \in cwd THEN cwd \ {k} ELSE cwd \cup {k}
    /\ UNCHANGED <<session_repo, connected, io_active, idle, scheme, client, service_vars>>

\* A drive was reset: all entries go, nothing is disconnected explicitly.
clear ==
    /\ "clear" \in Commands /\ Unlocked
    /\ session_repo' = [k \in Keys |-> NONE]
    /\ UNCHANGED <<io_active, cwd, scheme, client, service_vars>>
    /\ Settle(connected, idle)

\* disposeByKey(): a session that is not busy is disconnected whoever holds it.
disposeConn(k) ==
    LET s == session_repo[k] IN
    IF s # NONE /\ ~isBusy(s) THEN [connected EXCEPT ![s] = FALSE] ELSE connected

dispose(k) ==
    /\ "dispose" \in Commands /\ Unlocked /\ session_repo[k] # NONE
    /\ session_repo' = [session_repo EXCEPT ![k] = NONE]
    /\ UNCHANGED <<io_active, cwd, scheme, client, service_vars>>
    /\ Settle(disposeConn(k), idle)

\* Time passes.
tick ==
    /\ \E s \in Referenced : idle[s] < Interval
    /\ idle' = [s \in Sessions |->
                  IF s \in Referenced /\ idle[s] < Interval THEN idle[s] + 1 ELSE idle[s]]
    /\ UNCHANGED <<session_repo, connected, io_active, cwd, scheme, client, service_vars>>

-----------------------------------------------------------------------------
(***************************************************************************)
(* The service task.                                                       *)
(***************************************************************************)

is_session_in_use(k) == k \in cwd

\* Mutation: only sessions that lost their connection are removed.
NeverDisposable(k) ==
    LET s == session_repo[k] IN
    /\ s # NONE /\ ~isBusy(s)
    /\ is_session_in_use(k) /\ ~connected[s]

Disposable(k) ==
    LET s == session_repo[k] IN
    /\ s # NONE /\ ~isBusy(s)
    /\ IF is_session_in_use(k) THEN ~connected[s] ELSE idle[s] >= Grace

NeedsKeepAlive(k) ==
    LET s == session_repo[k] IN
    /\ s # NONE /\ ~isBusy(s)
    /\ is_session_in_use(k) /\ connected[s] /\ idle[s] >= Interval

\* service(), first part, under the lock.
collect ==
    /\ svc = "sleep"
    /\ to_remove' = {k \in Keys : Disposable(k)}
    /\ to_check' = {[key |-> k, session |-> session_repo[k]] : k \in {k \in Keys : NeedsKeepAlive(k)}}
    /\ svc' = "check"
    /\ UNCHANGED <<session_repo, connected, io_active, idle, cwd, scheme, client, current>>

keepAliveOk(p) ==
    /\ svc = "check" /\ connected[p.session]
    /\ to_check' = to_check \ {p}
    /\ UNCHANGED <<session_repo, io_active, cwd, scheme, client, svc, to_remove, current>>
    /\ Settle(connected, [idle EXCEPT ![p.session] = 0])

\* keep_alive() is negative: connect() is tried next.
keepAliveFailed(p) ==
    /\ svc = "check"
    /\ ~connected[p.session] \/ (NetworkFails /\ scheme[p.key] = "csip")
    /\ connected' = [connected EXCEPT ![p.session] = FALSE]
    /\ svc' = "reconnect" /\ current' = p.key
    /\ UNCHANGED <<session_repo, io_active, idle, cwd, scheme, client, to_remove, to_check>>

reconnectOk(p) ==
    /\ svc = "reconnect" /\ p.key = current
    /\ to_check' = to_check \ {p}
    /\ svc' = "check" /\ current' = NONE
    /\ UNCHANGED <<session_repo, io_active, cwd, scheme, client, to_remove>>
    /\ Settle([connected EXCEPT ![p.session] = TRUE], [idle EXCEPT ![p.session] = 0])

\* Mutation: the session that cannot be reconnected is only logged.
ReconnectFailedKept(p) ==
    /\ svc = "reconnect" /\ p.key = current
    /\ to_check' = to_check \ {p}
    /\ svc' = "check" /\ current' = NONE
    /\ UNCHANGED <<session_repo, io_active, cwd, scheme, client, to_remove>>
    /\ Settle(connected, idle)

reconnectFailed(p) ==
    /\ svc = "reconnect" /\ p.key = current
    /\ NetworkFails
    /\ to_remove' = to_remove \cup {p.key}
    /\ to_check' = to_check \ {p}
    /\ svc' = "check" /\ current' = NONE
    /\ UNCHANGED <<session_repo, io_active, cwd, scheme, client>>
    /\ Settle(connected, idle)

\* lock() before the removal loop; without candidates the task goes to sleep.
startRemove ==
    /\ svc = "check" /\ to_check = {}
    /\ svc' = IF to_remove = {} THEN "sleep" ELSE "remove"
    /\ UNCHANGED <<session_repo, connected, io_active, idle, cwd, scheme, client, to_remove, to_check, current>>

\* disposeByKey() of a key on the list.  The list is not looked at again,
\* whatever has happened to the sessions since collect.
removeGone(k) ==
    /\ svc = "remove"
    /\ session_repo[k] # NONE => isBusy(session_repo[k])
    /\ session_repo' = [session_repo EXCEPT ![k] = NONE]
    /\ to_remove' = to_remove \ {k}
    /\ UNCHANGED <<io_active, cwd, scheme, client, svc, to_check, current>>
    /\ Settle(connected, idle)

\* The session was not busy when asked: disconnect() follows.
removeIdle(k) ==
    /\ svc = "remove"
    /\ session_repo[k] # NONE /\ ~isBusy(session_repo[k])
    /\ svc' = "disconnect" /\ current' = k
    /\ UNCHANGED <<session_repo, connected, io_active, idle, cwd, scheme, client, to_remove, to_check>>

disconnect ==
    /\ svc = "disconnect"
    /\ session_repo' = [session_repo EXCEPT ![current] = NONE]
    /\ to_remove' = to_remove \ {current}
    /\ svc' = "remove" /\ current' = NONE
    /\ UNCHANGED <<io_active, cwd, scheme, client, to_check>>
    /\ Settle([connected EXCEPT ![session_repo[current]] = FALSE], idle)

endRemove ==
    /\ svc = "remove" /\ to_remove = {}
    /\ svc' = "sleep"
    /\ UNCHANGED <<session_repo, connected, io_active, idle, cwd, scheme, client, to_remove, to_check, current>>

service ==
    \/ collect
    \/ \E p \in to_check : keepAliveOk(p) \/ keepAliveFailed(p) \/ reconnectOk(p) \/ reconnectFailed(p)
    \/ startRemove
    \/ \E k \in to_remove : removeGone(k) \/ removeIdle(k)
    \/ disconnect
    \/ endRemove

clientStep ==
    \E c \in Clients :
        \/ \E k \in Keys : findHit(c, k) \/ findMiss(c, k)
        \/ connectOk(c) \/ connectFailed(c) \/ add(c)
        \/ openFile(c) \/ acquireIO(c) \/ releaseIO(c) \/ closeDisconnected(c) \/ drop(c)

Next ==
    \/ clientStep
    \/ \E k \in Keys : changeDirectory(k) \/ dispose(k)
    \/ clear
    \/ tick
    \/ service

Spec == Init /\ [][Next]_vars

\* The service task runs every second and its network calls time out; the
\* clock goes on.
FairSpec == Spec /\ WF_vars(service) /\ WF_vars(tick)

-----------------------------------------------------------------------------
(***************************************************************************)
(* Properties.                                                             *)
(***************************************************************************)

\* Types, and a client past obtain() always has a session object.
TypeOK ==
    /\ session_repo \in [Keys -> Sessions \cup {NONE}]
    /\ connected \in [Sessions -> BOOLEAN]
    /\ io_active \in [Sessions -> Nat]
    /\ idle \in [Sessions -> {0, Grace, Interval}]
    /\ cwd \subseteq Keys
    /\ scheme \in [Keys -> Schemes]
    /\ client \in [Clients -> [st : {"idle", "connecting", "adding", "holding", "opened", "busy"},
                              key : Keys \cup {NONE}, session : Sessions \cup {NONE}]]
    /\ \A c \in Clients : client[c].st # "idle" => client[c].session # NONE
    /\ svc \in {"sleep", "check", "reconnect", "remove", "disconnect"}
    /\ to_remove \subseteq Keys
    /\ to_check \subseteq [key : Keys, session : Sessions]
    /\ current \in Keys \cup {NONE}

\* The streams open on session s.
OpenOn(s) == {c \in Clients : client[c].st = "busy" /\ client[c].session = s}

\* The busy counter of a session never falls below the number of streams open
\* on it, although its entry may be disposed of, cleared or replaced while they
\* are open; and as long as the session is in the repository it is that number,
\* so that no entry stays busy for ever.  Off the repository it can be more:
\* a TNFS stream whose session was disconnected before it was closed leaves its
\* count behind (tnfs.cpp:685-697).
IoBalanced ==
    \A s \in Sessions :
        /\ Cardinality(OpenOn(s)) <= io_active[s]
        /\ (\E k \in Keys : session_repo[k] = s) => io_active[s] = Cardinality(OpenOn(s))

\* A session that has lost its connection is handed out only as long as the
\* service task is busy replacing it: outside the lock, an entry that is not
\* connected is being reconnected or is on the list to be removed.
DeadSessionLeaves ==
    \A k \in Keys :
        session_repo[k] # NONE /\ ~connected[session_repo[k]] /\ Unlocked =>
            k \in to_remove \/ (svc = "reconnect" /\ k = current)

\* A session no directory points to and no client uses is disposed of in the
\* end and its connection closed.
UnusedDisposed ==
    \A k \in Keys :
        <>[](k \notin cwd /\ \A c \in Clients : client[c].key # k)
            => <>[](session_repo[k] = NONE)

\* "keep sessions alive if busy or recently active" (meat_session.h:560): what
\* service() is about to dispose of is neither, or has lost its connection.
RemovalStillJustified ==
    svc = "remove" =>
        \A k \in to_remove :
            LET s == session_repo[k] IN
            s # NONE => ~isBusy(s) /\ (idle[s] >= Grace \/ ~connected[s])
==============================================================================
