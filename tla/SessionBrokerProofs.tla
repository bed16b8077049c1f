------------------------- MODULE SessionBrokerProofs -------------------------
(***************************************************************************)
(* Proofs about SessionBroker for any number of hosts, clients and session *)
(* objects: types, the balance of the busy counters, and that a session    *)
(* without connection is on its way out of the repository.                 *)
(***************************************************************************)
EXTENDS SessionBroker, FiniteSetTheorems, TLAPS

States == {"idle", "connecting", "adding", "holding", "opened", "busy"}

\* The actions of client c.
Step(c) ==
    \/ \E k \in Keys : findHit(c, k) \/ findMiss(c, k)
    \/ connectOk(c) \/ connectFailed(c) \/ add(c)
    \/ openFile(c) \/ acquireIO(c) \/ releaseIO(c) \/ closeDisconnected(c) \/ drop(c)

-----------------------------------------------------------------------------
(* Types.                                                                  *)

LEMMA IdleRange == {0, Grace, Interval} = {0, 1, 2}
  BY DEF Grace, Interval

\* Settle() keeps the types of the connections and of the clock.
LEMMA SettleType ==
    ASSUME NEW conn \in [Sessions -> BOOLEAN],
           NEW time \in [Sessions -> {0, Grace, Interval}], Settle(conn, time)
    PROVE  /\ connected' \in [Sessions -> BOOLEAN]
           /\ idle' \in [Sessions -> {0, Grace, Interval}]
  <1>1. \A s \in Sessions : (conn[s] /\ s \in Referenced') \in BOOLEAN
    OBVIOUS
  <1>2. \A s \in Sessions : (IF s \in Referenced' THEN time[s] ELSE 0) \in {0, Grace, Interval}
    OBVIOUS
  <1>. QED
    BY <1>1, <1>2 DEF Settle

LEMMA ClientType ==
    ASSUME TypeOK, NEW c \in Clients, Step(c)
    PROVE  TypeOK'
  <1>. USE NONEAssumption DEF TypeOK
  <1>0. UNCHANGED <<cwd, scheme, svc, to_remove, to_check, current>>
    BY DEF Step, findHit, findMiss, connectOk, connectFailed, add, openFile,
           acquireIO, releaseIO, closeDisconnected, drop, service_vars
  <1>1. ASSUME NEW k \in Keys, findHit(c, k) PROVE TypeOK'
    BY <1>0, <1>1 DEF findHit
  <1>2. ASSUME NEW k \in Keys, findMiss(c, k) PROVE TypeOK'
    BY <1>0, <1>2 DEF findMiss
  <1>3. CASE connectOk(c)
    BY <1>0, <1>3 DEF connectOk
  <1>4. CASE add(c)
    BY <1>0, <1>4, ZenonT(40) DEF add
  <1>5. CASE openFile(c)
    BY <1>0, <1>5 DEF openFile
  <1>6. CASE acquireIO(c)
    BY <1>0, <1>6 DEF acquireIO
  <1>7. CASE releaseIO(c)
    BY <1>0, <1>7, SettleType DEF releaseIO, Free
  <1>8. CASE connectFailed(c) \/ closeDisconnected(c) \/ drop(c)
    BY <1>0, <1>8, SettleType, SMTT(30) DEF connectFailed, closeDisconnected, drop, Free
  <1>. QED
    BY <1>1, <1>2, <1>3, <1>4, <1>5, <1>6, <1>7, <1>8 DEF Step

LEMMA ServiceType == TypeOK /\ service => TypeOK'
  <1>. SUFFICES ASSUME TypeOK, service PROVE TypeOK'
    OBVIOUS
  <1>. USE NONEAssumption DEF TypeOK
  <1>1. CASE collect
    <2>1. \A k \in Keys : NeedsKeepAlive(k) => session_repo[k] \in Sessions
      BY DEF NeedsKeepAlive
    <2>. QED
      BY <1>1, <2>1 DEF collect
  <1>2. ASSUME NEW p \in to_check,
               keepAliveOk(p) \/ keepAliveFailed(p) \/ reconnectOk(p) \/ reconnectFailed(p)
        PROVE  TypeOK'
    <2>0. p.key \in Keys /\ p.session \in Sessions
      <3>1. to_check \subseteq [key : Keys, session : Sessions]
        OBVIOUS
      <3>. HIDE DEF TypeOK
      <3>. QED
        BY <3>1
    <2>1. CASE keepAliveOk(p)
      BY <2>0, <2>1, SettleType DEF keepAliveOk
    <2>2. CASE keepAliveFailed(p)
      BY <2>0, <2>2 DEF keepAliveFailed
    <2>3. CASE reconnectOk(p)
      <3>1. /\ [connected EXCEPT ![p.session] = TRUE] \in [Sessions -> BOOLEAN]
            /\ [idle EXCEPT ![p.session] = 0] \in [Sessions -> {0, Grace, Interval}]
        BY <2>0
      <3>2. /\ connected' \in [Sessions -> BOOLEAN]
            /\ idle' \in [Sessions -> {0, Grace, Interval}]
        BY <2>3, <3>1, SettleType DEF reconnectOk
      <3>. QED
        BY <2>3, <3>2 DEF reconnectOk
    <2>4. CASE reconnectFailed(p)
      BY <2>0, <2>4, SettleType DEF reconnectFailed
    <2>. QED
      BY <1>2, <2>1, <2>2, <2>3, <2>4
  <1>3. CASE startRemove
    BY <1>3 DEF startRemove
  <1>4. ASSUME NEW k \in to_remove, removeGone(k) PROVE TypeOK'
    BY <1>4, SettleType DEF removeGone
  <1>5. ASSUME NEW k \in to_remove, removeIdle(k) PROVE TypeOK'
    BY <1>5 DEF removeIdle
  <1>6. CASE disconnect
    BY <1>6, SettleType DEF disconnect
  <1>7. CASE endRemove
    BY <1>7 DEF endRemove
  <1>. QED
    BY <1>1, <1>2, <1>3, <1>4, <1>5, <1>6, <1>7 DEF service

LEMMA TypeStep == TypeOK /\ [Next]_vars => TypeOK'
  <1>. SUFFICES ASSUME TypeOK, [Next]_vars PROVE TypeOK'
    OBVIOUS
  <1>1. ASSUME NEW k \in Keys, changeDirectory(k) PROVE TypeOK'
    BY <1>1 DEF changeDirectory, TypeOK, service_vars
  <1>2. ASSUME NEW k \in Keys, dispose(k) PROVE TypeOK'
    <2>1. disposeConn(k) \in [Sessions -> BOOLEAN]
      BY DEF disposeConn, TypeOK
    <2>. QED
      BY <1>2, <2>1, SettleType DEF dispose, TypeOK, service_vars
  <1>3. CASE clear
    BY <1>3, SettleType DEF clear, TypeOK, service_vars
  <1>4. CASE tick
    <2>0. idle \in [Sessions -> {0, 1, 2}]
      BY IdleRange DEF TypeOK
    <2>1. idle' \in [Sessions -> {0, 1, 2}]
      BY <1>4, <2>0 DEF tick, Interval
    <2>. QED
      BY <1>4, <2>1, IdleRange DEF tick, TypeOK, service_vars
  <1>5. CASE UNCHANGED vars
    BY <1>5 DEF vars, TypeOK
  <1>. QED
    BY <1>1, <1>2, <1>3, <1>4, <1>5, ClientType, ServiceType DEF Next, clientStep, Step

LEMMA TypeInit == Init => TypeOK
  BY NONEAssumption DEF Init, TypeOK, Free

\* The members of the broker and of its sessions keep their types, and a
\* client past obtain() has a session, for any set of hosts and clients.
THEOREM TypeCorrect == Spec => []TypeOK
  BY TypeInit, TypeStep, PTL DEF Spec

-----------------------------------------------------------------------------
(* Sessions without connection.                                            *)

Known(s) ==
    (\E k \in Keys : session_repo[k] = s) \/ (\E p \in to_check : p.session = s)

\* A session that connects for the first time is known to its client only.
Fresh ==
    \A c \in Clients : client[c].st \in {"connecting", "adding"} =>
        /\ client[c].key \in Keys
        /\ ~Known(client[c].session)
        /\ \A d \in Clients \ {c} : client[d].session # client[c].session

\* No two hosts share a session, also not through the list of pings.
Apart ==
    /\ \A k, j \in Keys :
          session_repo[k] # NONE /\ session_repo[k] = session_repo[j] => k = j
    /\ \A p \in to_check : \A k \in Keys : session_repo[k] = p.session => k = p.key
    /\ \A p, q \in to_check : p.key = q.key => p = q

\* What is left of the lists in the phases of service().
Phases ==
    /\ svc \in {"sleep", "remove", "disconnect"} => to_check = {}
    /\ svc = "sleep" => to_remove = {}
    /\ svc = "disconnect" => current \in to_remove

Structure == Fresh /\ Apart /\ Phases

\* obtain() adds connected sessions only.
NewConnected == \A c \in Clients : client[c].st = "adding" => connected[client[c].session]

\* DeadSessionLeaves in every phase, and the session that is being reconnected
\* is the one service() holds.
DeadListed ==
    \A k \in Keys : session_repo[k] # NONE /\ ~connected[session_repo[k]] =>
        \/ k \in to_remove
        \/ /\ svc = "reconnect" /\ k = current
           /\ [key |-> k, session |-> session_repo[k]] \in to_check

BrokerInv == Structure /\ NewConnected /\ DeadListed

\* The repository and the list of pings only lose entries, and no client
\* takes over or makes a session.
LEMMA StructureShrinks ==
    ASSUME TypeOK, TypeOK', Fresh, Apart,
           \A k \in Keys : session_repo'[k] \in {session_repo[k], NONE},
           to_check' \subseteq to_check,
           \A c \in Clients :
              \/ client'[c] = client[c]
              \/ /\ client[c].st \in {"connecting", "adding"} <=>
                       client'[c].st \in {"connecting", "adding"}
                 /\ client'[c].session = client[c].session
                 /\ client'[c].key = client[c].key
              \/ client'[c].st \notin {"connecting", "adding"}
                 /\ client'[c].session \in {client[c].session, NONE}
    PROVE  Fresh' /\ Apart'
  <1>1. ASSUME NEW c \in Clients, client'[c].st \in {"connecting", "adding"}
        PROVE  /\ client'[c].key \in Keys
               /\ \A k \in Keys : session_repo'[k] # client'[c].session
               /\ \A p \in to_check' : p.session # client'[c].session
               /\ \A d \in Clients \ {c} : client'[d].session # client'[c].session
    <2>1. /\ client[c].st \in {"connecting", "adding"} /\ client[c].session \in Sessions
          /\ client'[c].key = client[c].key /\ client'[c].session = client[c].session
      BY <1>1 DEF TypeOK
    <2>2. \A d \in Clients : client'[d].session \in {client[d].session, NONE}
      OBVIOUS
    <2>. QED
      BY <2>1, <2>2, NONEAssumption DEF Fresh, Known
  <1>2. Apart'
    BY NONEAssumption DEF Apart, TypeOK
  <1>. QED
    BY <1>1, <1>2 DEF Fresh, Known

LEMMA StructureStep ==
    ASSUME TypeOK, TypeOK', Structure, [Next]_vars PROVE Structure'
  <1>. USE DEF Structure
  <1>1. ASSUME NEW c \in Clients, NEW k \in Keys, findHit(c, k) PROVE Structure'
    <2>1. Fresh'
      BY <1>1 DEF findHit, service_vars, Fresh, Known, TypeOK
    <2>2. Apart' /\ Phases'
      BY <1>1 DEF findHit, service_vars, Apart, Phases
    <2>. QED
      BY <2>1, <2>2
  <1>2. ASSUME NEW c \in Clients, NEW k \in Keys, findMiss(c, k) PROVE Structure'
    <2>1. PICK s \in Sessions \ Referenced :
             client' = [client EXCEPT ![c] = [st |-> "connecting", key |-> k, session |-> s]]
      BY <1>2 DEF findMiss
    <2>2. /\ ~Known(s) /\ s # NONE
          /\ \A d \in Clients : client[d].session # s
      BY <2>1, NONEAssumption DEF Referenced, Known
    <2>3. UNCHANGED <<session_repo, to_check, svc, to_remove, current>>
      BY <1>2 DEF findMiss, service_vars
    <2>4. Fresh'
      BY <2>1, <2>2, <2>3 DEF Fresh, Known, TypeOK
    <2>5. Apart' /\ Phases'
      BY <2>3 DEF Apart, Phases
    <2>. QED
      BY <2>4, <2>5
  <1>3. ASSUME NEW c \in Clients, add(c) PROVE Structure'
    <2>. DEFINE k == client[c].key
                s == client[c].session
    <2>1. /\ client[c].st = "adding" /\ k \in Keys /\ s \in Sessions
          /\ ~Known(s) /\ \A d \in Clients \ {c} : client[d].session # s
      BY <1>3 DEF add, Fresh, TypeOK
    <2>2. /\ session_repo' = IF session_repo[k] = NONE
                             THEN [session_repo EXCEPT ![k] = s] ELSE session_repo
          /\ client' = [client EXCEPT ![c].st = "holding"]
          /\ UNCHANGED <<to_check, svc, to_remove, current>>
      BY <1>3 DEF add, service_vars
    <2>3. \A j \in Keys : session_repo'[j] \in {session_repo[j], s}
      BY <2>1, <2>2 DEF TypeOK
    <2>4. Fresh'
      BY <2>1, <2>2, <2>3 DEF Fresh, Known, TypeOK
    <2>5. Apart'
      BY <2>1, <2>2, NONEAssumption DEF Apart, Known, TypeOK
    <2>6. Phases'
      BY <2>2 DEF Phases
    <2>. QED
      BY <2>4, <2>5, <2>6
  <1>4. ASSUME NEW c \in Clients,
               connectOk(c) \/ connectFailed(c) \/ openFile(c) \/ acquireIO(c)
                  \/ releaseIO(c) \/ closeDisconnected(c) \/ drop(c)
        PROVE  Structure'
    <2>1. UNCHANGED <<session_repo, to_check, svc, to_remove, current>>
      BY <1>4 DEF connectOk, connectFailed, openFile, acquireIO, releaseIO, closeDisconnected, drop, service_vars
    <2>2. \A d \in Clients :
              \/ client'[d] = client[d]
              \/ /\ client[d].st \in {"connecting", "adding"} <=>
                       client'[d].st \in {"connecting", "adding"}
                 /\ client'[d].session = client[d].session
                 /\ client'[d].key = client[d].key
              \/ client'[d].st \notin {"connecting", "adding"}
                 /\ client'[d].session \in {client[d].session, NONE}
      BY <1>4 DEF connectOk, connectFailed, openFile, acquireIO, releaseIO, closeDisconnected, drop, Free, TypeOK
    <2>3. Phases'
      BY <2>1 DEF Phases
    <2>. QED
      BY <2>1, <2>2, <2>3, StructureShrinks
  <1>5. CASE collect
    <2>1. Fresh'
      BY <1>5 DEF collect, Fresh, Known
    <2>2. Apart' /\ Phases'
      BY <1>5, NONEAssumption DEF collect, Apart, Phases, NeedsKeepAlive, TypeOK
    <2>. QED
      BY <2>1, <2>2
  <1>6. CASE \/ \E k \in Keys : changeDirectory(k) \/ dispose(k)
             \/ clear \/ tick \/ UNCHANGED vars
    <2>1. /\ \A k \in Keys : session_repo'[k] \in {session_repo[k], NONE}
          /\ UNCHANGED <<client, to_check, svc, to_remove, current>>
      BY <1>6 DEF changeDirectory, dispose, clear, tick, vars, service_vars, TypeOK
    <2>2. Phases'
      BY <2>1 DEF Phases
    <2>. QED
      BY <2>1, <2>2, StructureShrinks
  <1>7. CASE service /\ ~collect
    <2>1. /\ \A k \in Keys : session_repo'[k] \in {session_repo[k], NONE}
          /\ client' = client /\ to_check' \subseteq to_check
      BY <1>7 DEF service, keepAliveOk, keepAliveFailed, reconnectOk, reconnectFailed,
         startRemove, removeGone, removeIdle, disconnect, endRemove, TypeOK
    <2>2. Phases'
      BY <1>7 DEF service, keepAliveOk, keepAliveFailed, reconnectOk, reconnectFailed,
         startRemove, removeGone, removeIdle, disconnect, endRemove, Phases
    <2>. QED
      BY <2>1, <2>2, StructureShrinks
  <1>. QED
    BY <1>1, <1>2, <1>3, <1>4, <1>5, <1>6, <1>7 DEF Next, clientStep

\* Settle() takes the connection of no session that is still in the repository.
LEMMA SettleKeeps ==
    ASSUME NEW conn \in [Sessions -> BOOLEAN], NEW time, Settle(conn, time), TypeOK'
    PROVE  /\ \A k \in Keys : session_repo'[k] # NONE =>
                 connected'[session_repo'[k]] = conn[session_repo'[k]]
           /\ \A c \in Clients : client'[c].session # NONE =>
                 connected'[client'[c].session] = conn[client'[c].session]
  <1>1. \A s \in Referenced' \cap Sessions : connected'[s] = conn[s]
    BY DEF Settle
  <1>2. \A k \in Keys : session_repo'[k] # NONE => session_repo'[k] \in Referenced' \cap Sessions
    BY DEF TypeOK, Referenced
  <1>3. \A c \in Clients : client'[c].session # NONE => client'[c].session \in Referenced' \cap Sessions
    BY DEF TypeOK, Referenced
  <1>. QED
    BY <1>1, <1>2, <1>3

LEMMA NewConnectedStep ==
    ASSUME TypeOK, TypeOK', Structure, NewConnected, [Next]_vars PROVE NewConnected'
  <1>. SUFFICES ASSUME NEW c \in Clients, client'[c].st = "adding"
       PROVE  connected'[client'[c].session]
    BY DEF NewConnected
  <1>1. ASSUME client'[c] = client[c] PROVE connected[client[c].session]
    BY <1>1 DEF NewConnected
  <1>2. ASSUME client'[c] = client[c],
               NEW conn \in [Sessions -> BOOLEAN], NEW time, Settle(conn, time),
               conn[client[c].session] = connected[client[c].session]
        PROVE  connected'[client'[c].session]
    <2>1. client'[c].session \in Sessions /\ client'[c].session # NONE
      BY NONEAssumption DEF TypeOK
    <2>2. connected'[client'[c].session] = conn[client'[c].session]
      BY <1>2, <2>1, SettleKeeps
    <2>. QED
      BY <1>1, <1>2, <2>2
  <1>3. ASSUME NEW d \in Clients, Step(d) PROVE connected'[client'[c].session]
    <2>1. CASE connectOk(d)
      BY <2>1 DEF connectOk, TypeOK, NewConnected
    <2>2. CASE connectFailed(d) \/ releaseIO(d) \/ closeDisconnected(d) \/ drop(d)
      <3>1. client'[c] = client[c] /\ Settle(connected, idle)
        BY <2>2 DEF connectFailed, releaseIO, closeDisconnected, drop, Free, TypeOK
      <3>. QED
        BY <1>2, <3>1 DEF TypeOK
    <2>3. CASE \/ \E k \in Keys : findHit(d, k) \/ findMiss(d, k)
               \/ add(d) \/ openFile(d) \/ acquireIO(d)
      BY <1>1, <2>3 DEF findHit, findMiss, add, openFile, acquireIO, TypeOK
    <2>. QED
      BY <1>3, <2>1, <2>2, <2>3 DEF Step
  <1>4. ASSUME NEW k \in Keys, dispose(k) PROVE connected'[client'[c].session]
    <2>1. client' = client /\ Settle(disposeConn(k), idle)
      BY <1>4 DEF dispose
    <2>2. ~Known(client[c].session)
      BY <2>1 DEF Structure, Fresh
    <2>3. /\ disposeConn(k) \in [Sessions -> BOOLEAN]
          /\ disposeConn(k)[client[c].session] = connected[client[c].session]
      BY <2>1, <2>2 DEF disposeConn, Known, TypeOK
    <2>. QED
      BY <1>2, <2>1, <2>3
  <1>5. CASE clear
    BY <1>2, <1>5 DEF clear, TypeOK
  <1>6. CASE tick \/ (\E k \in Keys : changeDirectory(k)) \/ UNCHANGED vars
    BY <1>1, <1>6 DEF tick, changeDirectory, vars
  <1>7. CASE collect \/ startRemove \/ endRemove \/ \E k \in to_remove : removeIdle(k)
    BY <1>1, <1>7 DEF collect, startRemove, endRemove, removeIdle
  <1>8. ASSUME NEW p \in to_check,
               keepAliveOk(p) \/ keepAliveFailed(p) \/ reconnectOk(p) \/ reconnectFailed(p)
        PROVE  connected'[client'[c].session]
    <2>1. client' = client
      BY <1>8 DEF keepAliveOk, keepAliveFailed, reconnectOk, reconnectFailed
    <2>2. p.session # client[c].session
      BY <2>1 DEF Structure, Fresh, Known
    <2>3. CASE keepAliveFailed(p)
      BY <1>1, <2>1, <2>2, <2>3 DEF keepAliveFailed, TypeOK
    <2>4. CASE keepAliveOk(p) \/ reconnectOk(p) \/ reconnectFailed(p)
      <3>1. PICK conn, time : /\ Settle(conn, time)
                              /\ conn \in {connected, [connected EXCEPT ![p.session] = TRUE]}
        BY <2>4 DEF keepAliveOk, reconnectOk, reconnectFailed
      <3>2. /\ conn \in [Sessions -> BOOLEAN]
            /\ conn[client[c].session] = connected[client[c].session]
        BY <2>1, <2>2, <3>1 DEF TypeOK
      <3>. QED
        BY <1>2, <2>1, <3>1, <3>2
    <2>. QED
      BY <1>8, <2>3, <2>4
  <1>9. ASSUME NEW k \in to_remove, removeGone(k) PROVE connected'[client'[c].session]
    BY <1>2, <1>9 DEF removeGone, TypeOK
  <1>10. CASE disconnect
    <2>. DEFINE conn == [connected EXCEPT ![session_repo[current]] = FALSE]
    <2>1. client' = client /\ Settle(conn, idle) /\ current \in Keys
      BY <1>10 DEF disconnect, Structure, Phases, TypeOK
    <2>2. session_repo[current] # client[c].session
      BY <2>1 DEF Structure, Fresh, Known
    <2>3. conn \in [Sessions -> BOOLEAN] /\ conn[client[c].session] = connected[client[c].session]
      BY <2>1, <2>2 DEF TypeOK
    <2>. QED
      BY <1>2, <2>1, <2>3
  <1>. QED
    BY <1>3, <1>4, <1>5, <1>6, <1>7, <1>8, <1>9, <1>10 DEF Next, clientStep, Step, service

LEMMA DeadListedStep ==
    ASSUME TypeOK, TypeOK', Structure, NewConnected, DeadListed, [Next]_vars
    PROVE  DeadListed'
  <1>. USE DEF DeadListed
  <1>1. ASSUME NEW c \in Clients, Step(c) PROVE DeadListed'
    <2>1. UNCHANGED <<svc, to_remove, to_check, current>>
      BY <1>1 DEF Step, findHit, findMiss, connectOk, connectFailed, add, openFile,
             acquireIO, releaseIO, closeDisconnected, drop, service_vars
    <2>2. CASE connectFailed(c) \/ releaseIO(c) \/ closeDisconnected(c) \/ drop(c)
      <3>1. session_repo' = session_repo /\ Settle(connected, idle)
        BY <2>2 DEF connectFailed, releaseIO, closeDisconnected, drop
      <3>. QED
        BY <2>1, <3>1, SettleKeeps DEF TypeOK
    <2>3. CASE add(c)
      BY <2>1, <2>3 DEF add, NewConnected, TypeOK
    <2>4. CASE connectOk(c)
      BY <2>1, <2>4 DEF connectOk, TypeOK
    <2>5. CASE \/ \E k \in Keys : findHit(c, k) \/ findMiss(c, k)
               \/ openFile(c) \/ acquireIO(c)
      BY <2>1, <2>5 DEF findHit, findMiss, openFile, acquireIO
    <2>. QED
      BY <1>1, <2>2, <2>3, <2>4, <2>5 DEF Step
  <1>2. ASSUME NEW k \in Keys, dispose(k) PROVE DeadListed'
    <2>1. /\ Settle(disposeConn(k), idle)
          /\ session_repo' = [session_repo EXCEPT ![k] = NONE]
          /\ UNCHANGED <<svc, to_remove, to_check, current>>
      BY <1>2 DEF dispose, service_vars
    <2>2. disposeConn(k) \in [Sessions -> BOOLEAN]
      BY DEF disposeConn, TypeOK
    <2>3. \A j \in Keys : session_repo'[j] # NONE =>
             /\ session_repo'[j] = session_repo[j]
             /\ disposeConn(k)[session_repo[j]] = connected[session_repo[j]]
      BY <2>1 DEF disposeConn, Structure, Apart, TypeOK
    <2>. QED
      BY <2>1, <2>2, <2>3, SettleKeeps
  <1>3. CASE clear
    BY <1>3 DEF clear
  <1>4. CASE tick \/ (\E k \in Keys : changeDirectory(k)) \/ UNCHANGED vars
    BY <1>4 DEF tick, changeDirectory, vars, service_vars
  <1>5. CASE collect
    BY <1>5 DEF collect, Structure, Phases
  <1>6. CASE startRemove \/ endRemove \/ \E k \in to_remove : removeIdle(k)
    BY <1>6 DEF startRemove, endRemove, removeIdle
  <1>7. ASSUME NEW p \in to_check, keepAliveOk(p) PROVE DeadListed'
    BY <1>7, SettleKeeps DEF keepAliveOk, TypeOK
  <1>8. ASSUME NEW p \in to_check, keepAliveFailed(p) PROVE DeadListed'
    <2>1. p = [key |-> p.key, session |-> p.session] /\ p.session \in Sessions
      BY DEF TypeOK
    <2>2. \A k \in Keys : session_repo[k] = p.session => k = p.key
      BY DEF Structure, Apart
    <2>. QED
      BY <1>8, <2>1, <2>2 DEF keepAliveFailed, TypeOK
  <1>9. ASSUME NEW p \in to_check, reconnectOk(p) PROVE DeadListed'
    <2>. DEFINE conn == [connected EXCEPT ![p.session] = TRUE]
    <2>1. /\ Settle(conn, [idle EXCEPT ![p.session] = 0]) /\ p.key = current
          /\ UNCHANGED <<session_repo, to_remove>>
      BY <1>9 DEF reconnectOk
    <2>2. conn \in [Sessions -> BOOLEAN] /\ p.session \in Sessions
      BY DEF TypeOK
    <2>3. \A k \in Keys : [key |-> k, session |-> session_repo[k]] \in to_check /\ k = current
             => session_repo[k] = p.session
      BY <2>1 DEF Structure, Apart
    <2>4. \A k \in Keys : session_repo[k] # NONE /\ ~conn[session_repo[k]] =>
             ~connected[session_repo[k]] /\ session_repo[k] # p.session
      BY <2>2 DEF TypeOK
    <2>5. \A j \in Keys : session_repo'[j] # NONE =>
             connected'[session_repo'[j]] = conn[session_repo'[j]]
      BY <2>1, <2>2, SettleKeeps
    <2>. HIDE DEF conn
    <2>. QED
      BY <2>1, <2>3, <2>4, <2>5
  <1>10. ASSUME NEW p \in to_check, reconnectFailed(p) PROVE DeadListed'
    BY <1>10, SettleKeeps DEF reconnectFailed, TypeOK
  <1>11. ASSUME NEW k \in to_remove, removeGone(k) PROVE DeadListed'
    <2>1. \A j \in Keys : session_repo'[j] # NONE => j # k /\ session_repo'[j] = session_repo[j]
      BY <1>11 DEF removeGone, TypeOK
    <2>. QED
      BY <1>11, <2>1, SettleKeeps DEF removeGone, TypeOK
  <1>12. CASE disconnect
    <2>. DEFINE conn == [connected EXCEPT ![session_repo[current]] = FALSE]
    <2>1. /\ Settle(conn, idle) /\ current \in Keys
          /\ session_repo' = [session_repo EXCEPT ![current] = NONE]
          /\ to_remove' = to_remove \ {current} /\ svc = "disconnect"
      BY <1>12 DEF disconnect, Structure, Phases, TypeOK
    <2>2. conn \in [Sessions -> BOOLEAN]
      BY DEF TypeOK
    <2>3. \A j \in Keys : session_repo'[j] # NONE =>
             /\ j # current /\ session_repo'[j] = session_repo[j]
             /\ conn[session_repo[j]] = connected[session_repo[j]]
      BY <2>1 DEF Structure, Apart, TypeOK
    <2>4. \A j \in Keys : session_repo'[j] # NONE =>
             connected'[session_repo'[j]] = conn[session_repo'[j]]
      BY <2>1, <2>2, SettleKeeps
    <2>. HIDE DEF conn
    <2>. QED
      BY <2>1, <2>3, <2>4
  <1>. QED
    BY <1>1, <1>2, <1>3, <1>4, <1>5, <1>6, <1>7, <1>8, <1>9, <1>10, <1>11, <1>12
       DEF Next, clientStep, Step, service

LEMMA BrokerInit == Init => BrokerInv
  BY DEF Init, Free, BrokerInv, Structure, Fresh, Known, Apart, Phases, NewConnected,
     DeadListed

\* For any number of hosts and clients and any order of clear(), dispose(),
\* failing pings and late answers: a session without connection that is still
\* in the repository is being reconnected or is listed for removal.
THEOREM DeadLeave == Spec => []DeadSessionLeaves
  <1>1. TypeOK /\ TypeOK' /\ BrokerInv /\ [Next]_vars => BrokerInv'
    BY StructureStep, NewConnectedStep, DeadListedStep DEF BrokerInv
  <1>2. BrokerInv => DeadSessionLeaves
    BY DEF BrokerInv, DeadListed, DeadSessionLeaves
  <1>. QED
    BY TypeInit, TypeStep, BrokerInit, <1>1, <1>2, PTL DEF Spec

-----------------------------------------------------------------------------
(* Busy counters.                                                          *)

LEMMA OpenOnFinite == \A s : IsFiniteSet(OpenOn(s)) /\ Cardinality(OpenOn(s)) \in Nat
  BY ClientsAssumption, FS_Subset, FS_CardinalityType DEF OpenOn

\* A client that holds the session of an entry asked for that entry's key.
KeyKept ==
    \A c \in Clients : \A k \in Keys :
        client[c].session = session_repo[k] /\ session_repo[k] # NONE => client[c].key = k

\* A TNFS session loses its connection only when it leaves the repository.
TnfsConnected ==
    \A k \in Keys : scheme[k] = "tnfs" /\ session_repo[k] # NONE => connected[session_repo[k]]

\* A new object has counted nothing yet.
NewUnused ==
    \A c \in Clients : client[c].st \in {"connecting", "adding"} => io_active[client[c].session] = 0

CountInv == KeyKept /\ TnfsConnected /\ NewUnused

\* The steps that open no stream, close none and put nothing in the repository.
LEMMA IoSame ==
    ASSUME TypeOK, IoBalanced, io_active' = io_active,
           \A k \in Keys : session_repo'[k] \in {session_repo[k], NONE},
           \A c \in Clients :
              \/ client'[c] = client[c]
              \/ client[c].st # "busy" /\ client'[c].st # "busy"
    PROVE  IoBalanced'
  <1>1. \A s : OpenOn(s)' = OpenOn(s)
    BY DEF OpenOn
  <1>2. \A s \in Sessions : (\E k \in Keys : session_repo'[k] = s) => \E k \in Keys : session_repo[k] = s
    BY NONEAssumption
  <1>. QED
    BY <1>1, <1>2 DEF IoBalanced

LEMMA IoStep ==
    ASSUME TypeOK, Structure, CountInv, IoBalanced, [Next]_vars PROVE IoBalanced'
  <1>. DEFINE InRepo(s) == \E k \in Keys : session_repo[k] = s
  <1>0. \A s \in Sessions : /\ io_active[s] \in Nat /\ Cardinality(OpenOn(s)) \in Nat
                            /\ Cardinality(OpenOn(s)) <= io_active[s]
                            /\ InRepo(s) => io_active[s] = Cardinality(OpenOn(s))
    BY OpenOnFinite DEF IoBalanced, TypeOK
  <1>1. ASSUME NEW c \in Clients, acquireIO(c) PROVE IoBalanced'
    <2>0. PICK x \in Sessions : x = client[c].session
      BY <1>1 DEF acquireIO, TypeOK
    <2>1. /\ client[c].st = "opened" /\ x = client[c].session
          /\ io_active' = [io_active EXCEPT ![x] = @ + 1]
          /\ client' = [client EXCEPT ![c].st = "busy"]
          /\ session_repo' = session_repo
      BY <1>1, <2>0 DEF acquireIO
    <2>2. OpenOn(x)' = OpenOn(x) \cup {c} /\ c \notin OpenOn(x)
      BY <2>1 DEF OpenOn, TypeOK
    <2>3. Cardinality(OpenOn(x)') = Cardinality(OpenOn(x)) + 1
      BY <2>2, OpenOnFinite, FS_AddElement
    <2>4. \A s \in Sessions \ {x} : OpenOn(s)' = OpenOn(s)
      BY <2>1 DEF OpenOn, TypeOK
    <2>5. io_active'[x] = io_active[x] + 1 /\ \A s \in Sessions \ {x} : io_active'[s] = io_active[s]
      BY <2>1 DEF TypeOK
    <2>. SUFFICES ASSUME NEW s \in Sessions
         PROVE  /\ Cardinality(OpenOn(s)') <= io_active'[s]
                /\ InRepo(s) => io_active'[s] = Cardinality(OpenOn(s)')
      BY <2>1 DEF IoBalanced
    <2>6. CASE s = x
      BY <1>0, <2>3, <2>5, <2>6
    <2>7. CASE s # x
      BY <1>0, <2>4, <2>5, <2>7
    <2>. QED
      BY <2>6, <2>7
  <1>2. ASSUME NEW c \in Clients, releaseIO(c) PROVE IoBalanced'
    <2>0. PICK x \in Sessions : x = client[c].session
      BY <1>2 DEF releaseIO, TypeOK
    <2>1. /\ client[c].st = "busy" /\ x = client[c].session
          /\ io_active' = IF io_active[x] > 0 THEN [io_active EXCEPT ![x] = @ - 1] ELSE io_active
          /\ client' = [client EXCEPT ![c] = Free]
          /\ session_repo' = session_repo
      BY <1>2, <2>0 DEF releaseIO
    <2>2. OpenOn(x)' = OpenOn(x) \ {c} /\ c \in OpenOn(x)
      BY <2>1, NONEAssumption DEF OpenOn, TypeOK, Free
    <2>3. Cardinality(OpenOn(x)') = Cardinality(OpenOn(x)) - 1
      BY <2>2, OpenOnFinite, FS_RemoveElement
    <2>4. Cardinality(OpenOn(x)) # 0
      BY <2>2, OpenOnFinite, FS_EmptySet
    <2>5. \A s \in Sessions \ {x} : OpenOn(s)' = OpenOn(s)
      BY <2>1, NONEAssumption DEF OpenOn, TypeOK, Free
    <2>6. io_active[x] > 0
      BY <1>0, <2>4
    <2>7. io_active'[x] = io_active[x] - 1 /\ \A s \in Sessions \ {x} : io_active'[s] = io_active[s]
      BY <2>1, <2>6 DEF TypeOK
    <2>. SUFFICES ASSUME NEW s \in Sessions
         PROVE  /\ Cardinality(OpenOn(s)') <= io_active'[s]
                /\ InRepo(s) => io_active'[s] = Cardinality(OpenOn(s)')
      BY <2>1 DEF IoBalanced
    <2>8. CASE s = x
      BY <1>0, <2>3, <2>7, <2>8
    <2>9. CASE s # x
      BY <1>0, <2>5, <2>7, <2>9
    <2>. QED
      BY <2>8, <2>9
  <1>3. ASSUME NEW c \in Clients, closeDisconnected(c) PROVE IoBalanced'
    <2>0. PICK x \in Sessions : x = client[c].session
      BY <1>3 DEF closeDisconnected, TypeOK
    <2>1. /\ client[c].st = "busy" /\ x = client[c].session
          /\ client' = [client EXCEPT ![c] = Free]
          /\ io_active' = io_active /\ session_repo' = session_repo
          /\ scheme[client[c].key] = "tnfs" /\ ~connected[x]
      BY <1>3, <2>0 DEF closeDisconnected, stillOpen
    <2>2. ~InRepo(x)
      <3>1. ASSUME NEW k \in Keys, session_repo[k] = x PROVE FALSE
        <4>1. client[c].key = k /\ x # NONE
          BY <2>1, <3>1, NONEAssumption DEF CountInv, KeyKept
        <4>. QED
          BY <2>1, <3>1, <4>1 DEF CountInv, TnfsConnected
      <3>. QED
        BY <3>1
    <2>3. OpenOn(x)' = OpenOn(x) \ {c} /\ c \in OpenOn(x)
      BY <2>1, NONEAssumption DEF OpenOn, TypeOK, Free
    <2>4. Cardinality(OpenOn(x)') = Cardinality(OpenOn(x)) - 1
      BY <2>3, OpenOnFinite, FS_RemoveElement
    <2>5. \A s \in Sessions \ {x} : OpenOn(s)' = OpenOn(s)
      BY <2>1, NONEAssumption DEF OpenOn, TypeOK, Free
    <2>. SUFFICES ASSUME NEW s \in Sessions
         PROVE  /\ Cardinality(OpenOn(s)') <= io_active[s]
                /\ InRepo(s) => io_active[s] = Cardinality(OpenOn(s)')
      BY <2>1 DEF IoBalanced
    <2>6. CASE s = x
      BY <1>0, <2>2, <2>4, <2>6
    <2>7. CASE s # x
      BY <1>0, <2>5, <2>7
    <2>. QED
      BY <2>6, <2>7
  <1>4. ASSUME NEW c \in Clients, NEW k \in Keys, findMiss(c, k) PROVE IoBalanced'
    <2>1. PICK x \in Sessions \ Referenced :
             /\ client' = [client EXCEPT ![c] = [st |-> "connecting", key |-> k, session |-> x]]
             /\ io_active' = [io_active EXCEPT ![x] = 0]
      BY <1>4 DEF findMiss
    <2>2. client[c].st = "idle" /\ session_repo' = session_repo
      BY <1>4 DEF findMiss
    <2>3. ~InRepo(x) /\ \A d \in Clients : client[d].session # x
      BY <2>1, NONEAssumption DEF Referenced
    <2>4. OpenOn(x)' = {} /\ \A s \in Sessions : s # x => OpenOn(s)' = OpenOn(s)
      BY <2>1, <2>2, <2>3 DEF OpenOn, TypeOK
    <2>5. io_active'[x] = 0 /\ \A s \in Sessions \ {x} : io_active'[s] = io_active[s]
      BY <2>1 DEF TypeOK
    <2>. SUFFICES ASSUME NEW s \in Sessions
         PROVE  /\ Cardinality(OpenOn(s)') <= io_active'[s]
                /\ InRepo(s) => io_active'[s] = Cardinality(OpenOn(s)')
      BY <2>2 DEF IoBalanced
    <2>6. CASE s = x
      BY <2>3, <2>4, <2>5, <2>6, FS_EmptySet
    <2>7. CASE s # x
      BY <1>0, <2>4, <2>5, <2>7
    <2>. QED
      BY <2>6, <2>7
  <1>5. ASSUME NEW c \in Clients, add(c) PROVE IoBalanced'
    <2>0. PICK x \in Sessions : x = client[c].session
      BY <1>5 DEF add, TypeOK
    <2>1. /\ client[c].st = "adding"
          /\ client' = [client EXCEPT ![c].st = "holding"]
          /\ io_active' = io_active
          /\ \A k \in Keys : session_repo'[k] \in {session_repo[k], x}
      BY <1>5, <2>0 DEF add, TypeOK
    <2>2. io_active[x] = 0
      BY <2>0, <2>1 DEF CountInv, NewUnused
    <2>3. OpenOn(x) = {}
      BY <2>0, <2>1 DEF Structure, Fresh, OpenOn
    <2>4. \A s : OpenOn(s)' = OpenOn(s)
      BY <2>1 DEF OpenOn, TypeOK
    <2>5. ASSUME NEW s \in Sessions, s # x, \E k \in Keys : session_repo'[k] = s PROVE InRepo(s)
      BY <2>1, <2>5
    <2>. SUFFICES ASSUME NEW s \in Sessions
         PROVE  /\ Cardinality(OpenOn(s)) <= io_active[s]
                /\ (\E k \in Keys : session_repo'[k] = s) => io_active[s] = Cardinality(OpenOn(s))
      BY <2>1, <2>4 DEF IoBalanced
    <2>6. CASE s = x
      BY <1>0, <2>2, <2>3, <2>6, FS_EmptySet
    <2>7. CASE s # x
      BY <1>0, <2>5, <2>7
    <2>. QED
      BY <2>6, <2>7
  <1>6. ASSUME NEW c \in Clients,
               \/ \E k \in Keys : findHit(c, k)
               \/ connectOk(c) \/ connectFailed(c) \/ openFile(c) \/ drop(c)
        PROVE  IoBalanced'
    <2>1. /\ io_active' = io_active /\ session_repo' = session_repo
          /\ \A d \in Clients :
                \/ client'[d] = client[d]
                \/ client[d].st # "busy" /\ client'[d].st # "busy"
      BY <1>6 DEF findHit, connectOk, connectFailed, openFile, drop, Free, TypeOK
    <2>. QED
      BY <2>1, IoSame
  <1>7. CASE \/ \E k \in Keys : changeDirectory(k) \/ dispose(k)
             \/ clear \/ tick \/ service \/ UNCHANGED vars
    <2>1. /\ io_active' = io_active /\ client' = client
          /\ \A k \in Keys : session_repo'[k] \in {session_repo[k], NONE}
      BY <1>7 DEF changeDirectory, dispose, clear, tick, service, collect, keepAliveOk,
         keepAliveFailed, reconnectOk, reconnectFailed, startRemove, removeGone,
         removeIdle, disconnect, endRemove, vars, TypeOK
    <2>. QED
      BY <2>1, IoSame
  <1>. QED
    BY <1>1, <1>2, <1>3, <1>4, <1>5, <1>6, <1>7 DEF Next, clientStep

LEMMA KeyKeptStep == ASSUME TypeOK, Structure, KeyKept, [Next]_vars PROVE KeyKept'
  <1>1. ASSUME NEW c \in Clients, NEW k \in Keys, findHit(c, k) PROVE KeyKept'
    BY <1>1 DEF findHit, KeyKept, TypeOK, Structure, Apart
  <1>2. ASSUME NEW c \in Clients, NEW k \in Keys, findMiss(c, k) PROVE KeyKept'
    <2>1. PICK x \in Sessions \ Referenced :
             client' = [client EXCEPT ![c] = [st |-> "connecting", key |-> k, session |-> x]]
      BY <1>2 DEF findMiss
    <2>2. session_repo' = session_repo /\ \A j \in Keys : session_repo[j] # x
      BY <1>2, <2>1, NONEAssumption DEF findMiss, Referenced
    <2>. QED
      BY <2>1, <2>2 DEF KeyKept, TypeOK
  <1>3. ASSUME NEW c \in Clients, add(c) PROVE KeyKept'
    <2>1. /\ client[c].st = "adding" /\ client' = [client EXCEPT ![c].st = "holding"]
          /\ \A j \in Keys : session_repo'[j] = session_repo[j]
                \/ (j = client[c].key /\ session_repo'[j] = client[c].session)
      BY <1>3 DEF add, TypeOK
    <2>2. \A d \in Clients : client'[d].session = client[d].session /\ client'[d].key = client[d].key
      BY <2>1 DEF TypeOK
    <2>3. \A d \in Clients \ {c} : client[d].session # client[c].session
      BY <2>1 DEF Structure, Fresh
    <2>. QED
      BY <2>1, <2>2, <2>3 DEF KeyKept
  <1>4. ASSUME NEW c \in Clients,
               connectOk(c) \/ connectFailed(c) \/ openFile(c) \/ acquireIO(c)
                  \/ releaseIO(c) \/ closeDisconnected(c) \/ drop(c)
        PROVE  KeyKept'
    <2>1. /\ session_repo' = session_repo
          /\ \A d \in Clients :
                \/ client'[d].session = client[d].session /\ client'[d].key = client[d].key
                \/ client'[d].session = NONE
      BY <1>4 DEF connectOk, connectFailed, openFile, acquireIO, releaseIO, closeDisconnected,
         drop, Free, TypeOK
    <2>. QED
      BY <2>1 DEF KeyKept
  <1>5. CASE \/ \E k \in Keys : changeDirectory(k) \/ dispose(k)
             \/ clear \/ tick \/ service \/ UNCHANGED vars
    <2>1. /\ client' = client
          /\ \A k \in Keys : session_repo'[k] \in {session_repo[k], NONE}
      BY <1>5 DEF changeDirectory, dispose, clear, tick, service, collect, keepAliveOk,
         keepAliveFailed, reconnectOk, reconnectFailed, startRemove, removeGone,
         removeIdle, disconnect, endRemove, vars, TypeOK
    <2>. QED
      BY <2>1 DEF KeyKept
  <1>. QED
    BY <1>1, <1>2, <1>3, <1>4, <1>5 DEF Next, clientStep

LEMMA NewUnusedStep ==
    ASSUME TypeOK, Structure, NewUnused, [Next]_vars PROVE NewUnused'
  <1>. SUFFICES ASSUME NEW d \in Clients, client'[d].st \in {"connecting", "adding"}
       PROVE  io_active'[client'[d].session] = 0
    BY DEF NewUnused
  <1>1. ASSUME NEW c \in Clients, NEW k \in Keys, findMiss(c, k)
        PROVE  io_active'[client'[d].session] = 0
    BY <1>1 DEF findMiss, NewUnused, TypeOK
  <1>2. ASSUME NEW c \in Clients, acquireIO(c) PROVE io_active'[client'[d].session] = 0
    <2>1. d # c /\ client'[d] = client[d]
      BY <1>2 DEF acquireIO, TypeOK
    <2>2. client[d].session # client[c].session /\ io_active[client[d].session] = 0
      BY <2>1 DEF Structure, Fresh, NewUnused
    <2>. QED
      BY <1>2, <2>1, <2>2 DEF acquireIO, TypeOK
  <1>3. ASSUME NEW c \in Clients, releaseIO(c) PROVE io_active'[client'[d].session] = 0
    <2>1. d # c /\ client'[d] = client[d]
      BY <1>3 DEF releaseIO, TypeOK, Free
    <2>2. client[d].session # client[c].session /\ io_active[client[d].session] = 0
      BY <2>1 DEF Structure, Fresh, NewUnused
    <2>. QED
      BY <1>3, <2>1, <2>2 DEF releaseIO, TypeOK
  <1>4. ASSUME NEW c \in Clients,
               \/ \E k \in Keys : findHit(c, k)
               \/ connectOk(c) \/ connectFailed(c) \/ add(c) \/ openFile(c)
               \/ closeDisconnected(c) \/ drop(c)
        PROVE  io_active'[client'[d].session] = 0
    <2>1. /\ io_active' = io_active /\ client'[d].session = client[d].session
          /\ client[d].st \in {"connecting", "adding"}
      BY <1>4 DEF findHit, connectOk, connectFailed, add, openFile, closeDisconnected, drop,
         Free, TypeOK
    <2>. QED
      BY <2>1 DEF NewUnused
  <1>5. CASE \/ \E k \in Keys : changeDirectory(k) \/ dispose(k)
             \/ clear \/ tick \/ service \/ UNCHANGED vars
    <2>1. client' = client /\ io_active' = io_active
      BY <1>5 DEF changeDirectory, dispose, clear, tick, service, collect, keepAliveOk,
         keepAliveFailed, reconnectOk, reconnectFailed, startRemove, removeGone,
         removeIdle, disconnect, endRemove, vars
    <2>. QED
      BY <2>1 DEF NewUnused
  <1>. QED
    BY <1>1, <1>2, <1>3, <1>4, <1>5 DEF Next, clientStep

LEMMA TnfsConnectedStep ==
    ASSUME TypeOK, TypeOK', Structure, NewConnected, TnfsConnected, [Next]_vars
    PROVE  TnfsConnected'
  <1>0. scheme' = scheme
    BY DEF Next, clientStep, findHit, findMiss, connectOk, connectFailed, add, openFile,
       acquireIO, releaseIO, closeDisconnected, drop, changeDirectory, dispose, clear, tick,
       service, collect, keepAliveOk, keepAliveFailed, reconnectOk, reconnectFailed,
       startRemove, removeGone, removeIdle, disconnect, endRemove, vars
  <1>. USE <1>0 DEF TnfsConnected
  <1>1. ASSUME NEW conn \in [Sessions -> BOOLEAN], NEW time, Settle(conn, time),
               \A k \in Keys : session_repo'[k] # NONE =>
                   /\ session_repo'[k] = session_repo[k]
                   /\ connected[session_repo[k]] => conn[session_repo[k]]
        PROVE  TnfsConnected'
    BY <1>1, SettleKeeps
  <1>2. ASSUME NEW c \in Clients, Step(c) PROVE TnfsConnected'
    <2>1. CASE connectFailed(c) \/ releaseIO(c) \/ closeDisconnected(c) \/ drop(c)
      <3>1. session_repo' = session_repo /\ Settle(connected, idle)
        BY <2>1 DEF connectFailed, releaseIO, closeDisconnected, drop
      <3>. QED
        BY <1>1, <3>1 DEF TypeOK
    <2>2. CASE add(c)
      BY <2>2 DEF add, NewConnected, TypeOK
    <2>3. CASE connectOk(c)
      BY <2>3 DEF connectOk, TypeOK
    <2>4. CASE \/ \E k \in Keys : findHit(c, k) \/ findMiss(c, k)
               \/ openFile(c) \/ acquireIO(c)
      BY <2>4 DEF findHit, findMiss, openFile, acquireIO
    <2>. QED
      BY <1>2, <2>1, <2>2, <2>3, <2>4 DEF Step
  <1>3. ASSUME NEW k \in Keys, dispose(k) PROVE TnfsConnected'
    <2>1. /\ Settle(disposeConn(k), idle)
          /\ session_repo' = [session_repo EXCEPT ![k] = NONE]
      BY <1>3 DEF dispose
    <2>2. disposeConn(k) \in [Sessions -> BOOLEAN]
      BY DEF disposeConn, TypeOK
    <2>3. \A j \in Keys : session_repo'[j] # NONE =>
             /\ session_repo'[j] = session_repo[j]
             /\ disposeConn(k)[session_repo[j]] = connected[session_repo[j]]
      BY <2>1 DEF disposeConn, Structure, Apart, TypeOK
    <2>. QED
      BY <1>1, <2>1, <2>2, <2>3
  <1>4. CASE clear
    BY <1>4 DEF clear
  <1>5. CASE \/ tick \/ (\E k \in Keys : changeDirectory(k)) \/ UNCHANGED vars
             \/ collect \/ startRemove \/ endRemove \/ \E k \in to_remove : removeIdle(k)
    BY <1>5 DEF tick, changeDirectory, vars, collect, startRemove, endRemove, removeIdle
  <1>6. ASSUME NEW p \in to_check, keepAliveOk(p) \/ reconnectFailed(p) PROVE TnfsConnected'
    <2>1. /\ session_repo' = session_repo
          /\ \E time : Settle(connected, time)
      BY <1>6 DEF keepAliveOk, reconnectFailed
    <2>. QED
      BY <1>1, <2>1 DEF TypeOK
  <1>7. ASSUME NEW p \in to_check, keepAliveFailed(p) PROVE TnfsConnected'
    <2>1. /\ p.session \in Sessions /\ session_repo' = session_repo
          /\ connected' = [connected EXCEPT ![p.session] = FALSE]
          /\ ~connected[p.session] \/ scheme[p.key] = "csip"
      BY <1>7 DEF keepAliveFailed, TypeOK
    <2>2. \A k \in Keys : session_repo[k] = p.session => k = p.key
      BY DEF Structure, Apart
    <2>. QED
      BY <2>1, <2>2 DEF TypeOK
  <1>8. ASSUME NEW p \in to_check, reconnectOk(p) PROVE TnfsConnected'
    <2>. DEFINE conn == [connected EXCEPT ![p.session] = TRUE]
    <2>1. Settle(conn, [idle EXCEPT ![p.session] = 0]) /\ session_repo' = session_repo
      BY <1>8 DEF reconnectOk
    <2>2. conn \in [Sessions -> BOOLEAN] /\ \A s \in Sessions : connected[s] => conn[s]
      BY DEF TypeOK
    <2>3. \A k \in Keys : session_repo[k] # NONE => session_repo[k] \in Sessions
      BY DEF TypeOK
    <2>. HIDE DEF conn
    <2>. QED
      BY <1>1, <2>1, <2>2, <2>3
  <1>9. ASSUME NEW k \in to_remove, removeGone(k) PROVE TnfsConnected'
    <2>1. /\ Settle(connected, idle)
          /\ \A j \in Keys : session_repo'[j] # NONE => session_repo'[j] = session_repo[j]
      BY <1>9 DEF removeGone, TypeOK
    <2>. QED
      BY <1>1, <2>1 DEF TypeOK
  <1>10. CASE disconnect
    <2>. DEFINE conn == [connected EXCEPT ![session_repo[current]] = FALSE]
    <2>1. /\ Settle(conn, idle) /\ current \in Keys
          /\ session_repo' = [session_repo EXCEPT ![current] = NONE]
      BY <1>10 DEF disconnect, Structure, Phases, TypeOK
    <2>2. conn \in [Sessions -> BOOLEAN]
      BY DEF TypeOK
    <2>3. \A j \in Keys : session_repo'[j] # NONE =>
             /\ session_repo'[j] = session_repo[j]
             /\ conn[session_repo[j]] = connected[session_repo[j]]
      BY <2>1 DEF Structure, Apart, TypeOK
    <2>. HIDE DEF conn
    <2>. QED
      BY <1>1, <2>1, <2>2, <2>3
  <1>. QED
    BY <1>2, <1>3, <1>4, <1>5, <1>6, <1>7, <1>8, <1>9, <1>10 DEF Next, clientStep, Step, service

LEMMA CountInit == Init => CountInv /\ IoBalanced
  <1>. SUFFICES ASSUME Init PROVE CountInv /\ IoBalanced
    OBVIOUS
  <1>1. CountInv
    BY DEF Init, CountInv, KeyKept, TnfsConnected, NewUnused, Free
  <1>2. \A s : OpenOn(s) = {}
    BY DEF Init, OpenOn, Free
  <1>3. \A s \in Sessions : io_active[s] = 0
    BY DEF Init
  <1>. QED
    BY <1>1, <1>2, <1>3, FS_EmptySet DEF IoBalanced

\* isBusy() errs on the safe side, and not at all for a session in the
\* repository: for any number of hosts and clients, although entries are
\* disposed of, cleared and replaced under open streams, objects are reused and
\* a TNFS stream on a disconnected session does not give its count back.
THEOREM CountersBalanced == Spec => []IoBalanced
  <1>1. TypeOK /\ TypeOK' /\ BrokerInv /\ CountInv /\ IoBalanced /\ [Next]_vars
           => BrokerInv' /\ CountInv' /\ IoBalanced'
    BY StructureStep, NewConnectedStep, DeadListedStep, IoStep, KeyKeptStep, NewUnusedStep,
       TnfsConnectedStep DEF BrokerInv, CountInv
  <1>. QED
    BY TypeInit, TypeStep, BrokerInit, CountInit, <1>1, PTL DEF Spec
==============================================================================
