-------------------------- MODULE TunnelPacedProofs --------------------------
(* Proofs about TunnelPaced, for every number of connections, processes,     *)
(* callers and addresses and any retry limit: the properties of the run      *)
(* `paced`, and that the manager implements TunnelSlot.                      *)
EXTENDS TunnelPaced, TunnelManagerProofs

-----------------------------------------------------------------------------
(* A process is published once, by whoever started it, and its name is free  *)
(* until then: no goroutine is written over by another one of its name.      *)
(* This holds for every schedule.                                            *)

\* Connects that hold a process they started.
Holds(k) == caller[k].pc \in {"started", "stored"}

Unpublished(q) == monitor[q].pc = "none" /\ recon[q].pc = "none"

HoldInv ==
  /\ \A p \in Procs : recon[p].pc # "none" => AutoReconnect /\ monitor[p].pc = "none"
  /\ \A k \in Callers : Holds(k) => Unpublished(caller[k].proc)
  /\ \A p \in Procs : recon[p].pc = "started" => Unpublished(recon[p].proc)
  /\ \A j, k \in Callers : Holds(j) /\ Holds(k) /\ caller[j].proc = caller[k].proc => j = k
  /\ \A p, q \in Procs :
       recon[p].pc = "started" /\ recon[q].pc = "started" /\ recon[p].proc = recon[q].proc => p = q
  /\ \A k \in Callers, p \in Procs :
       Holds(k) /\ recon[p].pc = "started" => caller[k].proc # recon[p].proc

\* Steps that start no process, hand none over and name no new goroutine.
LEMMA HoldFrame ==
  ASSUME TypeInv, HoldInv,
         \A k \in Callers : Holds(k)' => Holds(k) /\ caller'[k].proc = caller[k].proc,
         \A p \in Procs : /\ monitor'[p].pc # "none" => monitor[p].pc # "none"
                          /\ recon'[p].pc # "none" => recon[p].pc # "none"
                          /\ recon'[p].pc = "started" =>
                               recon[p].pc = "started" /\ recon'[p].proc = recon[p].proc
  PROVE  HoldInv'
BY DEF TypeInv, TypeOK, CallersHold, ReconsHold, HoldInv, Holds, Unpublished

LEMMA HoldConnect ==
  ASSUME TypeInv, HoldInv, NEW k \in Callers, ConnectStep(k)
  PROVE  HoldInv'
<1> USE DEF TypeInv, TypeOK
<1>1. CASE ConnectBegin(k) \/ ConnectFail(k) \/ ConnectStore(k) \/ ConnectLost(k)
  <2>1. monitor' = monitor /\ recon' = recon /\ \A j \in Callers \ {k} : caller'[j] = caller[j]
    BY <1>1 DEF ConnectBegin, ConnectFail, ConnectStore, ConnectLost
  <2>2. Holds(k)' => Holds(k) /\ caller'[k].proc = caller[k].proc
    BY <1>1, Idle DEF ConnectBegin, ConnectFail, ConnectStore, ConnectLost, Holds, CallerRec
  <2>3. \A j \in Callers : Holds(j)' => Holds(j) /\ caller'[j].proc = caller[j].proc
    BY <2>1, <2>2 DEF Holds
  <2> QED
    BY <2>1, <2>3, HoldFrame
<1>2. ASSUME NEW c \in Conns, NEW q \in Procs, NEW ip \in IPs, ConnectStart(k, c, q, ip)
      PROVE  HoldInv'
  <2>1. /\ UNCHANGED <<monitor, recon>> /\ FreeProc(q)
        /\ caller'[k] = [pc |-> "started", conn |-> c, proc |-> q]
        /\ \A j \in Callers \ {k} : caller'[j] = caller[j]
    BY <1>2 DEF ConnectStart
  <2>2. Unpublished(q) /\ \A j \in Callers : caller[j].proc # q
    BY <2>1 DEF FreeProc, Unpublished
  <2>3. \A p \in Procs : recon[p].proc # q
    BY <2>1 DEF FreeProc
  <2>4. \A j \in Callers \ {k} : Holds(j)' <=> Holds(j)
    BY <2>1 DEF Holds
  <2> QED
    BY <2>1, <2>2, <2>3, <2>4 DEF HoldInv, Unpublished
<1>3. CASE ConnectDone(k)
  <2> DEFINE q == caller[k].proc
  <2>1. Holds(k) /\ q \in Procs /\ recon' = recon
    BY <1>3 DEF ConnectDone, Holds, CallersHold
  <2>2. /\ ~Holds(k)'
        /\ \A j \in Callers \ {k} : caller'[j] = caller[j] /\ (Holds(j)' <=> Holds(j))
    BY <1>3, Idle DEF ConnectDone, Holds
  <2>3. \A p \in Procs \ {q} : monitor'[p] = monitor[p]
    BY <1>3 DEF ConnectDone, GoMonitor
  <2>4. recon[q].pc = "none" /\ \A p \in Procs : recon[p].pc = "started" => recon[p].proc # q
    BY <2>1 DEF HoldInv, Unpublished
  <2>5. \A j \in Callers \ {k} : Holds(j) => caller[j].proc # q
    BY <2>1 DEF HoldInv
  <2> HIDE DEF q
  <2> QED
    BY <2>1, <2>2, <2>3, <2>4, <2>5 DEF HoldInv, Unpublished, CallersHold, ReconsHold, Holds
<1> QED
  BY <1>1, <1>2, <1>3 DEF ConnectStep

LEMMA HoldMonitor ==
  ASSUME TypeInv, HoldInv, NEW p \in Procs, MonitorStep(p)
  PROVE  HoldInv'
<1> USE DEF TypeInv, TypeOK
<1>1. caller' = caller /\ \A q \in Procs \ {p} : monitor'[q] = monitor[q] /\ recon'[q] = recon[q]
  BY DEF MonitorStep, MonitorLookup, MonitorWait, MonitorStopped, MonitorExit, MonitorTimer,
     MonitorUnconfirmed, MonitorConfirm, ExitIgnored, ExitRetried, ExitFinal
<1>2. CASE ExitRetried(p)
  <2>1. AutoReconnect /\ monitor[p].pc = "exited" /\ monitor'[p].pc = "none"
        /\ recon'[p].pc = "spawned"
    BY <1>2, Idle DEF ExitRetried, Spawned, NoRecon
  <2>2. /\ \A k \in Callers : Holds(k) => caller[k].proc # p
        /\ \A q \in Procs : recon[q].pc = "started" => recon[q].proc # p
    BY <2>1 DEF HoldInv, Unpublished
  <2> QED
    BY <1>1, <2>1, <2>2 DEF HoldInv, Unpublished, Holds, CallersHold, ReconsHold
<1>3. CASE ~ExitRetried(p)
  <2>1. recon' = recon /\ monitor[p].pc # "none"
    BY <1>3 DEF MonitorStep, MonitorLookup, MonitorWait, MonitorStopped, MonitorExit,
       MonitorSeesExit, MonitorTimer, MonitorUnconfirmed, MonitorConfirm, ExitIgnored, ExitFinal
  <2> QED
    BY <1>1, <2>1, HoldFrame DEF Holds
<1> QED
  BY <1>2, <1>3

LEMMA HoldRecon ==
  ASSUME TypeInv, HoldInv, NEW p \in Procs, ReconStep(p)
  PROVE  HoldInv'
<1> USE DEF TypeInv, TypeOK
<1>1. CASE \/ ReconLookup(p) \/ ReconWake(p) \/ ReconFail(p) \/ ReconAbort(p) \/ ReconExhaust(p)
  <2>1. /\ UNCHANGED <<caller, monitor>> /\ \A q \in Procs \ {p} : recon'[q] = recon[q]
        /\ recon[p].pc # "none"
    BY <1>1 DEF ReconLookup, ReconWake, ReconFail, ReconAbort, ReconExhaust
  <2>2. recon'[p].pc # "started"
    <3>1. CASE ReconLookup(p) \/ ReconWake(p)
      <4>1. recon[p] \in ReconRec
        OBVIOUS
      <4>2. \/ recon'[p] = NoRecon
            \/ recon'[p] = [recon[p] EXCEPT !.pc = "waiting", !.conn = slot]
            \/ recon'[p] = [recon[p] EXCEPT !.pc = "resolving"]
        BY <3>1 DEF ReconLookup, ReconWake
      <4> QED
        BY <4>1, <4>2, Idle DEF ReconRec
    <3>2. CASE ReconFail(p)
      BY <3>2 DEF ReconFail, ReconRec
    <3>3. CASE ReconAbort(p) \/ ReconExhaust(p)
      BY <3>3, Idle DEF ReconAbort, ReconExhaust
    <3> QED
      BY <1>1, <3>1, <3>2, <3>3
  <2> QED
    BY <2>1, <2>2, HoldFrame DEF Holds
<1>2. ASSUME NEW q \in Procs, NEW ip \in IPs, ReconStart(p, q, ip)
      PROVE  HoldInv'
  <2>1. /\ UNCHANGED <<caller, monitor>> /\ \A r \in Procs \ {p} : recon'[r] = recon[r]
        /\ recon[p].pc = "resolving" /\ recon'[p].pc = "started" /\ recon'[p].proc = q
    BY <1>2 DEF ReconStart, ReconRec
  <2>2. Unpublished(q) /\ \A k \in Callers : caller[k].proc # q
    BY <1>2 DEF ReconStart, FreeProc, Unpublished
  <2>3. \A r \in Procs : recon[r].proc # q
    BY <1>2 DEF ReconStart, FreeProc
  <2>4. q # p
    BY <2>1, <2>2 DEF Unpublished
  <2> QED
    BY <2>1, <2>2, <2>3, <2>4 DEF HoldInv, Unpublished, Holds, CallersHold, ReconsHold
<1>3. CASE ReconPublish(p)
  <2> DEFINE q == recon[p].proc
  <2>1. recon[p].pc = "started" /\ q \in Procs /\ caller' = caller /\ recon'[p].pc = "none"
    BY <1>3, Idle DEF ReconPublish, ReconsHold
  <2>2. \A r \in Procs : /\ r # q => monitor'[r] = monitor[r]
                         /\ r # p => recon'[r] = recon[r]
    BY <1>3 DEF ReconPublish, GoMonitor
  <2>3. /\ recon[q].pc = "none" /\ q # p
        /\ \A r \in Procs \ {p} : recon[r].pc = "started" => recon[r].proc # q
        /\ \A k \in Callers : Holds(k) => caller[k].proc # q
    BY <2>1 DEF HoldInv, Unpublished
  <2> HIDE DEF q
  <2> QED
    BY <2>1, <2>2, <2>3 DEF HoldInv, Unpublished, CallersHold, ReconsHold, Holds
<1> QED
  BY <1>1, <1>2, <1>3 DEF ReconStep

LEMMA HoldNext == TypeInv /\ HoldInv /\ [Next]_vars => HoldInv'
<1> SUFFICES ASSUME TypeInv, HoldInv, [Next]_vars PROVE HoldInv'
  OBVIOUS
<1>1. CASE UNCHANGED <<caller, monitor, recon>>
  BY <1>1, HoldFrame DEF Holds
<1>2. ASSUME Disconnect \/ \E p \in Procs : ProcExit(p) \/ BeatStep(p)
      PROVE  UNCHANGED <<caller, monitor, recon>>
  BY <1>2 DEF Disconnect, ProcExit, BeatStep, BeatStop, BeatTick, BeatMiss, BeatSuperseded,
     BeatSatisfied, BeatCondemns, BeatKill
<1> QED
  BY <1>1, <1>2, HoldConnect, HoldMonitor, HoldRecon DEF Next, vars

-----------------------------------------------------------------------------
(* Who looks after the connection in the map, and what it may count on.      *)

\* Whoever is in a gap is there because of the connection that is in the map;
\* the monitors of others find their StopCh closed.
Bridged ==
  /\ slot = NoConn => Settled
  /\ \A k \in Callers : caller[k].pc = "stored" => caller[k].conn = slot
  /\ \A p \in Procs :
       /\ monitor[p].pc \in {"confirm", "exited"} => monitor[p].conn = slot
       /\ monitor[p].pc \notin {"none", "spawned"} =>
            monitor[p].conn = slot \/ conn[monitor[p].conn].stopped

\* The monitor of the connection in the map: it watches the connection's process,
\* and until it has confirmed it nothing says "running" or asks for a restart.
Tended ==
  \A p \in Procs : Tends(p) =>
    /\ conn[slot].proc = p
    /\ monitor[p].pc \notin {"spawned", "attach"} => monitor[p].proc = p
    /\ monitor[p].pc = "exited" => proc[p].state = "dead"
    /\ \/ conn[slot].status \in {"connecting", "running"}
       \/ AutoReconnect /\ conn[slot].status = "disconnected"
    /\ monitor[p].pc \notin {"running", "exited"} =>
         conn[slot].status # "running" /\ ~conn[slot].ddnsRestart

\* Its autoReconnect: the process to be replaced is dead.
Retried ==
  \A p \in Procs : Retries(p) => /\ conn[slot].status = "disconnected"
                                 /\ ~conn[slot].ddnsRestart
                                 /\ proc[conn[slot].proc].state = "dead"

\* A Connect under way: nobody else knows its connection.
Begun ==
  \A k \in Callers : Holds(k) =>
    /\ conn[caller[k].conn].proc = caller[k].proc
    /\ conn[caller[k].conn].status = "connecting"
    /\ ~conn[caller[k].conn].ddnsRestart
    /\ \A p \in Procs : monitor[p].conn # caller[k].conn /\ recon[p].conn # caller[k].conn

PacedInv == Bridged /\ OneAttends /\ Tended /\ Retried /\ Begun

LEMMA SlotThere ==
  ASSUME TypeInv, Bridged, NEW p \in Procs, Tends(p) \/ Retries(p)
  PROVE  slot \in Conns
BY DEF TypeInv, TypeOK, MaybeConn, MonitorsHold, ReconsHold, Bridged, Settled, Tends, Retries

\* The connection in the map is not the one of a Connect that will still store.
LEMMA SlotApart ==
  ASSUME TypeInv, StopInv, PacedInv, NEW k \in Callers, Holds(k), NEW p \in Procs,
         Tends(p) \/ Retries(p)
  PROVE  caller[k].pc = "started" /\ caller[k].conn # slot
BY DEF StopInv, StartedFresh, PacedInv, OneAttends, Holds

\* Killing leaves the dead dead.
LEMMA KillDead ==
  ASSUME proc \in [Procs -> ProcRec], NEW q
  PROVE  \A r \in Procs : proc[r].state = "dead" => Killed(proc, q)[r].state = "dead"
BY DEF Killed, ProcRec

\* Steps in which nobody takes over or leaves a connection.
LEMMA PacedFrame ==
  ASSUME TypeInv, PacedInv, UNCHANGED <<slot, monitor, recon>>,
         \A k \in Callers : Holds(k)' => caller'[k] = caller[k],
         \A c \in Conns :
           /\ conn'[c].proc = conn[c].proc
           /\ conn'[c].status = conn[c].status
           /\ conn'[c].stopped = conn[c].stopped
           /\ conn'[c].ddnsRestart => conn[c].ddnsRestart \/ conn[c].status = "running",
         \A q \in Procs : proc[q].state = "dead" => proc'[q].state = "dead"
  PROVE  PacedInv'
<1> USE DEF TypeInv, TypeOK, PacedInv
<1>1. \A p \in Procs : (Tends(p)' <=> Tends(p)) /\ (Retries(p)' <=> Retries(p))
  BY DEF Tends, Retries
<1>2. \A k \in Callers : /\ Holds(k)' => Holds(k)
                         /\ caller'[k].pc = "stored" => caller'[k] = caller[k]
  BY DEF Holds
<1>3. \A p \in Procs : Tends(p) \/ Retries(p) => slot \in Conns
  BY SlotThere
<1>4. Bridged'
  BY <1>2 DEF Bridged, Settled, MonitorsHold
<1>5. OneAttends'
  BY <1>1, <1>2 DEF OneAttends
<1>6. Tended'
  BY <1>1, <1>3 DEF Tended
<1>7. Retried'
  <2>1. \A p \in Procs : Retries(p) => conn[slot].proc \in Procs
    BY <1>3 DEF Retries, Allocated, FreeConn, ConnRec, MaybeProc
  <2> QED
    BY <1>1, <1>3, <2>1 DEF Retried
<1>8. Begun'
  BY <1>2 DEF Begun, CallersHold, Holds
<1> QED
  BY <1>4, <1>5, <1>6, <1>7, <1>8

LEMMA PacedConnect ==
  ASSUME TypeInv, StopInv, HoldInv, PacedInv, Paced, NEW k \in Callers, ConnectStep(k)
  PROVE  PacedInv'
<1> USE DEF TypeInv, TypeOK
<1>1. CASE ConnectBegin(k) \/ ConnectFail(k) \/ ConnectLost(k)
  <2>1. /\ UNCHANGED <<slot, conn, monitor, recon>>
        /\ \A j \in Callers \ {k} : caller'[j] = caller[j]
        /\ ~Holds(k)'
    BY <1>1, Idle DEF ConnectBegin, ConnectFail, ConnectLost, Holds, CallerRec
  <2>2. \A q \in Procs : proc[q].state = "dead" => proc'[q].state = "dead"
    BY <1>1, KillDead DEF ConnectBegin, ConnectFail, ConnectLost
  <2>3. \A j \in Callers : Holds(j)' => caller'[j] = caller[j]
    BY <2>1
  <2> QED
    BY <2>1, <2>2, <2>3, PacedFrame
<1>2. ASSUME NEW c \in Conns, NEW q \in Procs, NEW ip \in IPs, ConnectStart(k, c, q, ip)
      PROVE  PacedInv'
  <2>1. /\ UNCHANGED <<slot, monitor, recon>> /\ FreeConn(c) /\ FreeProc(q)
        /\ conn' = [conn EXCEPT ![c] = NewConn(q, ip)]
        /\ caller[k].pc = "resolving"
        /\ caller' = [caller EXCEPT ![k] = [pc |-> "started", conn |-> c, proc |-> q]]
        /\ proc' = Started(proc, q, ip)
    BY <1>2 DEF ConnectStart
  <2>2. /\ slot # c
        /\ \A p \in Procs : monitor[p].conn # c /\ recon[p].conn # c
        /\ \A j \in Callers : caller[j].conn # c
    BY <2>1 DEF FreeConn
  <2>3. /\ \A d \in Conns : conn[d].proc # q
        /\ \A r \in Procs \ {q} : proc'[r] = proc[r]
    BY <2>1 DEF FreeProc, Started
  <2>4. /\ conn'[c].proc = q /\ conn'[c].status = "connecting" /\ ~conn'[c].ddnsRestart
        /\ \A d \in Conns \ {c} : conn'[d] = conn[d]
    BY <2>1 DEF NewConn
  <2>5. /\ caller'[k].pc = "started" /\ caller'[k].conn = c /\ caller'[k].proc = q
        /\ \A j \in Callers \ {k} : caller'[j] = caller[j]
    BY <2>1
  <2>6. \A p \in Procs : (Tends(p)' <=> Tends(p)) /\ (Retries(p)' <=> Retries(p))
    BY <2>1 DEF Tends, Retries
  <2>7. \A p \in Procs : Tends(p) \/ Retries(p) => slot \in Conns
    BY SlotThere DEF PacedInv
  <2>8. Bridged'
    BY <2>1, <2>2, <2>4, <2>5 DEF PacedInv, Bridged, Settled, MonitorsHold
  <2>9. OneAttends'
    BY <2>5, <2>6 DEF PacedInv, OneAttends
  <2>10. Tended'
    BY <2>1, <2>2, <2>3, <2>4, <2>6, <2>7 DEF PacedInv, Tended
  <2>11. Retried'
    <3>1. \A p \in Procs : Retries(p) => conn[slot].proc \in Procs
      BY <2>7 DEF Retries, Allocated, FreeConn, ConnRec, MaybeProc
    <3> QED
      BY <2>1, <2>2, <2>3, <2>4, <2>6, <2>7, <3>1 DEF PacedInv, Retried
  <2>12. Begun'
    BY <2>1, <2>2, <2>4, <2>5 DEF PacedInv, Begun, CallersHold, Holds
  <2> QED
    BY <2>8, <2>9, <2>10, <2>11, <2>12 DEF PacedInv
<1>3. CASE ConnectStore(k)
  <2>1. /\ UNCHANGED <<conn, proc, monitor, recon>>
        /\ caller[k].pc = "started" /\ slot = NoConn /\ slot' = caller[k].conn
        /\ caller' = [caller EXCEPT ![k].pc = "stored"]
    BY <1>3 DEF ConnectStore
  <2>2. /\ caller'[k].pc = "stored" /\ caller'[k].conn = caller[k].conn
        /\ caller'[k].proc = caller[k].proc
        /\ \A j \in Callers \ {k} : caller'[j] = caller[j]
    BY <2>1 DEF CallerRec
  <2>3. slot' \in Conns /\ slot' # NoConn
    BY <2>1, NullAssumption DEF CallersHold
  <2>4. Settled
    BY <2>1 DEF PacedInv, Bridged
  <2>5. \A p \in Procs : ~Tends(p)' /\ ~Retries(p)'
    BY <2>1, <2>4 DEF PacedInv, Begun, Holds, Settled, Tends, Retries
  <2>6. Bridged'
    BY <2>1, <2>2, <2>3, <2>4, NullAssumption DEF PacedInv, Bridged, Settled, MonitorsHold
  <2>7. OneAttends'
    BY <2>2, <2>4, <2>5 DEF OneAttends, Settled
  <2>8. Tended' /\ Retried'
    BY <2>5 DEF Tended, Retried
  <2>9. Begun'
    BY <2>1, <2>2 DEF PacedInv, Begun, Holds
  <2> QED
    BY <2>6, <2>7, <2>8, <2>9 DEF PacedInv
<1>4. CASE ConnectDone(k)
  <2> DEFINE q == caller[k].proc
  <2>1. /\ UNCHANGED <<slot, conn, proc, recon>> /\ caller[k].pc = "stored" /\ q \in Procs
        /\ caller[k].conn = slot /\ slot \in Conns
    BY <1>4 DEF ConnectDone, CallersHold, PacedInv, Bridged
  <2>2. /\ caller'[k].pc = "idle" /\ ~Holds(k)'
        /\ \A j \in Callers \ {k} : caller'[j] = caller[j] /\ (Holds(j)' <=> Holds(j))
    BY <1>4, Idle DEF ConnectDone, Holds
  <2>3. /\ monitor'[q].pc = "spawned" /\ monitor'[q].conn = NoConn
        /\ \A p \in Procs \ {q} : monitor'[p] = monitor[p]
    BY <1>4, <2>1, Idle DEF ConnectDone, GoMonitor
  <2>4. /\ \A p \in Procs : ~Tends(p) /\ ~Retries(p)
        /\ \A j \in Callers \ {k} : caller[j].pc # "stored"
    BY <2>1 DEF PacedInv, OneAttends
  <2>5. /\ conn[slot].proc = q /\ conn[slot].status = "connecting" /\ ~conn[slot].ddnsRestart
    BY <2>1 DEF PacedInv, Begun, Holds
  <2> HIDE DEF q
  <2>6. /\ \A p \in Procs : Tends(p)' <=> p = q
        /\ \A p \in Procs : ~Retries(p)'
    BY <2>1, <2>3, <2>4 DEF Tends, Retries
  <2>7. Bridged'
    BY <2>1, <2>2, <2>3, <2>4, NullAssumption DEF PacedInv, Bridged
  <2>8. OneAttends'
    BY <2>2, <2>4, <2>6 DEF OneAttends
  <2>9. Tended' /\ Retried'
    BY <2>1, <2>3, <2>5, <2>6 DEF Tended, Retried
  <2>10. Begun'
    BY <2>1, <2>2, <2>3, NullAssumption DEF PacedInv, Begun, CallersHold, Holds
  <2> QED
    BY <2>7, <2>8, <2>9, <2>10 DEF PacedInv
<1> QED
  BY <1>1, <1>2, <1>3, <1>4 DEF ConnectStep

LEMMA PacedSystem ==
  ASSUME TypeInv, StopInv, PacedInv, Paced, Disconnect \/ \E p \in Procs : ProcExit(p)
  PROVE  PacedInv'
<1> USE DEF TypeInv, TypeOK
<1>1. CASE Disconnect
  <2>1. /\ slot \in Conns /\ slot' = NoConn /\ UNCHANGED <<caller, monitor, recon>>
    BY <1>1 DEF Disconnect, MaybeConn
  <2>2. Settled
    BY <2>1, NullAssumption DEF Paced
  <2>3. \A p \in Procs : ~Tends(p)' /\ ~Retries(p)'
    BY <2>1, <2>2, NullAssumption DEF Settled, Tends, Retries, MonitorsHold, ReconsHold
  <2>4. /\ conn'[slot].stopped
        /\ \A c \in Conns \ {slot} : conn'[c] = conn[c]
    BY <1>1, <2>1 DEF Disconnect, ConnRec
  <2>5. Bridged'
    BY <2>1, <2>2, <2>4 DEF PacedInv, Bridged, Settled, MonitorsHold
  <2>6. OneAttends' /\ Tended' /\ Retried'
    BY <2>1, <2>2, <2>3 DEF OneAttends, Tended, Retried, Settled
  <2>7. Begun'
    <3>1. \A k \in Callers : Holds(k) => caller[k].conn \in Conns \ {slot}
      BY <2>1, <2>2 DEF Holds, Settled, CallersHold, StopInv, StartedFresh
    <3> QED
      BY <2>1, <2>4, <3>1 DEF PacedInv, Begun, Holds
  <2> QED
    BY <2>5, <2>6, <2>7 DEF PacedInv
<1>2. ASSUME NEW p \in Procs, ProcExit(p)
      PROVE  PacedInv'
  <2>1. UNCHANGED <<slot, conn, caller, monitor, recon>>
    BY <1>2 DEF ProcExit
  <2>2. \A q \in Procs : proc[q].state = "dead" => proc'[q].state = "dead"
    BY <1>2 DEF ProcExit, ProcRec
  <2> QED
    BY <2>1, <2>2, PacedFrame
<1> QED
  BY <1>1, <1>2

LEMMA PacedBeat ==
  ASSUME TypeInv, PacedInv, NEW p \in Procs, BeatStep(p)
  PROVE  PacedInv'
<1> USE DEF TypeInv, TypeOK
<1>1. UNCHANGED <<slot, caller, monitor, recon>>
  BY DEF BeatStep, BeatStop, BeatTick, BeatMiss, BeatSuperseded, BeatSatisfied, BeatCondemns,
     BeatKill
<1>2. \A q \in Procs : proc[q].state = "dead" => proc'[q].state = "dead"
  BY KillDead DEF BeatStep, BeatStop, BeatTick, BeatMiss, BeatSuperseded, BeatSatisfied,
     BeatCondemns, BeatKill
<1>3. ASSUME NEW ips \in (SUBSET IPs) \ {{}}, BeatCondemns(p, ips)
      PROVE  PacedInv'
  <2>1. conn[beat[p].conn].status = "running"
    BY <1>3 DEF BeatCondemns, BeatRecheck, BeatCurrent
  <2>2. conn' = [conn EXCEPT ![beat[p].conn].ddnsRestart = TRUE]
    BY <1>3 DEF BeatCondemns
  <2> QED
    BY <1>1, <1>2, <2>1, <2>2, PacedFrame DEF ConnRec
<1>4. CASE conn' = conn
  BY <1>1, <1>2, <1>4, PacedFrame
<1> QED
  BY <1>3, <1>4 DEF BeatStep, BeatStop, BeatTick, BeatMiss, BeatSuperseded, BeatSatisfied,
     BeatKill

\* A monitor moves on without leaving its connection.
LEMMA PacedOn ==
  ASSUME TypeInv, StopInv, PacedInv, NEW p \in Procs,
         UNCHANGED <<slot, conn, proc, caller, recon>>,
         \A q \in Procs \ {p} : monitor'[q] = monitor[q],
         monitor[p].pc # "none",
         monitor'[p].pc \notin {"none", "spawned"},
         Tends(p) => monitor'[p].conn = slot,
         ~Tends(p) => monitor'[p].conn = monitor[p].conn,
         monitor'[p].pc \in {"confirm", "exited"} => Tends(p),
         Tends(p) /\ monitor'[p].pc # "attach" => monitor'[p].proc = p,
         Tends(p) /\ monitor'[p].pc = "exited" => proc[p].state = "dead",
         Tends(p) /\ monitor'[p].pc \notin {"running", "exited"} =>
           conn[slot].status # "running" /\ ~conn[slot].ddnsRestart
  PROVE  PacedInv'
<1> USE DEF TypeInv, TypeOK
<1>1. \A q \in Procs : (Tends(q)' <=> Tends(q)) /\ (Retries(q)' <=> Retries(q))
  BY DEF Tends, Retries
<1>2. Tends(p) => slot \in Conns
  BY SlotThere DEF PacedInv
<1>3. Bridged'
  BY <1>1, <1>2, NullAssumption DEF PacedInv, Bridged, Settled, Tends
<1>4. OneAttends'
  BY <1>1 DEF PacedInv, OneAttends
<1>5. Tended'
  BY <1>1, <1>2 DEF PacedInv, Tended
<1>6. Retried'
  BY <1>1 DEF PacedInv, Retried
<1>7. Begun'
  <2>1. \A k \in Callers : Holds(k) => monitor'[p].conn # caller[k].conn
    BY SlotApart DEF PacedInv, Begun
  <2> QED
    BY <2>1 DEF PacedInv, Begun, Holds
<1> QED
  BY <1>3, <1>4, <1>5, <1>6, <1>7 DEF PacedInv

\* A monitor of another connection ends.
LEMMA PacedEnd ==
  ASSUME TypeInv, PacedInv, NEW p \in Procs, ~Tends(p),
         UNCHANGED <<slot, conn, proc, caller, recon>>,
         monitor' = [monitor EXCEPT ![p] = NoMonitor]
  PROVE  PacedInv'
<1> USE DEF TypeInv, TypeOK
<1>1. \A q \in Procs : Tends(q)' => Tends(q) /\ q # p
  BY Idle DEF Tends
<1>2. monitor'[p].pc = "none" /\ monitor'[p].conn = NoConn
  BY Idle
<1>3. Bridged'
  BY <1>2 DEF PacedInv, Bridged, Settled
<1>4. OneAttends' /\ Tended' /\ Retried'
  BY <1>1 DEF PacedInv, OneAttends, Tended, Retried, Retries
<1>5. Begun'
  BY <1>2, NullAssumption DEF PacedInv, Begun, CallersHold, Holds
<1> QED
  BY <1>3, <1>4, <1>5 DEF PacedInv

LEMMA PacedMonitor ==
  ASSUME TypeInv, StopInv, HoldInv, PacedInv, NEW p \in Procs, MonitorStep(p)
  PROVE  PacedInv'
<1> USE DEF TypeInv, TypeOK
<1>1. CASE MonitorLookup(p)
  <2>1. Tends(p) /\ monitor[p].pc = "spawned"
    BY <1>1 DEF MonitorLookup, Tends
  <2>2. slot # NoConn /\ conn[slot].status # "running" /\ ~conn[slot].ddnsRestart
    BY <2>1, SlotThere, NullAssumption DEF PacedInv, Tended
  <2>3. /\ UNCHANGED <<slot, conn, proc, caller, recon>>
        /\ monitor'[p] = [pc |-> "attach", conn |-> slot, proc |-> NoProc]
        /\ \A q \in Procs \ {p} : monitor'[q] = monitor[q]
    BY <1>1, <2>2 DEF MonitorLookup
  <2> QED
    BY <2>1, <2>2, <2>3, PacedOn
<1>2. CASE MonitorWait(p)
  <2>1. /\ UNCHANGED <<slot, conn, proc, caller, recon>> /\ monitor[p].pc = "attach"
        /\ monitor'[p].pc = "window" /\ monitor'[p].conn = monitor[p].conn
        /\ monitor'[p].proc = conn[monitor[p].conn].proc
        /\ \A q \in Procs \ {p} : monitor'[q] = monitor[q]
    BY <1>2 DEF MonitorWait, MonitorRec
  <2>2. Tends(p) => /\ monitor[p].conn = slot /\ conn[slot].proc = p
                    /\ conn[slot].status # "running" /\ ~conn[slot].ddnsRestart
    BY <2>1 DEF Tends, PacedInv, Tended
  <2> QED
    BY <2>1, <2>2, PacedOn
<1>3. CASE MonitorExit(p)
  <2>1. /\ UNCHANGED <<slot, conn, proc, caller, recon>> /\ monitor[p].pc \in {"window", "running"}
        /\ monitor'[p].pc = "exited" /\ monitor'[p].conn = monitor[p].conn
        /\ monitor'[p].proc = monitor[p].proc
        /\ \A q \in Procs \ {p} : monitor'[q] = monitor[q]
        /\ proc[monitor[p].proc].state = "dead" /\ ~conn[monitor[p].conn].stopped
    BY <1>3 DEF MonitorExit, MonitorSeesExit, MonitorRec
  <2>2. monitor[p].conn = slot /\ Tends(p)
    BY <2>1 DEF Tends, PacedInv, Bridged
  <2>3. monitor[p].proc = p
    BY <2>1, <2>2 DEF PacedInv, Tended
  <2> QED
    BY <2>1, <2>2, <2>3, PacedOn
<1>4. CASE MonitorTimer(p)
  <2>1. /\ UNCHANGED <<slot, conn, proc, caller, recon>> /\ monitor[p].pc = "window"
        /\ monitor'[p].pc = "confirm" /\ monitor'[p].conn = monitor[p].conn
        /\ monitor'[p].proc = monitor[p].proc
        /\ \A q \in Procs \ {p} : monitor'[q] = monitor[q]
        /\ ~conn[monitor[p].conn].stopped
    BY <1>4 DEF MonitorTimer, MonitorRec
  <2>2. monitor[p].conn = slot /\ Tends(p)
    BY <2>1 DEF Tends, PacedInv, Bridged
  <2>3. monitor[p].proc = p /\ conn[slot].status # "running" /\ ~conn[slot].ddnsRestart
    BY <2>1, <2>2 DEF PacedInv, Tended
  <2> QED
    BY <2>1, <2>2, <2>3, PacedOn
<1>5. CASE MonitorStopped(p)
  <2>1. /\ UNCHANGED <<slot, conn, proc, caller, recon>> /\ conn[monitor[p].conn].stopped
        /\ monitor' = [monitor EXCEPT ![p] = NoMonitor] /\ monitor[p].pc \in {"window", "running"}
    BY <1>5 DEF MonitorStopped, MonitorSeesExit
  <2>2. ~Tends(p)
    BY <2>1, SlotThere, NullAssumption DEF Tends, StopInv, SlotLive, PacedInv
  <2> QED
    BY <2>1, <2>2, PacedEnd
<1>6. CASE MonitorUnconfirmed(p) \/ ExitIgnored(p)
  <2>1. monitor[p].pc \in {"confirm", "exited"} /\ slot = NoConn
    BY <1>6 DEF MonitorUnconfirmed, ExitIgnored
  <2> QED
    BY <2>1 DEF PacedInv, Bridged, Settled
<1>7. CASE MonitorConfirm(p)
  <2>1. monitor[p].pc = "confirm" /\ monitor[p].conn = slot /\ Tends(p) /\ slot \in Conns
    BY <1>7, SlotThere DEF MonitorConfirm, PacedInv, Bridged, Tends
  <2>2. /\ UNCHANGED <<slot, proc, caller, recon>>
        /\ \A c \in Conns \ {slot} : conn'[c] = conn[c]
        /\ conn'[slot].status = "running" /\ conn'[slot].proc = conn[slot].proc
        /\ conn'[slot].stopped = conn[slot].stopped
    BY <1>7, <2>1 DEF MonitorConfirm, ConnRec
  <2>3. /\ monitor'[p].pc = "running" /\ monitor'[p].conn = slot
        /\ monitor'[p].proc = monitor[p].proc
        /\ \A q \in Procs \ {p} : monitor'[q] = monitor[q]
    BY <1>7, <2>1 DEF MonitorConfirm, MonitorRec
  <2>4. \A q \in Procs : (Tends(q)' <=> Tends(q)) /\ (Retries(q)' <=> Retries(q))
    BY <2>1, <2>2, <2>3 DEF Tends, Retries
  <2>5. \A q \in Procs : (Tends(q) => q = p) /\ ~Retries(q)
    BY <2>1 DEF PacedInv, OneAttends
  <2>6. Bridged'
    BY <2>1, <2>2, <2>3, NullAssumption DEF PacedInv, Bridged, MonitorsHold
  <2>7. OneAttends'
    BY <2>2, <2>4 DEF PacedInv, OneAttends
  <2>8. Tended' /\ Retried'
    BY <2>1, <2>2, <2>3, <2>4, <2>5 DEF PacedInv, Tended, Retried
  <2>9. Begun'
    <3>1. \A k \in Callers : Holds(k) => caller[k].conn \in Conns \ {slot}
      BY <2>1, SlotApart DEF CallersHold, Holds
    <3> QED
      BY <2>2, <2>3, <2>1, <3>1 DEF PacedInv, Begun, Holds
  <2> QED
    BY <2>6, <2>7, <2>8, <2>9 DEF PacedInv
<1>8. CASE ExitRetried(p)
  <2>1. monitor[p].pc = "exited" /\ monitor[p].conn = slot /\ Tends(p) /\ slot \in Conns
    BY <1>8, SlotThere DEF ExitRetried, PacedInv, Bridged, Tends
  <2>2. /\ UNCHANGED <<slot, proc, caller>>
        /\ \A c \in Conns \ {slot} : conn'[c] = conn[c]
        /\ conn'[slot].status = "disconnected" /\ ~conn'[slot].ddnsRestart
        /\ conn'[slot].proc = conn[slot].proc /\ conn'[slot].stopped = conn[slot].stopped
    BY <1>8, <2>1 DEF ExitRetried, ConnRec
  <2>3. /\ monitor'[p].pc = "none" /\ monitor'[p].conn = NoConn
        /\ recon'[p].pc = "spawned" /\ recon'[p].conn = NoConn
        /\ \A q \in Procs \ {p} : monitor'[q] = monitor[q] /\ recon'[q] = recon[q]
    BY <1>8, Idle DEF ExitRetried, Spawned, NoRecon
  <2>4. \A q \in Procs : (Tends(q) => q = p) /\ ~Retries(q)
    BY <2>1 DEF PacedInv, OneAttends
  <2>5. \A q \in Procs : ~Tends(q)' /\ (Retries(q)' <=> q = p)
    BY <2>1, <2>2, <2>3, <2>4, NullAssumption DEF Tends, Retries
  <2>6. Bridged'
    BY <2>1, <2>2, <2>3, NullAssumption DEF PacedInv, Bridged, MonitorsHold
  <2>7. OneAttends'
    <3>1. \A k \in Callers : caller[k].pc # "stored"
      BY <2>1 DEF PacedInv, OneAttends
    <3> QED
      BY <2>2, <2>5, <3>1 DEF OneAttends
  <2>8. Tended' /\ Retried'
    BY <2>1, <2>2, <2>5 DEF PacedInv, Tended, Retried
  <2>9. Begun'
    <3>1. \A k \in Callers : Holds(k) => caller[k].conn \in Conns \ {slot}
      BY <2>1, SlotApart DEF CallersHold, Holds
    <3> QED
      BY <2>2, <2>3, <3>1, NullAssumption DEF PacedInv, Begun, Holds
  <2> QED
    BY <2>6, <2>7, <2>8, <2>9 DEF PacedInv
<1>9. ASSUME NEW s \in ExitStatus, ExitFinal(p, s)
      PROVE  PacedInv'
  <2>1. monitor[p].pc = "exited" /\ monitor[p].conn = slot /\ Tends(p) /\ slot \in Conns
    BY <1>9, SlotThere DEF ExitFinal, PacedInv, Bridged, Tends
  <2>2. /\ UNCHANGED <<slot, proc, caller, recon>>
        /\ \A c \in Conns \ {slot} : conn'[c] = conn[c]
        /\ conn'[slot].stopped = conn[slot].stopped
    BY <1>9, <2>1 DEF ExitFinal, ConnRec
  <2>3. /\ monitor'[p].pc = "none" /\ monitor'[p].conn = NoConn
        /\ \A q \in Procs \ {p} : monitor'[q] = monitor[q]
    BY <1>9, Idle DEF ExitFinal
  <2>4. \A q \in Procs : (Tends(q) => q = p) /\ ~Retries(q)
    BY <2>1 DEF PacedInv, OneAttends
  <2>5. \A q \in Procs : ~Tends(q)' /\ ~Retries(q)'
    BY <2>1, <2>2, <2>3, <2>4 DEF Tends, Retries
  <2>6. Bridged'
    BY <2>1, <2>2, <2>3, NullAssumption DEF PacedInv, Bridged, MonitorsHold
  <2>7. OneAttends' /\ Tended' /\ Retried'
    BY <2>2, <2>5 DEF PacedInv, OneAttends, Tended, Retried
  <2>8. Begun'
    <3>1. \A k \in Callers : Holds(k) => caller[k].conn \in Conns \ {slot}
      BY <2>1, SlotApart DEF CallersHold, Holds
    <3> QED
      BY <2>2, <2>3, <3>1, NullAssumption DEF PacedInv, Begun, Holds
  <2> QED
    BY <2>6, <2>7, <2>8 DEF PacedInv
<1> QED
  BY <1>1, <1>2, <1>3, <1>4, <1>5, <1>6, <1>7, <1>8, <1>9 DEF MonitorStep

\* An autoReconnect goes on with its connection, or ends.
LEMMA PacedTry ==
  ASSUME TypeInv, StopInv, PacedInv, NEW p \in Procs,
         UNCHANGED <<slot, conn, caller, monitor>>,
         \A q \in Procs \ {p} : recon'[q] = recon[q],
         recon[p].pc # "none", recon'[p].pc # "spawned",
         recon'[p].pc # "none" =>
           recon'[p].conn = IF recon[p].pc = "spawned" THEN slot ELSE recon[p].conn,
         recon'[p].pc = "none" => recon'[p].conn = NoConn,
         \A q \in Procs : (\E c \in Conns : conn[c].proc = q) /\ proc[q].state = "dead" =>
           proc'[q].state = "dead"
  PROVE  PacedInv'
<1> USE DEF TypeInv, TypeOK
<1>1. \A q \in Procs : (Tends(q)' <=> Tends(q)) /\ (Retries(q)' => Retries(q))
  BY DEF Tends, Retries
<1>2. \A q \in Procs : Tends(q) \/ Retries(q) =>
        slot \in Conns /\ conn[slot].proc \in Procs
  BY SlotThere DEF PacedInv, Allocated, Tends, Retries, FreeConn, ConnRec, MaybeProc
<1>3. Bridged'
  BY DEF PacedInv, Bridged, Settled
<1>4. OneAttends'
  BY <1>1 DEF PacedInv, OneAttends
<1>5. Tended'
  BY <1>1, <1>2 DEF PacedInv, Tended
<1>6. Retried'
  BY <1>1, <1>2 DEF PacedInv, Retried
<1>7. Begun'
  <2>1. \A k \in Callers : Holds(k) => recon'[p].conn # caller[k].conn
    <3>1. recon[p].pc = "spawned" => Retries(p)
      BY DEF Retries
    <3> QED
      BY <3>1, SlotApart, NullAssumption DEF PacedInv, Begun, CallersHold, Holds
  <2> QED
    BY <2>1 DEF PacedInv, Begun, Holds
<1> QED
  BY <1>3, <1>4, <1>5, <1>6, <1>7 DEF PacedInv

LEMMA PacedRecon ==
  ASSUME TypeInv, StopInv, HoldInv, PacedInv, Paced, NEW p \in Procs, ReconStep(p)
  PROVE  PacedInv'
<1> USE DEF TypeInv, TypeOK
<1>1. CASE ReconLookup(p)
  <2>1. recon[p].pc = "spawned" /\ slot # NoConn
    BY <1>1, SlotThere, NullAssumption DEF ReconLookup, Retries, PacedInv
  <2>2. /\ UNCHANGED <<slot, conn, proc, caller, monitor>>
        /\ recon'[p].pc = "waiting" /\ recon'[p].conn = slot
        /\ \A q \in Procs \ {p} : recon'[q] = recon[q]
    BY <1>1, <2>1 DEF ReconLookup, ReconRec
  <2> QED
    BY <2>1, <2>2, PacedTry
<1>2. CASE ReconWake(p)
  <2>1. /\ UNCHANGED <<slot, conn, proc, caller, monitor>> /\ recon[p].pc = "waiting"
        /\ \A q \in Procs \ {p} : recon'[q] = recon[q]
        /\ \/ recon'[p].pc = "resolving" /\ recon'[p].conn = recon[p].conn
           \/ recon'[p].pc = "none" /\ recon'[p].conn = NoConn
    BY <1>2, Idle DEF ReconWake, ReconRec
  <2> QED
    BY <2>1, PacedTry
<1>3. CASE ReconFail(p)
  <2>1. /\ UNCHANGED <<slot, conn, proc, caller, monitor>> /\ recon[p].pc = "resolving"
        /\ \A q \in Procs \ {p} : recon'[q] = recon[q]
        /\ recon'[p].pc \in {"waiting", "exhausted"} /\ recon'[p].conn = recon[p].conn
    BY <1>3 DEF ReconFail, ReconRec
  <2> QED
    BY <2>1, PacedTry
<1>4. ASSUME NEW q \in Procs, NEW ip \in IPs, ReconStart(p, q, ip)
      PROVE  PacedInv'
  <2>1. /\ UNCHANGED <<slot, conn, caller, monitor>> /\ recon[p].pc = "resolving"
        /\ \A r \in Procs \ {p} : recon'[r] = recon[r]
        /\ recon'[p].pc = "started" /\ recon'[p].conn = recon[p].conn
    BY <1>4 DEF ReconStart, ReconRec
  <2>2. /\ \A c \in Conns : conn[c].proc # q
        /\ \A r \in Procs \ {q} : proc'[r] = proc[r]
    BY <1>4 DEF ReconStart, FreeProc, Started
  <2> QED
    BY <2>1, <2>2, PacedTry
<1>5. CASE ReconAbort(p)
  <2>1. /\ UNCHANGED <<slot, conn, caller, monitor>> /\ recon[p].pc = "started"
        /\ \A r \in Procs \ {p} : recon'[r] = recon[r]
        /\ recon'[p].pc = "none" /\ recon'[p].conn = NoConn
    BY <1>5, Idle DEF ReconAbort
  <2>2. \A q \in Procs : proc[q].state = "dead" => proc'[q].state = "dead"
    BY <1>5, KillDead DEF ReconAbort
  <2> QED
    BY <2>1, <2>2, PacedTry
<1>6. CASE ReconPublish(p)
  <2> DEFINE q == recon[p].proc
  <2>1. /\ recon[p].pc = "started" /\ recon[p].conn = slot /\ slot \in Conns /\ q \in Procs
        /\ Retries(p)
    BY <1>6 DEF ReconPublish, StillMine, ReconsHold, Retries
  <2>2. /\ UNCHANGED <<slot, proc, caller>>
        /\ \A c \in Conns \ {slot} : conn'[c] = conn[c]
        /\ conn'[slot].status = "connecting" /\ conn'[slot].proc = q
        /\ conn'[slot].stopped = conn[slot].stopped
        /\ conn'[slot].ddnsRestart = conn[slot].ddnsRestart
    BY <1>6, <2>1 DEF ReconPublish, ConnRec
  <2>3. /\ recon'[p].pc = "none" /\ recon'[p].conn = NoConn
        /\ \A r \in Procs \ {p} : recon'[r] = recon[r]
        /\ monitor'[q].pc = "spawned" /\ monitor'[q].conn = NoConn
        /\ \A r \in Procs \ {q} : monitor'[r] = monitor[r]
    BY <1>6, <2>1, Idle DEF ReconPublish, GoMonitor
  <2>4. /\ \A r \in Procs : ~Tends(r) /\ (Retries(r) => r = p)
        /\ \A k \in Callers : caller[k].pc # "stored"
    BY <2>1 DEF PacedInv, OneAttends
  <2>5. ~conn[slot].ddnsRestart
    BY <2>1 DEF PacedInv, Retried
  <2> HIDE DEF q
  <2>6. \A r \in Procs : (Tends(r)' <=> r = q) /\ ~Retries(r)'
    BY <2>1, <2>2, <2>3, <2>4, NullAssumption DEF Tends, Retries
  <2>7. Bridged'
    BY <2>1, <2>2, <2>3, <2>4, NullAssumption DEF PacedInv, Bridged, MonitorsHold
  <2>8. OneAttends'
    BY <2>2, <2>4, <2>6 DEF OneAttends
  <2>9. Tended' /\ Retried'
    BY <2>2, <2>3, <2>5, <2>6 DEF Tended, Retried
  <2>10. Begun'
    <3>1. \A k \in Callers : Holds(k) => caller[k].conn \in Conns \ {slot}
      BY <2>1, SlotApart DEF CallersHold, Holds
    <3> QED
      BY <2>2, <2>3, <3>1, NullAssumption DEF PacedInv, Begun, Holds
  <2> QED
    BY <2>7, <2>8, <2>9, <2>10 DEF PacedInv
<1>7. CASE ReconExhaust(p)
  <2>1. /\ UNCHANGED <<slot, proc, caller, monitor>> /\ recon[p].pc = "exhausted"
        /\ recon'[p].pc = "none" /\ recon'[p].conn = NoConn
        /\ \A q \in Procs \ {p} : recon'[q] = recon[q]
    BY <1>7, Idle DEF ReconExhaust
  <2>2. CASE slot = NoConn
    <3>1. conn' = conn
      BY <1>7, <2>2 DEF ReconExhaust
    <3> QED
      BY <2>1, <3>1, PacedTry
  <2>3. CASE slot # NoConn
    <3>1. /\ slot \in Conns
          /\ \A c \in Conns \ {slot} : conn'[c] = conn[c]
          /\ conn'[slot].status = "disconnected" /\ conn'[slot].proc = conn[slot].proc
          /\ conn'[slot].stopped = conn[slot].stopped
          /\ conn'[slot].ddnsRestart = conn[slot].ddnsRestart
      BY <1>7, <2>3 DEF ReconExhaust, MaybeConn, ConnRec
    <3>2. \A k \in Callers : caller[k].pc # "stored"
      BY <2>1 DEF Paced
    <3>3. \A q \in Procs : (Tends(q)' <=> Tends(q)) /\ (Retries(q)' => Retries(q))
      BY <2>1 DEF Tends, Retries
    <3>4. AutoReconnect
      BY <2>1 DEF HoldInv
    <3>5. Bridged'
      BY <2>1, <2>3, <3>1, <3>2 DEF PacedInv, Bridged, MonitorsHold
    <3>6. OneAttends'
      BY <2>1, <3>2, <3>3 DEF PacedInv, OneAttends
    <3>7. Tended' /\ Retried'
      BY <2>1, <3>1, <3>3, <3>4 DEF PacedInv, Tended, Retried
    <3>8. Begun'
      <4>1. \A k \in Callers : Holds(k) => caller[k].conn \in Conns \ {slot}
        BY <3>2 DEF Holds, CallersHold, StopInv, StartedFresh
      <4> QED
        BY <2>1, <3>1, <4>1, NullAssumption DEF PacedInv, Begun, Holds
    <3> QED
      BY <3>5, <3>6, <3>7, <3>8 DEF PacedInv
  <2> QED
    BY <2>2, <2>3
<1> QED
  BY <1>1, <1>2, <1>3, <1>4, <1>5, <1>6, <1>7 DEF ReconStep

LEMMA PacedStep ==
  TypeInv /\ StopInv /\ HoldInv /\ PacedInv /\ [PacedNext]_vars => PacedInv'
<1> SUFFICES ASSUME TypeInv, StopInv, HoldInv, PacedInv, [PacedNext]_vars PROVE PacedInv'
  OBVIOUS
<1>1. CASE UNCHANGED vars
  BY <1>1, PacedFrame DEF vars, Holds
<1>2. CASE PacedNext
  BY <1>2, PacedConnect, PacedSystem, PacedBeat, PacedMonitor, PacedRecon DEF PacedNext, Next
<1> QED
  BY <1>1, <1>2

\* Everything the proofs below build on.
PInv == TypeInv /\ StopInv /\ HoldInv /\ PacedInv

LEMMA PacedAlways == PacedSpec => []PInv
<1>1. Init => PInv
  BY InitType, Idle, NullAssumption
  DEF Init, PInv, StopInv, SlotLive, StartedFresh, StoppedIsDead, NewConn, HoldInv, Holds,
      PacedInv, Bridged, Settled, OneAttends, Tended, Retried, Begun, Tends, Retries
<1>2. PInv /\ [PacedNext]_vars => PInv'
  <2>1. [PacedNext]_vars => [Next]_vars
    BY DEF PacedNext
  <2> QED
    BY <2>1, NextType, StopNext, HoldNext, PacedStep DEF PInv
<1> QED
  BY <1>1, <1>2, PTL DEF PacedSpec

\* As long as the user does not outrun the scheduler, no two goroutines look after
\* the same connection: none was left behind by an exit, a reconnect or an earlier
\* connection under the same id (ssh.go:811, 996, 1128).
THEOREM OneGoroutine == PacedSpec => []OneAttends
<1>1. PInv => OneAttends
  BY DEF PInv, PacedInv
<1> QED
  BY <1>1, PacedAlways, PTL

-----------------------------------------------------------------------------
(* NoOrphan.  A publication replaces a dead process only (Retried), a store   *)
(* hands the Connect's own process over (Begun), and no goroutine that holds  *)
(* a process is written over (HoldInv).                                       *)

LEMMA OwnFrame ==
  ASSUME TypeInv, NoOrphan, slot' = slot,
         \A k \in Callers : caller[k].pc = "started" => caller'[k] = caller[k],
         \A p \in Procs : recon[p].pc = "started" => recon'[p] = recon[p],
         \A c \in Conns : conn'[c].proc = conn[c].proc,
         \A q \in Procs : proc'[q].state = "alive" => proc[q].state = "alive"
  PROVE  NoOrphan'
BY DEF TypeInv, TypeOK, MaybeConn, NoOrphan

LEMMA OwnConnect ==
  ASSUME PInv, NoOrphan, NEW k \in Callers, ConnectStep(k)
  PROVE  NoOrphan'
<1> USE DEF PInv, TypeInv, TypeOK
<1>1. CASE ConnectBegin(k) \/ ConnectFail(k) \/ ConnectDone(k)
  BY <1>1, OwnFrame DEF ConnectBegin, ConnectFail, ConnectDone
<1>2. ASSUME NEW c \in Conns, NEW q \in Procs, NEW ip \in IPs, ConnectStart(k, c, q, ip)
      PROVE  NoOrphan'
  <2>1. /\ slot' = slot /\ recon' = recon /\ slot # c
        /\ caller[k].pc = "resolving"
        /\ caller'[k] = [pc |-> "started", conn |-> c, proc |-> q]
        /\ \A j \in Callers \ {k} : caller'[j] = caller[j]
    BY <1>2 DEF ConnectStart, FreeConn
  <2>2. /\ \A d \in Conns \ {c} : conn'[d] = conn[d]
        /\ \A r \in Procs \ {q} : proc'[r] = proc[r]
    BY <1>2 DEF ConnectStart, Started
  <2> QED
    BY <2>1, <2>2 DEF NoOrphan, MaybeConn
<1>3. CASE ConnectStore(k)
  <2>1. /\ UNCHANGED <<conn, proc, recon>> /\ slot = NoConn
        /\ slot' = caller[k].conn /\ slot' \in Conns
        /\ \A j \in Callers \ {k} : caller'[j] = caller[j]
    BY <1>3 DEF ConnectStore, CallersHold
  <2>2. conn[slot'].proc = caller[k].proc
    BY <1>3, <2>1 DEF ConnectStore, PacedInv, Begun, Holds
  <2> QED
    BY <2>1, <2>2, NullAssumption DEF NoOrphan
<1>4. CASE ConnectLost(k)
  <2>1. /\ UNCHANGED <<slot, conn, recon>> /\ \A j \in Callers \ {k} : caller'[j] = caller[j]
    BY <1>4 DEF ConnectLost
  <2>2. /\ \A r \in Procs : proc'[r].state = "alive" => proc[r].state = "alive"
        /\ proc'[caller[k].proc].state # "alive"
    BY <1>4, KillKills DEF ConnectLost, CallersHold
  <2> QED
    BY <2>1, <2>2 DEF NoOrphan
<1> QED
  BY <1>1, <1>2, <1>3, <1>4 DEF ConnectStep

LEMMA OwnRecon ==
  ASSUME PInv, NoOrphan, NEW p \in Procs, ReconStep(p)
  PROVE  NoOrphan'
<1> USE DEF PInv, TypeInv, TypeOK
<1>1. CASE ReconLookup(p) \/ ReconWake(p) \/ ReconFail(p)
  BY <1>1, OwnFrame DEF ReconLookup, ReconWake, ReconFail
<1>2. ASSUME NEW q \in Procs, NEW ip \in IPs, ReconStart(p, q, ip)
      PROVE  NoOrphan'
  <2>1. /\ UNCHANGED <<slot, conn, caller>> /\ recon[p].pc = "resolving"
        /\ recon'[p].pc = "started" /\ recon'[p].proc = q
        /\ \A r \in Procs \ {p} : recon'[r] = recon[r]
    BY <1>2 DEF ReconStart, ReconRec
  <2>2. \A r \in Procs \ {q} : proc'[r] = proc[r]
    BY <1>2 DEF ReconStart, Started
  <2> QED
    BY <2>1, <2>2 DEF NoOrphan
<1>3. CASE ReconPublish(p)
  <2>1. /\ UNCHANGED <<slot, proc, caller>> /\ slot = recon[p].conn /\ slot \in Conns
        /\ conn'[slot].proc = recon[p].proc /\ Retries(p)
        /\ \A r \in Procs \ {p} : recon'[r] = recon[r]
    BY <1>3 DEF ReconPublish, StillMine, ReconsHold, Retries, ConnRec
  <2>2. proc[conn[slot].proc].state = "dead"
    BY <2>1 DEF PacedInv, Retried
  <2> QED
    BY <2>1, <2>2, NullAssumption DEF NoOrphan
<1>4. CASE ReconAbort(p)
  <2>1. /\ UNCHANGED <<slot, conn, caller>> /\ \A r \in Procs \ {p} : recon'[r] = recon[r]
    BY <1>4 DEF ReconAbort
  <2>2. /\ \A r \in Procs : proc'[r].state = "alive" => proc[r].state = "alive"
        /\ proc'[recon[p].proc].state # "alive"
    BY <1>4, KillKills DEF ReconAbort, ReconsHold
  <2> QED
    BY <2>1, <2>2 DEF NoOrphan
<1>5. CASE ReconExhaust(p)
  <2>1. \A c \in Conns : conn'[c].proc = conn[c].proc
    BY <1>5 DEF ReconExhaust, ConnRec
  <2> QED
    BY <1>5, <2>1, OwnFrame DEF ReconExhaust
<1> QED
  BY <1>1, <1>2, <1>3, <1>4, <1>5 DEF ReconStep

LEMMA OwnNext == PInv /\ NoOrphan /\ [PacedNext]_vars => NoOrphan'
<1> SUFFICES ASSUME PInv, NoOrphan, [PacedNext]_vars PROVE NoOrphan'
  OBVIOUS
<1> USE DEF PInv, TypeInv, TypeOK
<1>1. CASE UNCHANGED vars
  BY <1>1, OwnFrame DEF vars
<1>2. CASE Disconnect
  <2>1. slot \in Conns /\ conn[slot].proc \in Procs
    BY <1>2 DEF Disconnect, MaybeConn, Allocated, FreeConn, ConnRec, MaybeProc
  <2>2. /\ \A r \in Procs : proc'[r].state = "alive" => proc[r].state = "alive"
        /\ proc'[conn[slot].proc].state # "alive"
    BY <1>2, <2>1, KillKills DEF Disconnect
  <2> QED
    BY <1>2, <2>2 DEF Disconnect, NoOrphan
<1>3. ASSUME NEW p \in Procs, ProcExit(p)
      PROVE  NoOrphan'
  BY <1>3, OwnFrame DEF ProcExit, ProcRec
<1>4. ASSUME NEW p \in Procs, MonitorStep(p)
      PROVE  NoOrphan'
  <2>1. UNCHANGED <<slot, caller, proc>>
    BY <1>4 DEF MonitorStep, MonitorLookup, MonitorWait, MonitorStopped, MonitorExit,
       MonitorTimer, MonitorUnconfirmed, MonitorConfirm, ExitIgnored, ExitRetried, ExitFinal
  <2>2. \A c \in Conns : conn'[c].proc = conn[c].proc
    <3>1. CASE MonitorConfirm(p) \/ ExitRetried(p)
      BY <3>1 DEF MonitorConfirm, ExitRetried, ConnRec
    <3>2. ASSUME NEW s \in ExitStatus, ExitFinal(p, s)
          PROVE  \A c \in Conns : conn'[c].proc = conn[c].proc
      BY <3>2 DEF ExitFinal, ConnRec
    <3> QED
      BY <1>4, <3>1, <3>2 DEF MonitorStep, MonitorLookup, MonitorWait, MonitorStopped,
         MonitorExit, MonitorTimer, MonitorUnconfirmed, ExitIgnored
  <2>3. \A q \in Procs : recon[q].pc = "started" => recon'[q] = recon[q]
    BY <1>4 DEF HoldInv, MonitorStep, MonitorLookup, MonitorWait, MonitorStopped, MonitorExit,
       MonitorTimer, MonitorUnconfirmed, MonitorConfirm, ExitIgnored, ExitRetried, ExitFinal
  <2> QED
    BY <2>1, <2>2, <2>3, OwnFrame
<1>5. ASSUME NEW p \in Procs, BeatStep(p)
      PROVE  NoOrphan'
  <2>1. UNCHANGED <<slot, caller, recon>>
    BY <1>5 DEF BeatStep, BeatStop, BeatTick, BeatMiss, BeatSuperseded, BeatSatisfied,
       BeatCondemns, BeatKill
  <2>2. \A q \in Procs : proc'[q].state = "alive" => proc[q].state = "alive"
    BY <1>5, KillKills DEF BeatStep, BeatStop, BeatTick, BeatMiss, BeatSuperseded,
       BeatSatisfied, BeatCondemns, BeatKill
  <2>3. \A c \in Conns : conn'[c].proc = conn[c].proc
    <3>1. ASSUME NEW ips \in (SUBSET IPs) \ {{}}, BeatCondemns(p, ips)
          PROVE  \A c \in Conns : conn'[c].proc = conn[c].proc
      BY <3>1 DEF BeatCondemns, ConnRec
    <3> QED
      BY <1>5, <3>1 DEF BeatStep, BeatStop, BeatTick, BeatMiss, BeatSuperseded, BeatSatisfied,
         BeatKill
  <2> QED
    BY <2>1, <2>2, <2>3, OwnFrame
<1> QED
  BY <1>1, <1>2, <1>3, <1>4, <1>5, OwnConnect, OwnRecon DEF PacedNext, Next

\* With auto-reconnect, and as long as the user does not outrun the scheduler, no ssh
\* child is left that nobody owns (ssh.go:690, 1101, 1151).
THEOREM PacedNoOrphan == PacedSpec => []NoOrphan
<1>1. Init => NoOrphan
  BY DEF Init, NoOrphan
<1>2. PInv /\ NoOrphan /\ [PacedNext]_vars => NoOrphan'
  BY OwnNext
<1> QED
  BY <1>1, <1>2, PacedAlways, PTL DEF PacedSpec

-----------------------------------------------------------------------------
(* The manager implements TunnelSlot.  What the slot shows is told by the     *)
(* newest message as well, but for the gap between a store and its report.    *)

Told ==
  /\ slot = NoConn => note.status \in {"none", "stopped"} /\ ~note.terminal
  /\ slot # NoConn =>
       /\ conn[slot].status # "stopped"
       /\ (\A k \in Callers : caller[k].pc # "stored") => note.status = conn[slot].status
  /\ \A k \in Callers : caller[k].pc = "stored" => ~note.terminal

\* Steps that TunnelSlot does not see.
LEMMA Unseen ==
  ASSUME TypeInv, Told, UNCHANGED <<slot, note>>,
         slot \in Conns => conn'[slot].status = conn[slot].status,
         \A k \in Callers : caller'[k].pc = "stored" <=> caller[k].pc = "stored"
  PROVE  Told' /\ UNCHANGED Slot!slotVars
BY DEF TypeInv, TypeOK, MaybeConn, Told, Slot!slotVars

LEMMA SimConnect ==
  ASSUME PInv, Told, Paced, NEW k \in Callers, ConnectStep(k)
  PROVE  Told' /\ [Slot!SlotNext]_(Slot!slotVars)
<1> USE DEF PInv, TypeInv, TypeOK
<1>1. CASE ConnectBegin(k) \/ ConnectFail(k) \/ ConnectLost(k)
  <2>1. UNCHANGED <<slot, note, conn>>
    BY <1>1 DEF ConnectBegin, ConnectFail, ConnectLost
  <2>2. \A j \in Callers : caller'[j].pc = "stored" <=> caller[j].pc = "stored"
    BY <1>1, Idle DEF ConnectBegin, ConnectFail, ConnectLost, CallerRec
  <2> QED
    BY <2>1, <2>2, Unseen
<1>2. ASSUME NEW c \in Conns, NEW q \in Procs, NEW ip \in IPs, ConnectStart(k, c, q, ip)
      PROVE  Told' /\ UNCHANGED Slot!slotVars
  <2>1. UNCHANGED <<slot, note>> /\ slot # c /\ \A d \in Conns \ {c} : conn'[d] = conn[d]
    BY <1>2 DEF ConnectStart, FreeConn
  <2>2. \A j \in Callers : caller'[j].pc = "stored" <=> caller[j].pc = "stored"
    BY <1>2 DEF ConnectStart
  <2> QED
    BY <2>1, <2>2, Unseen
<1>3. CASE ConnectStore(k)
  <2>1. /\ UNCHANGED <<conn, note>> /\ slot = NoConn /\ caller[k].pc = "started"
        /\ slot' = caller[k].conn /\ slot' \in Conns /\ slot' # NoConn
        /\ caller'[k].pc = "stored"
    BY <1>3, NullAssumption DEF ConnectStore, CallersHold, CallerRec
  <2>2. conn[slot'].status = "connecting" /\ ~note.terminal
    BY <2>1 DEF PacedInv, Begun, Holds, Told
  <2>3. Told'
    BY <2>1, <2>2 DEF Told
  <2>4. Slot!Begin
    BY <2>1, <2>2 DEF Slot!Begin, Slot!Moved
  <2> QED
    BY <2>3, <2>4 DEF Slot!SlotNext
<1>4. CASE ConnectDone(k)
  <2>1. /\ UNCHANGED <<slot, conn>> /\ note' = [status |-> "connecting", terminal |-> FALSE]
        /\ caller[k].pc = "stored" /\ caller[k].conn = slot /\ slot \in Conns
    BY <1>4 DEF ConnectDone, Notify, CallersHold, PacedInv, Bridged
  <2>2. conn[slot].status = "connecting" /\ ~note.terminal
    BY <2>1 DEF PacedInv, Begun, Holds, Told
  <2>3. Told'
    BY <2>1, <2>2, NullAssumption DEF Told
  <2>4. UNCHANGED Slot!slotVars
    BY <2>1, <2>2 DEF Slot!slotVars
  <2> QED
    BY <2>3, <2>4
<1> QED
  BY <1>1, <1>2, <1>3, <1>4 DEF ConnectStep

LEMMA SimMonitor ==
  ASSUME PInv, Told, NEW p \in Procs, MonitorStep(p)
  PROVE  Told' /\ [Slot!SlotNext]_(Slot!slotVars)
<1> USE DEF PInv, TypeInv, TypeOK
<1>1. slot' = slot /\ caller' = caller
  BY DEF MonitorStep, MonitorLookup, MonitorWait, MonitorStopped, MonitorExit, MonitorTimer,
     MonitorUnconfirmed, MonitorConfirm, ExitIgnored, ExitRetried, ExitFinal
<1>2. CASE \/ MonitorLookup(p) \/ MonitorWait(p) \/ MonitorStopped(p) \/ MonitorExit(p)
           \/ MonitorTimer(p) \/ MonitorUnconfirmed(p) \/ ExitIgnored(p)
  <2>1. note' = note /\ conn' = conn
    BY <1>2 DEF MonitorLookup, MonitorWait, MonitorStopped, MonitorExit, MonitorTimer,
       MonitorUnconfirmed, ExitIgnored
  <2> QED
    BY <1>1, <2>1, Unseen
<1>3. ASSUME monitor[p].pc \in {"confirm", "exited"}
      PROVE  /\ monitor[p].conn = slot /\ slot \in Conns
             /\ \/ conn[slot].status \in {"connecting", "running"}
                \/ AutoReconnect /\ conn[slot].status = "disconnected"
             /\ monitor[p].pc = "confirm" => conn[slot].status # "running"
             /\ \A k \in Callers : caller[k].pc # "stored"
  <2>1. monitor[p].conn = slot /\ Tends(p)
    BY <1>3 DEF PacedInv, Bridged, Tends
  <2> QED
    BY <1>3, <2>1, SlotThere DEF PacedInv, Tended, OneAttends
<1>4. CASE MonitorConfirm(p)
  <2>1. /\ conn'[slot].status = "running" /\ monitor[p].pc = "confirm"
        /\ note' = [status |-> "running", terminal |-> FALSE]
    BY <1>3, <1>4 DEF MonitorConfirm, Notify, ConnRec
  <2>2. Told'
    BY <1>1, <1>3, <2>1, NullAssumption DEF Told
  <2>3. Slot!Up
    BY <1>1, <1>3, <2>1, NullAssumption DEF Slot!Up, Slot!MayLive, Slot!Moved
  <2> QED
    BY <2>2, <2>3 DEF Slot!SlotNext
<1>5. CASE ExitRetried(p)
  <2>1. /\ conn'[slot].status = "disconnected" /\ monitor[p].pc = "exited" /\ AutoReconnect
        /\ note' = [status |-> "disconnected", terminal |-> FALSE]
    BY <1>3, <1>5 DEF ExitRetried, Notify, ConnRec
  <2>2. Told'
    BY <1>1, <1>3, <2>1, NullAssumption DEF Told
  <2>3. Slot!Fall
    BY <1>1, <1>3, <2>1, NullAssumption DEF Slot!Fall, Slot!MayLive, Slot!Moved
  <2> QED
    BY <2>2, <2>3 DEF Slot!SlotNext
<1>6. ASSUME NEW s \in ExitStatus, ExitFinal(p, s)
      PROVE  Told' /\ Slot!SlotNext
  <2>1. /\ conn'[slot].status = s /\ monitor[p].pc = "exited"
        /\ s = "disconnected" => ~AutoReconnect
        /\ note' = [status |-> s, terminal |-> TRUE]
    BY <1>3, <1>6 DEF ExitFinal, NotifyTerminal, ConnRec
  <2>2. s \in {"disconnected", "auth_failed"}
    BY DEF ExitStatus
  <2>3. Told'
    BY <1>1, <1>3, <2>1, <2>2, NullAssumption DEF Told
  <2>4. Slot!Fail(s)
    BY <1>1, <1>3, <2>1, <2>2, NullAssumption DEF Slot!Fail, Slot!MayLive, Slot!Ended
  <2> QED
    BY <2>2, <2>3, <2>4 DEF Slot!SlotNext, Slot!Tracked
<1> QED
  BY <1>2, <1>4, <1>5, <1>6 DEF MonitorStep

LEMMA SimRecon ==
  ASSUME PInv, Told, Paced, NEW p \in Procs, ReconStep(p)
  PROVE  Told' /\ [Slot!SlotNext]_(Slot!slotVars)
<1> USE DEF PInv, TypeInv, TypeOK
<1>1. slot' = slot /\ caller' = caller /\ \A k \in Callers : caller[k].pc # "stored"
  BY DEF Paced, ReconStep, ReconLookup, ReconWake, ReconFail, ReconStart, ReconPublish,
     ReconAbort, ReconExhaust
<1>2. CASE \/ ReconLookup(p) \/ ReconWake(p) \/ ReconFail(p) \/ ReconAbort(p)
           \/ \E q \in Procs, ip \in IPs : ReconStart(p, q, ip)
           \/ ReconExhaust(p) /\ slot = NoConn
  <2>1. note' = note /\ conn' = conn
    BY <1>2 DEF ReconLookup, ReconWake, ReconFail, ReconStart, ReconAbort, ReconExhaust
  <2> QED
    BY <1>1, <2>1, Unseen
<1>3. CASE ReconPublish(p)
  <2>1. /\ slot = recon[p].conn /\ slot \in Conns /\ Retries(p)
        /\ conn'[slot].status = "connecting"
        /\ note' = [status |-> "connecting", terminal |-> FALSE]
    BY <1>3 DEF ReconPublish, StillMine, Notify, ReconsHold, Retries, ConnRec
  <2>2. conn[slot].status = "disconnected" /\ AutoReconnect
    BY <1>3, <2>1 DEF PacedInv, Retried, HoldInv, ReconPublish
  <2>3. Told'
    BY <1>1, <2>1, NullAssumption DEF Told
  <2>4. Slot!Retry
    BY <1>1, <2>1, <2>2, NullAssumption DEF Slot!Retry, Slot!Moved
  <2> QED
    BY <2>3, <2>4 DEF Slot!SlotNext
<1>4. CASE ReconExhaust(p) /\ slot # NoConn
  <2>1. /\ slot \in Conns /\ conn'[slot].status = "disconnected"
        /\ note' = [status |-> "disconnected", terminal |-> TRUE]
    BY <1>4 DEF ReconExhaust, NotifyTerminal, MaybeConn, ConnRec
  <2>2. AutoReconnect
    BY <1>4 DEF HoldInv, ReconExhaust
  <2>3. conn[slot].status \in Slot!Tracked
    BY <1>4, <2>1 DEF Told, ConnRec, Status, ExitStatus, Slot!Tracked
  <2>4. Told'
    BY <1>1, <2>1, NullAssumption DEF Told
  <2>5. Slot!GiveUp
    BY <1>1, <1>4, <2>1, <2>2, <2>3 DEF Slot!GiveUp, Slot!Ended
  <2> QED
    BY <2>4, <2>5 DEF Slot!SlotNext
<1> QED
  BY <1>2, <1>3, <1>4 DEF ReconStep

LEMMA SimNext ==
  PInv /\ Told /\ [PacedNext]_vars => Told' /\ [Slot!SlotNext]_(Slot!slotVars)
<1> SUFFICES ASSUME PInv, Told, [PacedNext]_vars
             PROVE  Told' /\ [Slot!SlotNext]_(Slot!slotVars)
  OBVIOUS
<1>1. CASE UNCHANGED vars
  BY <1>1, Unseen DEF vars, PInv
<1>2. CASE Paced /\ Disconnect
  <2>1. /\ slot # NoConn /\ slot' = NoConn
        /\ note' = [status |-> "stopped", terminal |-> FALSE]
        /\ conn[slot].status \in Status
    BY <1>2 DEF Disconnect, Notify, PInv, TypeInv, TypeOK, MaybeConn, ConnRec
  <2>2. Told'
    BY <2>1 DEF Told
  <2>3. Slot!Remove
    BY <2>1 DEF Slot!Remove, Slot!Moved, Status, ExitStatus
  <2> QED
    BY <2>2, <2>3 DEF Slot!SlotNext
<1>3. ASSUME NEW p \in Procs, ProcExit(p) \/ BeatStep(p)
      PROVE  Told' /\ UNCHANGED Slot!slotVars
  <2>1. UNCHANGED <<slot, note, caller>>
    BY <1>3 DEF ProcExit, BeatStep, BeatStop, BeatTick, BeatMiss, BeatSuperseded,
       BeatSatisfied, BeatCondemns, BeatKill
  <2>2. \A c \in Conns : conn'[c].status = conn[c].status
    <3>1. ASSUME NEW ips \in (SUBSET IPs) \ {{}}, BeatCondemns(p, ips)
          PROVE  \A c \in Conns : conn'[c].status = conn[c].status
      BY <3>1 DEF BeatCondemns, PInv, TypeInv, TypeOK, ConnRec
    <3> QED
      BY <1>3, <3>1 DEF ProcExit, BeatStep, BeatStop, BeatTick, BeatMiss, BeatSuperseded,
         BeatSatisfied, BeatKill
  <2> QED
    BY <2>1, <2>2, Unseen DEF PInv
<1> QED
  BY <1>1, <1>2, <1>3, SimConnect, SimMonitor, SimRecon DEF PacedNext, Next

LEMMA ToldAlways == PacedSpec => [](PInv /\ Told)
<1>1. Init => Told
  BY DEF Init, Told, IdleCaller
<1>2. PInv /\ Told /\ [PacedNext]_vars => Told'
  BY SimNext
<1> QED
  BY <1>1, <1>2, PacedAlways, PTL DEF PacedSpec

\* The manager implements the slot that GetStatus and the callbacks show: each of its
\* critical sections moves the status as TunnelSlot allows or leaves it, and final
\* failures, no other transition, are announced as such (ssh.go:161, 979).
THEOREM ImplementsSlot == PacedSpec => SlotSpec
<1>1. Init => Slot!SlotInit
  BY DEF Init, Slot!SlotInit
<1>2. PInv /\ Told /\ [PacedNext]_vars => [Slot!SlotNext]_(Slot!slotVars)
  BY SimNext
<1> QED
  BY <1>1, <1>2, ToldAlways, PTL DEF PacedSpec, SlotSpec, Slot!SlotSpec

\* The newest message queued for the UI is the present state of the forward
\* (ssh.go:54, 98).
THEOREM PacedNews == PacedSpec => []NewsIsCurrent
<1>1. Told => NewsIsCurrent
  BY DEF Told, NewsIsCurrent
<1> QED
  BY <1>1, ToldAlways, PTL

-----------------------------------------------------------------------------
(* Watched: the one who looks after the connection stays, hands over or       *)
(* announces the end.                                                         *)

Cared ==
  slot # NoConn =>
    \/ \E k \in Callers : caller[k].pc = "stored"
    \/ \E p \in Procs : Tends(p) \/ Retries(p)
    \/ note.terminal

LEMMA CaredFrame ==
  ASSUME Cared, UNCHANGED <<slot, note>>,
         \A k \in Callers : caller[k].pc = "stored" => caller'[k].pc = "stored",
         slot # NoConn => \A p \in Procs : Tends(p) \/ Retries(p) => Tends(p)' \/ Retries(p)'
  PROVE  Cared'
BY DEF Cared

LEMMA CaredMonitor ==
  ASSUME PInv, Cared, NEW p \in Procs, MonitorStep(p)
  PROVE  Cared'
<1> USE DEF PInv, TypeInv, TypeOK
<1>1. CASE MonitorLookup(p) \/ MonitorWait(p) \/ MonitorExit(p) \/ MonitorTimer(p)
  <2>1. /\ UNCHANGED <<slot, note, caller, recon>>
        /\ \A q \in Procs \ {p} : monitor'[q] = monitor[q]
    BY <1>1 DEF MonitorLookup, MonitorWait, MonitorExit, MonitorTimer
  <2>2. slot # NoConn /\ Tends(p) => Tends(p)'
    BY <1>1 DEF MonitorLookup, MonitorWait, MonitorExit, MonitorSeesExit, MonitorTimer, Tends,
       MonitorRec
  <2> QED
    BY <2>1, <2>2, CaredFrame DEF Tends, Retries
<1>2. CASE MonitorStopped(p)
  <2>1. /\ UNCHANGED <<slot, note, caller, recon>>
        /\ \A q \in Procs \ {p} : monitor'[q] = monitor[q]
    BY <1>2 DEF MonitorStopped
  <2>2. ~Tends(p)
    BY <1>2, SlotThere, NullAssumption
    DEF MonitorStopped, MonitorSeesExit, Tends, StopInv, SlotLive, PacedInv
  <2> QED
    BY <2>1, <2>2, CaredFrame DEF Tends, Retries
<1>3. CASE MonitorUnconfirmed(p) \/ ExitIgnored(p)
  BY <1>3 DEF MonitorUnconfirmed, ExitIgnored, Cared
<1>4. CASE MonitorConfirm(p)
  <2>1. slot' = slot /\ monitor'[p].pc = "running" /\ monitor'[p].conn = slot
    BY <1>4 DEF MonitorConfirm, MonitorRec, PacedInv, Bridged
  <2> QED
    BY <2>1 DEF Cared, Tends
<1>5. CASE ExitRetried(p)
  <2>1. slot' = slot /\ recon'[p].pc = "spawned"
    BY <1>5, Idle DEF ExitRetried, Spawned, NoRecon
  <2> QED
    BY <2>1 DEF Cared, Retries
<1>6. CASE \E s \in ExitStatus : ExitFinal(p, s)
  BY <1>6 DEF ExitFinal, NotifyTerminal, Cared
<1> QED
  BY <1>1, <1>2, <1>3, <1>4, <1>5, <1>6 DEF MonitorStep

LEMMA CaredRecon ==
  ASSUME PInv, Cared, NEW p \in Procs, ReconStep(p)
  PROVE  Cared'
<1> USE DEF PInv, TypeInv, TypeOK
<1>1. CASE \/ ReconLookup(p) \/ ReconWake(p) \/ ReconFail(p) \/ ReconAbort(p)
           \/ \E q \in Procs, ip \in IPs : ReconStart(p, q, ip)
  <2>1. /\ UNCHANGED <<slot, note, caller, monitor>>
        /\ \A q \in Procs \ {p} : recon'[q] = recon[q]
    BY <1>1 DEF ReconLookup, ReconWake, ReconFail, ReconStart, ReconAbort
  <2>2. slot # NoConn /\ Retries(p) => Retries(p)'
    <3>1. CASE ReconLookup(p)
      BY <3>1 DEF ReconLookup, Retries, ReconRec
    <3>2. CASE ReconWake(p)
      BY <3>2 DEF ReconWake, Retries, ReconRec, StopInv, SlotLive
    <3>3. CASE ReconFail(p) \/ \E q \in Procs, ip \in IPs : ReconStart(p, q, ip)
      BY <3>3 DEF ReconFail, ReconStart, Retries, ReconRec
    <3>4. CASE ReconAbort(p)
      BY <3>4 DEF ReconAbort, StillMine, Retries
    <3> QED
      BY <1>1, <3>1, <3>2, <3>3, <3>4
  <2> QED
    BY <2>1, <2>2, CaredFrame DEF Tends, Retries
<1>2. CASE ReconPublish(p)
  <2>1. slot' = slot /\ recon[p].proc \in Procs
    BY <1>2 DEF ReconPublish, ReconsHold
  <2>2. monitor'[recon[p].proc].pc = "spawned"
    BY <1>2, <2>1, Idle DEF ReconPublish, GoMonitor
  <2> QED
    BY <2>1, <2>2 DEF Cared, Tends
<1>3. CASE ReconExhaust(p)
  BY <1>3 DEF ReconExhaust, NotifyTerminal, Cared
<1> QED
  BY <1>1, <1>2, <1>3 DEF ReconStep

LEMMA CaredNext == PInv /\ Cared /\ [PacedNext]_vars => Cared'
<1> SUFFICES ASSUME PInv, Cared, [PacedNext]_vars PROVE Cared'
  OBVIOUS
<1> USE DEF PInv, TypeInv, TypeOK
<1>1. CASE UNCHANGED vars
  BY <1>1, CaredFrame DEF vars, Tends, Retries
<1>2. CASE Disconnect
  BY <1>2 DEF Disconnect, Cared
<1>3. ASSUME NEW k \in Callers, ConnectStep(k)
      PROVE  Cared'
  <2>1. CASE ConnectStore(k)
    BY <2>1 DEF ConnectStore, Cared, CallerRec
  <2>2. CASE ConnectDone(k)
    <3>1. slot' = slot /\ caller[k].proc \in Procs
      BY <2>2 DEF ConnectDone, CallersHold
    <3>2. monitor'[caller[k].proc].pc = "spawned"
      BY <2>2, <3>1, Idle DEF ConnectDone, GoMonitor
    <3> QED
      BY <3>1, <3>2 DEF Cared, Tends
  <2>3. CASE \/ ConnectBegin(k) \/ ConnectFail(k) \/ ConnectLost(k)
             \/ \E c \in Conns, q \in Procs, ip \in IPs : ConnectStart(k, c, q, ip)
    <3>1. UNCHANGED <<slot, note, monitor, recon>>
      BY <2>3 DEF ConnectBegin, ConnectFail, ConnectLost, ConnectStart
    <3>2. \A j \in Callers : caller[j].pc = "stored" => caller'[j].pc = "stored"
      BY <2>3 DEF ConnectBegin, ConnectFail, ConnectLost, ConnectStart
    <3> QED
      BY <3>1, <3>2, CaredFrame DEF Tends, Retries
  <2> QED
    BY <1>3, <2>1, <2>2, <2>3 DEF ConnectStep
<1>4. ASSUME NEW p \in Procs, ProcExit(p) \/ BeatStep(p)
      PROVE  Cared'
  <2>1. UNCHANGED <<slot, note, caller, monitor, recon>>
    BY <1>4 DEF ProcExit, BeatStep, BeatStop, BeatTick, BeatMiss, BeatSuperseded,
       BeatSatisfied, BeatCondemns, BeatKill
  <2> QED
    BY <2>1, CaredFrame DEF Tends, Retries
<1> QED
  BY <1>1, <1>2, <1>3, <1>4, CaredMonitor, CaredRecon DEF PacedNext, Next

\* The tunnel's current process is watched, its exit is being handled, a reconnect is
\* on its way, or the user was told that nothing will follow (ssh.go:728, 996, 1128).
THEOREM PacedWatched == PacedSpec => []Watched
<1>1. Init => Cared
  BY DEF Init, Cared
<1>2. PInv /\ Cared /\ [PacedNext]_vars => Cared'
  BY CaredNext
<1>3. PInv /\ Cared => Watched
  BY DEF PInv, TypeInv, TypeOK, PacedInv, Bridged, Tended, Cared, Watched, Tends, Retries
<1> QED
  BY <1>1, <1>2, <1>3, PacedAlways, PTL DEF PacedSpec

-----------------------------------------------------------------------------
(* RestartMarkIsFresh.  The mark is set on a running tunnel by the heartbeat  *)
(* that will kill its process, and only the exit of that process follows.     *)

LEMMA MarkFrame ==
  ASSUME RestartMarkIsFresh, slot' = slot,
         slot # NoConn => /\ conn'[slot].status = conn[slot].status
                          /\ conn'[slot].proc = conn[slot].proc
                          /\ conn'[slot].ddnsRestart = conn[slot].ddnsRestart
                          /\ proc'[conn[slot].proc].state = "alive" =>
                               proc[conn[slot].proc].state = "alive",
         \A p \in Procs : beat[p].pc = "kill" =>
           beat'[p] = beat[p] \/ proc'[beat[p].proc].state # "alive"
  PROVE  RestartMarkIsFresh'
BY DEF RestartMarkIsFresh

LEMMA MarkConnect ==
  ASSUME PInv, RestartMarkIsFresh, NEW k \in Callers, ConnectStep(k)
  PROVE  RestartMarkIsFresh'
<1> USE DEF PInv, TypeInv, TypeOK
<1>1. CASE ConnectBegin(k) \/ ConnectFail(k) \/ ConnectDone(k)
  BY <1>1, MarkFrame DEF ConnectBegin, ConnectFail, ConnectDone
<1>2. ASSUME NEW c \in Conns, NEW q \in Procs, NEW ip \in IPs, ConnectStart(k, c, q, ip)
      PROVE  RestartMarkIsFresh'
  <2>1. /\ UNCHANGED <<slot, beat>> /\ slot # c
        /\ \A d \in Conns \ {c} : conn'[d] = conn[d]
    BY <1>2 DEF ConnectStart, FreeConn
  <2>2. slot # NoConn => proc'[conn[slot].proc] = proc[conn[slot].proc]
    BY <1>2 DEF ConnectStart, FreeProc, Started, MaybeConn
  <2> QED
    BY <2>1, <2>2, MarkFrame DEF MaybeConn
<1>3. CASE ConnectStore(k)
  <2>1. UNCHANGED conn /\ slot' = caller[k].conn /\ caller[k].pc = "started"
    BY <1>3 DEF ConnectStore
  <2> QED
    BY <2>1 DEF PacedInv, Begun, Holds, RestartMarkIsFresh
<1>4. CASE ConnectLost(k)
  <2>1. \A r \in Procs : proc'[r].state = "alive" => proc[r].state = "alive"
    BY <1>4, KillKills DEF ConnectLost
  <2>2. slot # NoConn => conn[slot].proc \in Procs
    BY DEF MaybeConn, Allocated, FreeConn, ConnRec, MaybeProc
  <2> QED
    BY <1>4, <2>1, <2>2, MarkFrame DEF ConnectLost
<1> QED
  BY <1>1, <1>2, <1>3, <1>4 DEF ConnectStep

LEMMA MarkMonitor ==
  ASSUME PInv, RestartMarkIsFresh, NEW p \in Procs, MonitorStep(p)
  PROVE  RestartMarkIsFresh'
<1> USE DEF PInv, TypeInv, TypeOK
<1>1. CASE \/ MonitorLookup(p) \/ MonitorWait(p) \/ MonitorStopped(p) \/ MonitorExit(p)
           \/ MonitorTimer(p) \/ MonitorUnconfirmed(p) \/ ExitIgnored(p)
  <2>1. UNCHANGED <<slot, conn, proc, beat>>
    BY <1>1 DEF MonitorLookup, MonitorWait, MonitorStopped, MonitorExit, MonitorTimer,
       MonitorUnconfirmed, ExitIgnored
  <2> QED
    BY <2>1, MarkFrame
<1>2. CASE MonitorConfirm(p)
  <2>1. monitor[p].pc = "confirm" /\ monitor[p].conn = slot /\ Tends(p) /\ slot \in Conns
    BY <1>2, SlotThere DEF MonitorConfirm, PacedInv, Bridged, Tends
  <2>2. slot' = slot /\ conn'[slot].ddnsRestart = conn[slot].ddnsRestart
    BY <1>2, <2>1 DEF MonitorConfirm, ConnRec
  <2>3. ~conn[slot].ddnsRestart
    BY <2>1 DEF PacedInv, Tended
  <2> QED
    BY <2>2, <2>3 DEF RestartMarkIsFresh
<1>3. CASE ExitRetried(p)
  <2>1. slot' = slot /\ slot \in Conns /\ ~conn'[slot].ddnsRestart
    BY <1>3 DEF ExitRetried, PacedInv, Bridged, MaybeConn, ConnRec
  <2> QED
    BY <2>1 DEF RestartMarkIsFresh
<1>4. ASSUME NEW s \in ExitStatus, ExitFinal(p, s)
      PROVE  RestartMarkIsFresh'
  <2>1. slot' = slot /\ slot \in Conns /\ conn'[slot].status = s
    BY <1>4 DEF ExitFinal, PacedInv, Bridged, MaybeConn, ConnRec
  <2> QED
    BY <2>1 DEF RestartMarkIsFresh, ExitStatus
<1> QED
  BY <1>1, <1>2, <1>3, <1>4 DEF MonitorStep

LEMMA MarkBeat ==
  ASSUME PInv, RestartMarkIsFresh, NEW p \in Procs, BeatStep(p)
  PROVE  RestartMarkIsFresh'
<1> USE DEF PInv, TypeInv, TypeOK
<1>1. CASE \/ BeatStop(p) \/ BeatTick(p) \/ BeatMiss(p) \/ BeatSuperseded(p)
           \/ \E ips \in (SUBSET IPs) \ {{}} : BeatSatisfied(p, ips)
  <2>1. /\ UNCHANGED <<slot, conn, proc>> /\ beat[p].pc # "kill"
        /\ \A q \in Procs \ {p} : beat'[q] = beat[q]
    BY <1>1 DEF BeatStop, BeatTick, BeatMiss, BeatSuperseded, BeatSatisfied, BeatEnds
  <2> QED
    BY <2>1, MarkFrame
<1>2. ASSUME NEW ips \in (SUBSET IPs) \ {{}}, BeatCondemns(p, ips)
      PROVE  RestartMarkIsFresh'
  <2> DEFINE c == beat[p].conn
  <2>1. /\ UNCHANGED <<slot, proc>> /\ beat[p].pc = "fetch" /\ conn[c].status = "running"
        /\ c \in Conns
        /\ beat'[p].pc = "kill" /\ beat'[p].proc = conn[c].proc
        /\ \A q \in Procs \ {p} : beat'[q] = beat[q]
    BY <1>2 DEF BeatCondemns, BeatRecheck, BeatCurrent, BeatsHold, BeatRec
  <2>2. /\ conn'[c].status = conn[c].status /\ conn'[c].proc = conn[c].proc
        /\ \A d \in Conns \ {c} : conn'[d] = conn[d]
    BY <1>2, <2>1 DEF BeatCondemns, ConnRec
  <2>3. CASE slot = c
    BY <2>1, <2>2, <2>3 DEF RestartMarkIsFresh
  <2>4. CASE slot # c
    BY <2>1, <2>2, <2>4, MarkFrame DEF MaybeConn
  <2> QED
    BY <2>3, <2>4
<1>3. CASE BeatKill(p)
  <2>1. /\ UNCHANGED <<slot, conn>> /\ beat[p].proc \in Procs
        /\ \A q \in Procs \ {p} : beat'[q] = beat[q]
    BY <1>3 DEF BeatKill, BeatEnds, BeatsHold
  <2>2. /\ \A r \in Procs : proc'[r].state = "alive" => proc[r].state = "alive"
        /\ proc'[beat[p].proc].state # "alive"
    BY <1>3, <2>1, KillKills DEF BeatKill
  <2>3. slot # NoConn => conn[slot].proc \in Procs
    BY DEF MaybeConn, Allocated, FreeConn, ConnRec, MaybeProc
  <2> QED
    BY <2>1, <2>2, <2>3, MarkFrame
<1> QED
  BY <1>1, <1>2, <1>3 DEF BeatStep

LEMMA MarkRecon ==
  ASSUME PInv, RestartMarkIsFresh, NEW p \in Procs, ReconStep(p)
  PROVE  RestartMarkIsFresh'
<1> USE DEF PInv, TypeInv, TypeOK
<1>1. slot # NoConn => slot \in Conns /\ conn[slot].proc \in Procs
  BY DEF MaybeConn, Allocated, FreeConn, ConnRec, MaybeProc
<1>2. CASE ReconLookup(p) \/ ReconWake(p) \/ ReconFail(p)
  BY <1>2, MarkFrame DEF ReconLookup, ReconWake, ReconFail
<1>3. ASSUME NEW q \in Procs, NEW ip \in IPs, ReconStart(p, q, ip)
      PROVE  RestartMarkIsFresh'
  <2>1. UNCHANGED <<slot, conn, beat>> /\ \A r \in Procs \ {q} : proc'[r] = proc[r]
    BY <1>3 DEF ReconStart, Started
  <2>2. slot # NoConn => conn[slot].proc # q
    BY <1>1, <1>3 DEF ReconStart, FreeProc
  <2> QED
    BY <1>1, <2>1, <2>2, MarkFrame
<1>4. CASE ReconPublish(p)
  <2>1. slot' = slot /\ slot \in Conns /\ Retries(p)
        /\ conn'[slot].ddnsRestart = conn[slot].ddnsRestart
    BY <1>4 DEF ReconPublish, StillMine, Retries, ReconsHold, ConnRec
  <2> QED
    BY <2>1 DEF PacedInv, Retried, RestartMarkIsFresh
<1>5. CASE ReconAbort(p)
  <2>1. \A r \in Procs : proc'[r].state = "alive" => proc[r].state = "alive"
    BY <1>5, KillKills DEF ReconAbort
  <2> QED
    BY <1>1, <1>5, <2>1, MarkFrame DEF ReconAbort
<1>6. CASE ReconExhaust(p)
  <2>1. slot' = slot /\ slot # NoConn => conn'[slot].status = "disconnected"
    BY <1>1, <1>6 DEF ReconExhaust, ConnRec
  <2> QED
    BY <1>6, <2>1 DEF ReconExhaust, RestartMarkIsFresh
<1> QED
  BY <1>2, <1>3, <1>4, <1>5, <1>6 DEF ReconStep

LEMMA MarkNext == PInv /\ RestartMarkIsFresh /\ [PacedNext]_vars => RestartMarkIsFresh'
<1> SUFFICES ASSUME PInv, RestartMarkIsFresh, [PacedNext]_vars PROVE RestartMarkIsFresh'
  OBVIOUS
<1>1. CASE UNCHANGED vars
  BY <1>1, MarkFrame DEF vars
<1>2. CASE Disconnect
  BY <1>2 DEF Disconnect, RestartMarkIsFresh
<1>3. ASSUME NEW p \in Procs, ProcExit(p)
      PROVE  RestartMarkIsFresh'
  <2>1. \A r \in Procs : proc'[r].state = "alive" => proc[r].state = "alive"
    BY <1>3 DEF ProcExit, PInv, TypeInv, TypeOK, ProcRec
  <2>2. slot # NoConn => conn[slot].proc \in Procs
    BY DEF PInv, TypeInv, TypeOK, MaybeConn, Allocated, FreeConn, ConnRec, MaybeProc
  <2> QED
    BY <1>3, <2>1, <2>2, MarkFrame DEF ProcExit
<1> QED
  BY <1>1, <1>2, <1>3, MarkConnect, MarkMonitor, MarkBeat, MarkRecon DEF PacedNext, Next

\* The mark a heartbeat leaves belongs to the restart it causes: no later exit finds it
\* set and skips the wait that was meant for it (ssh.go:26, 988).
THEOREM PacedMark == PacedSpec => []RestartMarkIsFresh
<1>1. Init => RestartMarkIsFresh
  BY DEF Init, RestartMarkIsFresh
<1>2. PInv /\ RestartMarkIsFresh /\ [PacedNext]_vars => RestartMarkIsFresh'
  BY MarkNext
<1> QED
  BY <1>1, <1>2, PacedAlways, PTL DEF PacedSpec
=============================================================================
