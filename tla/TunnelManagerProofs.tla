------------------------- MODULE TunnelManagerProofs -------------------------
(* Proofs about TunnelManager, for every number of connections, processes,  *)
(* callers and addresses, any retry limit and any bound.                    *)
EXTENDS TunnelManager, TLAPS

\* A connection something refers to was allocated: it has a process.
Allocated == \A c \in Conns : conn[c].proc = NoProc => FreeConn(c)

TypeInv == TypeOK /\ Allocated

\* The records of goroutines that do not run, and of new ones.
LEMMA Idle ==
  /\ IdleCaller \in CallerRec /\ IdleCaller.pc = "idle" /\ IdleCaller.conn = NoConn
  /\ NoMonitor \in MonitorRec /\ NoMonitor.pc = "none" /\ NoMonitor.conn = NoConn
  /\ NoBeat \in BeatRec /\ NoBeat.pc = "none" /\ NoBeat.conn = NoConn
  /\ NoRecon \in ReconRec /\ NoRecon.pc = "none" /\ NoRecon.conn = NoConn
  /\ Spawned(NoMonitor) \in MonitorRec /\ Spawned(NoMonitor).pc = "spawned"
  /\ Spawned(NoMonitor).conn = NoConn
  /\ Spawned(NoRecon) \in ReconRec /\ Spawned(NoRecon).pc = "spawned"
  /\ Spawned(NoRecon).conn = NoConn
  /\ AnyIP \in IPs
BY IPAssumption DEF IdleCaller, CallerRec, NoMonitor, MonitorRec, NoBeat, BeatRec, AnyIP,
   NoRecon, ReconRec, Spawned, MaybeConn, MaybeProc

\* Killing and starting a child keep the table of children well-typed.
LEMMA Children ==
  ASSUME proc \in [Procs -> ProcRec]
  PROVE  /\ \A q : Killed(proc, q) \in [Procs -> ProcRec]
         /\ \A q \in Procs, ip \in IPs : Started(proc, q, ip) \in [Procs -> ProcRec]
BY DEF Killed, Started, ProcRec

LEMMA InitType == Init => TypeInv
<1> SUFFICES ASSUME Init PROVE TypeInv
  OBVIOUS
<1>1. [NewConn(NoProc, AnyIP) EXCEPT !.status = "stopped"] \in ConnRec
  BY Idle DEF NewConn, ConnRec, Status, MaybeProc
<1>2. [state |-> "dead", host |-> AnyIP] \in ProcRec
  BY Idle DEF ProcRec
<1>3. [status |-> "none", terminal |-> FALSE] \in NoteRec
  BY DEF NoteRec
<1>4. TypeOK
  BY <1>1, <1>2, <1>3, Idle
  DEF Init, TypeOK, CallersHold, MonitorsHold, BeatsHold, ReconsHold, MaybeConn
<1>5. Allocated
  BY Idle, NullAssumption DEF Init, Allocated, FreeConn
<1> QED
  BY <1>4, <1>5 DEF TypeInv

LEMMA ConnectType ==
  ASSUME TypeInv, NEW k \in Callers, ConnectStep(k)
  PROVE  TypeInv'
<1> USE DEF TypeInv, TypeOK
<1>1. CASE ConnectBegin(k)
  <2>1. caller' \in [Callers -> CallerRec] /\ CallersHold'
    BY <1>1 DEF ConnectBegin, CallerRec, CallersHold
  <2>2. Allocated'
    BY <1>1 DEF ConnectBegin, Allocated, FreeConn, CallerRec
  <2> QED
    BY <1>1, <2>1, <2>2 DEF ConnectBegin, MonitorsHold, BeatsHold, ReconsHold
<1>2. CASE ConnectFail(k)
  <2>1. caller' \in [Callers -> CallerRec] /\ CallersHold'
    BY <1>2, Idle DEF ConnectFail, CallersHold
  <2>2. Allocated'
    BY <1>2, Idle, NullAssumption DEF ConnectFail, Allocated, FreeConn
  <2> QED
    BY <1>2, <2>1, <2>2 DEF ConnectFail, MonitorsHold, BeatsHold, ReconsHold
<1>3. ASSUME NEW c \in Conns, NEW q \in Procs, NEW ip \in IPs, ConnectStart(k, c, q, ip)
      PROVE  TypeInv'
  <2>1. NewConn(q, ip) \in ConnRec /\ NewConn(q, ip).proc = q
    BY DEF NewConn, ConnRec, Status, MaybeProc
  <2>2. conn' \in [Conns -> ConnRec] /\ proc' \in [Procs -> ProcRec]
    BY <1>3, <2>1, Children DEF ConnectStart
  <2>3. caller' \in [Callers -> CallerRec] /\ CallersHold'
    BY <1>3 DEF ConnectStart, CallerRec, CallersHold, MaybeConn, MaybeProc
  <2>4. Allocated'
    BY <1>3, <2>1, NullAssumption DEF ConnectStart, Allocated, FreeConn
  <2> QED
    BY <1>3, <2>2, <2>3, <2>4 DEF ConnectStart, MonitorsHold, BeatsHold, ReconsHold
<1>4. CASE ConnectStore(k)
  <2>1. caller' \in [Callers -> CallerRec] /\ CallersHold' /\ slot' \in MaybeConn
    BY <1>4 DEF ConnectStore, CallerRec, CallersHold
  <2>2. Allocated'
    BY <1>4 DEF ConnectStore, Allocated, FreeConn, CallerRec
  <2> QED
    BY <1>4, <2>1, <2>2 DEF ConnectStore, MonitorsHold, BeatsHold, ReconsHold
<1>5. CASE ConnectLost(k)
  <2>1. caller' \in [Callers -> CallerRec] /\ CallersHold' /\ proc' \in [Procs -> ProcRec]
    BY <1>5, Idle, Children DEF ConnectLost, CallersHold
  <2>2. Allocated'
    BY <1>5, Idle, NullAssumption DEF ConnectLost, Allocated, FreeConn
  <2> QED
    BY <1>5, <2>1, <2>2 DEF ConnectLost, MonitorsHold, BeatsHold, ReconsHold
<1>6. CASE ConnectDone(k)
  <2>1. caller' \in [Callers -> CallerRec] /\ CallersHold' /\ note' \in NoteRec
    BY <1>6, Idle DEF ConnectDone, CallersHold, Notify, NoteRec, Status
  <2>2. monitor' = [monitor EXCEPT ![caller[k].proc] = Spawned(NoMonitor)]
    BY <1>6 DEF ConnectDone, GoMonitor
  <2>3. monitor' \in [Procs -> MonitorRec] /\ MonitorsHold'
    BY <2>2, Idle DEF MonitorsHold
  <2>4. Allocated'
    BY <1>6, <2>2, Idle, NullAssumption DEF ConnectDone, Allocated, FreeConn
  <2> QED
    BY <1>6, <2>1, <2>3, <2>4 DEF ConnectDone, BeatsHold, ReconsHold
<1> QED
  BY <1>1, <1>2, <1>3, <1>4, <1>5, <1>6 DEF ConnectStep

LEMMA SystemType ==
  ASSUME TypeInv, Disconnect \/ \E p \in Procs : ProcExit(p)
  PROVE  TypeInv'
<1> USE DEF TypeInv, TypeOK
<1>1. CASE Disconnect
  <2>1. conn' \in [Conns -> ConnRec] /\ \A c \in Conns : conn'[c].proc = conn[c].proc
    BY <1>1 DEF Disconnect, ConnRec, Status, MaybeConn
  <2>2. proc' \in [Procs -> ProcRec] /\ note' \in NoteRec /\ slot' \in MaybeConn
    BY <1>1, Children DEF Disconnect, Notify, NoteRec, Status, MaybeConn
  <2>3. Allocated'
    BY <1>1, <2>1, NullAssumption DEF Disconnect, Allocated, FreeConn
  <2> QED
    BY <1>1, <2>1, <2>2, <2>3
    DEF Disconnect, CallersHold, MonitorsHold, BeatsHold, ReconsHold
<1>2. ASSUME NEW p \in Procs, ProcExit(p)
      PROVE  TypeInv'
  BY <1>2 DEF ProcExit, ProcRec, Allocated, FreeConn, CallersHold, MonitorsHold, BeatsHold,
              ReconsHold
<1> QED
  BY <1>1, <1>2

LEMMA MonitorType ==
  ASSUME TypeInv, NEW p \in Procs, MonitorStep(p)
  PROVE  TypeInv'
<1> USE DEF TypeInv, TypeOK
<1>1. CASE MonitorLookup(p)
  <2>1. slot # NoConn => [pc |-> "attach", conn |-> slot, proc |-> NoProc] \in MonitorRec
    BY DEF MonitorRec, MaybeConn, MaybeProc
  <2>2. monitor' \in [Procs -> MonitorRec] /\ MonitorsHold'
    BY <1>1, <2>1, Idle DEF MonitorLookup, MonitorsHold, MaybeConn
  <2>3. Allocated'
    BY <1>1, Idle, NullAssumption DEF MonitorLookup, Allocated, FreeConn
  <2> QED
    BY <1>1, <2>2, <2>3 DEF MonitorLookup, CallersHold, BeatsHold, ReconsHold
<1>2. CASE MonitorWait(p)
  <2>1. monitor[p].conn \in Conns /\ conn[monitor[p].conn].proc \in Procs
    BY <1>2 DEF MonitorWait, MonitorsHold, Allocated, FreeConn, ConnRec, MaybeProc
  <2>2. monitor' \in [Procs -> MonitorRec] /\ MonitorsHold'
    BY <1>2, <2>1 DEF MonitorWait, MonitorRec, MonitorsHold, MaybeProc
  <2>3. Allocated'
    BY <1>2 DEF MonitorWait, Allocated, FreeConn, MonitorRec
  <2> QED
    BY <1>2, <2>2, <2>3 DEF MonitorWait, CallersHold, BeatsHold, ReconsHold
<1>3. CASE MonitorStopped(p) \/ MonitorUnconfirmed(p) \/ ExitIgnored(p)
  <2>1. monitor' = [monitor EXCEPT ![p] = NoMonitor]
    BY <1>3 DEF MonitorStopped, MonitorUnconfirmed, ExitIgnored
  <2>2. UNCHANGED <<slot, conn, proc, note, caller, beat, recon>>
    BY <1>3 DEF MonitorStopped, MonitorUnconfirmed, ExitIgnored
  <2>3. monitor' \in [Procs -> MonitorRec] /\ MonitorsHold'
    BY <2>1, Idle DEF MonitorsHold
  <2>4. Allocated'
    BY <2>1, <2>2, Idle, NullAssumption DEF Allocated, FreeConn
  <2> QED
    BY <2>2, <2>3, <2>4 DEF CallersHold, BeatsHold, ReconsHold
<1>4. CASE MonitorExit(p) \/ MonitorTimer(p)
  <2>1. PICK s \in {"exited", "confirm"} : monitor' = [monitor EXCEPT ![p].pc = s]
    BY <1>4 DEF MonitorExit, MonitorTimer
  <2>2. UNCHANGED <<slot, conn, proc, note, caller, beat, recon>>
    BY <1>4 DEF MonitorExit, MonitorTimer
  <2>3. monitor[p].pc \in {"window", "running"}
    BY <1>4 DEF MonitorExit, MonitorSeesExit, MonitorTimer
  <2>4. monitor' \in [Procs -> MonitorRec] /\ MonitorsHold'
    BY <2>1, <2>3 DEF MonitorRec, MonitorsHold
  <2>5. Allocated'
    BY <2>1, <2>2 DEF Allocated, FreeConn, MonitorRec
  <2> QED
    BY <2>2, <2>4, <2>5 DEF CallersHold, BeatsHold, ReconsHold
<1>5. CASE MonitorConfirm(p)
  <2> DEFINE c == monitor[p].conn
             b == [NoBeat EXCEPT !.pc = "tick", !.conn = c, !.gen = NextGen(c)]
  <2>1. c \in Conns /\ NextGen(c) \in Nat
    BY <1>5 DEF MonitorConfirm, MonitorsHold, NextGen, ConnRec
  <2>2. conn' \in [Conns -> ConnRec] /\ \A d \in Conns : conn'[d].proc = conn[d].proc
    BY <1>5, <2>1 DEF MonitorConfirm, ConnRec, Status
  <2>3. note' \in NoteRec
    BY <1>5 DEF MonitorConfirm, NoteRec, Notify, Status
  <2>4. monitor' \in [Procs -> MonitorRec] /\ MonitorsHold'
    BY <1>5 DEF MonitorConfirm, MonitorRec, MonitorsHold
  <2>5. b \in BeatRec /\ b.conn = c /\ b.pc = "tick"
    BY <2>1, Idle DEF BeatRec, MaybeConn, NoBeat, MaybeProc
  <2>6. beat' \in [Procs -> BeatRec] /\ BeatsHold'
    BY <1>5, <2>1, <2>5 DEF MonitorConfirm, BeatsHold
  <2>7. Allocated'
    BY <1>5, <2>1, <2>2, <2>5 DEF MonitorConfirm, Allocated, FreeConn, MonitorRec
  <2> QED
    BY <1>5, <2>2, <2>3, <2>4, <2>6, <2>7 DEF MonitorConfirm, CallersHold, ReconsHold
<1>6. CASE ExitRetried(p)
  <2> DEFINE c == monitor[p].conn
             r == [Spawned(NoRecon) EXCEPT !.fast = conn[c].ddnsRestart]
  <2>1. c \in Conns /\ conn[c].ddnsRestart \in BOOLEAN
    BY <1>6 DEF ExitRetried, MonitorsHold, ConnRec
  <2>2. conn' \in [Conns -> ConnRec] /\ \A d \in Conns : conn'[d].proc = conn[d].proc
    BY <1>6, <2>1 DEF ExitRetried, ConnRec, Status, ExitStatus
  <2>3. note' \in NoteRec
    BY <1>6 DEF ExitRetried, NoteRec, Notify, Status, ExitStatus
  <2>4. monitor' \in [Procs -> MonitorRec] /\ MonitorsHold'
    BY <1>6, Idle DEF ExitRetried, MonitorsHold
  <2>5. r \in ReconRec /\ r.conn = NoConn /\ r.pc = "spawned"
    BY <2>1, Idle DEF ReconRec
  <2>6. recon' \in [Procs -> ReconRec] /\ ReconsHold'
    BY <1>6, <2>5 DEF ExitRetried, ReconsHold
  <2>7. Allocated'
    BY <1>6, <2>1, <2>2, <2>5, Idle, NullAssumption DEF ExitRetried, Allocated, FreeConn
  <2> QED
    BY <1>6, <2>2, <2>3, <2>4, <2>6, <2>7 DEF ExitRetried, CallersHold, BeatsHold
<1>7. ASSUME NEW s \in ExitStatus, ExitFinal(p, s)
      PROVE  TypeInv'
  <2>1. s \in Status /\ monitor[p].conn \in Conns
    BY <1>7 DEF Status, ExitFinal, MonitorsHold
  <2>2. conn' \in [Conns -> ConnRec] /\ \A d \in Conns : conn'[d].proc = conn[d].proc
    BY <1>7, <2>1 DEF ExitFinal, ConnRec
  <2>3. note' \in NoteRec
    BY <1>7, <2>1 DEF ExitFinal, NoteRec, NotifyTerminal
  <2>4. monitor' \in [Procs -> MonitorRec] /\ MonitorsHold'
    BY <1>7, Idle DEF ExitFinal, MonitorsHold
  <2>5. Allocated'
    BY <1>7, <2>2, Idle, NullAssumption DEF ExitFinal, Allocated, FreeConn
  <2> QED
    BY <1>7, <2>2, <2>3, <2>4, <2>5 DEF ExitFinal, CallersHold, BeatsHold, ReconsHold
<1> QED
  BY <1>1, <1>2, <1>3, <1>4, <1>5, <1>6, <1>7 DEF MonitorStep

LEMMA BeatType ==
  ASSUME TypeInv, NEW p \in Procs, BeatStep(p)
  PROVE  TypeInv'
<1> USE DEF TypeInv, TypeOK
<1>1. CASE BeatStop(p) \/ BeatSuperseded(p) \/ (BeatTick(p) /\ ~BeatCurrent(p))
  <2>1. beat' = [beat EXCEPT ![p] = NoBeat]
    BY <1>1 DEF BeatStop, BeatSuperseded, BeatTick, BeatEnds
  <2>2. UNCHANGED <<slot, conn, proc, note, caller, monitor, recon>>
    BY <1>1 DEF BeatStop, BeatSuperseded, BeatTick
  <2>3. beat' \in [Procs -> BeatRec] /\ BeatsHold'
    BY <2>1, Idle DEF BeatsHold
  <2>4. Allocated'
    BY <2>1, <2>2, Idle, NullAssumption DEF Allocated, FreeConn
  <2> QED
    BY <2>2, <2>3, <2>4 DEF CallersHold, MonitorsHold, ReconsHold
<1>2. CASE BeatTick(p) /\ BeatCurrent(p)
  <2>1. beat[p].conn \in Conns /\ conn[beat[p].conn].ip \in IPs
    BY <1>2 DEF BeatTick, BeatsHold, ConnRec
  <2>2. beat' \in [Procs -> BeatRec] /\ BeatsHold'
    <3>1. PICK ip \in IPs : beat' = [beat EXCEPT ![p] = [@ EXCEPT !.pc = "fetch", !.ip = ip]]
      BY <1>2, <2>1 DEF BeatTick
    <3>2. beat[p] \in BeatRec
      OBVIOUS
    <3>3. [beat[p] EXCEPT !.pc = "fetch", !.ip = ip] \in BeatRec
      BY <3>2 DEF BeatRec
    <3>4. beat' \in [Procs -> BeatRec]
      BY <3>1, <3>3
    <3>5. beat'[p].pc = "fetch" /\ beat'[p].conn \in Conns
      BY <2>1, <3>1, <3>2 DEF BeatRec
    <3>6. \A q \in Procs \ {p} : beat'[q] = beat[q]
      BY <3>1
    <3> QED
      BY <3>4, <3>5, <3>6 DEF BeatsHold
  <2>3. Allocated'
    <3>1. \A q \in Procs : beat'[q].conn = beat[q].conn
      BY <1>2 DEF BeatTick, BeatRec
    <3> QED
      BY <1>2, <3>1 DEF BeatTick, Allocated, FreeConn
  <2> QED
    BY <1>2, <2>2, <2>3 DEF BeatTick, CallersHold, MonitorsHold, ReconsHold
<1>3. CASE BeatMiss(p) \/ \E ips \in (SUBSET IPs) \ {{}} : BeatSatisfied(p, ips)
  <2>1. beat[p].pc = "fetch" /\ beat' = [beat EXCEPT ![p].pc = "tick"]
    BY <1>3 DEF BeatMiss, BeatSatisfied
  <2>2. UNCHANGED <<slot, conn, proc, note, caller, monitor, recon>>
    BY <1>3 DEF BeatMiss, BeatSatisfied
  <2>3. beat' \in [Procs -> BeatRec] /\ BeatsHold'
    BY <2>1 DEF BeatRec, BeatsHold
  <2>4. Allocated'
    BY <2>1, <2>2 DEF Allocated, FreeConn, BeatRec
  <2> QED
    BY <2>2, <2>3, <2>4 DEF CallersHold, MonitorsHold, ReconsHold
<1>4. ASSUME NEW ips \in (SUBSET IPs) \ {{}}, BeatCondemns(p, ips)
      PROVE  TypeInv'
  <2>1. beat[p].conn \in Conns /\ conn[beat[p].conn].proc \in Procs
    BY <1>4 DEF BeatCondemns, BeatsHold, Allocated, FreeConn, ConnRec, MaybeProc
  <2>2. conn' \in [Conns -> ConnRec] /\ \A d \in Conns : conn'[d].proc = conn[d].proc
    BY <1>4, <2>1 DEF BeatCondemns, ConnRec
  <2>3. beat' \in [Procs -> BeatRec] /\ BeatsHold'
    BY <1>4, <2>1 DEF BeatCondemns, BeatRec, BeatsHold, MaybeProc
  <2>4. Allocated'
    BY <1>4, <2>2 DEF BeatCondemns, Allocated, FreeConn, BeatRec
  <2> QED
    BY <1>4, <2>2, <2>3, <2>4 DEF BeatCondemns, CallersHold, MonitorsHold, ReconsHold
<1>5. CASE BeatKill(p)
  <2>1. beat' \in [Procs -> BeatRec] /\ BeatsHold' /\ proc' \in [Procs -> ProcRec]
    BY <1>5, Idle, Children DEF BeatKill, BeatEnds, BeatsHold
  <2>2. Allocated'
    BY <1>5, Idle, NullAssumption DEF BeatKill, BeatEnds, Allocated, FreeConn
  <2> QED
    BY <1>5, <2>1, <2>2 DEF BeatKill, CallersHold, MonitorsHold, ReconsHold
<1> QED
  BY <1>1, <1>2, <1>3, <1>4, <1>5 DEF BeatStep

LEMMA ReconType ==
  ASSUME TypeInv, NEW p \in Procs, ReconStep(p)
  PROVE  TypeInv'
<1> USE DEF TypeInv, TypeOK
<1>1. CASE ReconLookup(p)
  <2> DEFINE r == [recon[p] EXCEPT !.pc = "waiting", !.conn = slot]
  <2>1. r \in ReconRec /\ r.pc = "waiting" /\ r.conn = slot
    BY DEF ReconRec
  <2>2. recon' = [recon EXCEPT ![p] = IF slot = NoConn THEN NoRecon ELSE r]
    BY <1>1 DEF ReconLookup
  <2> HIDE DEF r
  <2>3. recon' \in [Procs -> ReconRec] /\ ReconsHold'
    BY <2>1, <2>2, Idle DEF ReconsHold, MaybeConn
  <2>4. Allocated'
    BY <1>1, <2>1, <2>2, Idle, NullAssumption DEF ReconLookup, Allocated, FreeConn
  <2> QED
    BY <1>1, <2>3, <2>4 DEF ReconLookup, CallersHold, MonitorsHold, BeatsHold
<1>2. CASE ReconWake(p)
  <2> DEFINE r == [recon[p] EXCEPT !.pc = "resolving"]
  <2>1. r \in ReconRec /\ r.pc = "resolving" /\ r.conn = recon[p].conn
    BY DEF ReconRec
  <2>2. recon' = [recon EXCEPT ![p] = IF conn[recon[p].conn].stopped THEN NoRecon ELSE r]
    BY <1>2 DEF ReconWake
  <2> HIDE DEF r
  <2>3. recon' \in [Procs -> ReconRec] /\ ReconsHold'
    BY <1>2, <2>1, <2>2, Idle DEF ReconWake, ReconsHold
  <2>4. Allocated'
    BY <1>2, <2>1, <2>2, Idle, NullAssumption DEF ReconWake, Allocated, FreeConn
  <2> QED
    BY <1>2, <2>3, <2>4 DEF ReconWake, CallersHold, MonitorsHold, BeatsHold
<1>3. CASE ReconFail(p)
  <2>1. PICK s \in {"waiting", "exhausted"} :
          recon' = [recon EXCEPT ![p].pc = s, ![p].tries = recon[p].tries + 1]
    BY <1>3 DEF ReconFail
  <2>2. recon' \in [Procs -> ReconRec] /\ ReconsHold'
    BY <1>3, <2>1 DEF ReconFail, ReconRec, ReconsHold
  <2>3. Allocated'
    BY <1>3, <2>1 DEF ReconFail, Allocated, FreeConn, ReconRec
  <2> QED
    BY <1>3, <2>2, <2>3 DEF ReconFail, CallersHold, MonitorsHold, BeatsHold
<1>4. ASSUME NEW q \in Procs, NEW ip \in IPs, ReconStart(p, q, ip)
      PROVE  TypeInv'
  <2>1. recon' \in [Procs -> ReconRec] /\ ReconsHold' /\ proc' \in [Procs -> ProcRec]
    BY <1>4, Children DEF ReconStart, ReconRec, ReconsHold, MaybeProc
  <2>2. Allocated'
    BY <1>4 DEF ReconStart, Allocated, FreeConn, ReconRec
  <2> QED
    BY <1>4, <2>1, <2>2 DEF ReconStart, CallersHold, MonitorsHold, BeatsHold
<1>5. CASE ReconPublish(p)
  <2> DEFINE c == recon[p].conn  q == recon[p].proc
  <2>1. c \in Conns /\ q \in Procs
    BY <1>5 DEF ReconPublish, ReconsHold
  <2>2. proc[q].host \in IPs /\ "connecting" \in Status /\ q \in MaybeProc
    BY <2>1 DEF ProcRec, Status, MaybeProc
  <2>3. conn' \in [Conns -> ConnRec]
    BY <1>5, <2>1, <2>2 DEF ReconPublish, ConnRec
  <2>4. note' \in NoteRec
    BY <1>5 DEF ReconPublish, NoteRec, Notify, Status
  <2>5. monitor' = [monitor EXCEPT ![q] = Spawned(NoMonitor)]
    BY <1>5 DEF ReconPublish, GoMonitor
  <2>6. monitor' \in [Procs -> MonitorRec] /\ MonitorsHold'
    BY <2>1, <2>5, Idle DEF MonitorsHold
  <2>7. recon' \in [Procs -> ReconRec] /\ ReconsHold'
    BY <1>5, Idle DEF ReconPublish, ReconsHold
  <2>8. Allocated'
    BY <1>5, <2>1, <2>5, NullAssumption, Idle DEF ReconPublish, Allocated, FreeConn, ConnRec
  <2> QED
    BY <1>5, <2>3, <2>4, <2>6, <2>7, <2>8 DEF ReconPublish, CallersHold, BeatsHold
<1>6. CASE ReconAbort(p)
  <2>1. recon' \in [Procs -> ReconRec] /\ ReconsHold' /\ proc' \in [Procs -> ProcRec]
    BY <1>6, Idle, Children DEF ReconAbort, ReconsHold
  <2>2. Allocated'
    BY <1>6, Idle, NullAssumption DEF ReconAbort, Allocated, FreeConn
  <2> QED
    BY <1>6, <2>1, <2>2 DEF ReconAbort, CallersHold, MonitorsHold, BeatsHold
<1>7. CASE ReconExhaust(p)
  <2>1. conn' \in [Conns -> ConnRec] /\ \A d \in Conns : conn'[d].proc = conn[d].proc
    BY <1>7 DEF ReconExhaust, ConnRec, Status, ExitStatus, MaybeConn
  <2>2. note' \in NoteRec
    <3>1. [status |-> "disconnected", terminal |-> TRUE] \in NoteRec
      BY DEF NoteRec, Status, ExitStatus
    <3> QED
      BY <1>7, <3>1 DEF ReconExhaust, NotifyTerminal
  <2>3. recon' \in [Procs -> ReconRec] /\ ReconsHold'
    BY <1>7, Idle DEF ReconExhaust, ReconsHold
  <2>4. Allocated'
    BY <1>7, <2>1, Idle, NullAssumption DEF ReconExhaust, Allocated, FreeConn
  <2> QED
    BY <1>7, <2>1, <2>2, <2>3, <2>4 DEF ReconExhaust, CallersHold, MonitorsHold, BeatsHold
<1> QED
  BY <1>1, <1>2, <1>3, <1>4, <1>5, <1>6, <1>7 DEF ReconStep

LEMMA NextType == TypeInv /\ [Next]_vars => TypeInv'
<1> SUFFICES ASSUME TypeInv, [Next]_vars PROVE TypeInv'
  OBVIOUS
<1>1. CASE UNCHANGED vars
  BY <1>1 DEF vars, TypeInv, TypeOK, Allocated, FreeConn, CallersHold, MonitorsHold,
              BeatsHold, ReconsHold
<1> QED
  BY <1>1, SystemType, ConnectType, MonitorType, BeatType, ReconType DEF Next

\* Type correctness of the manager: every goroutine past its lookup by id holds a
\* connection, and every connection anybody holds has a process (ssh.go:728, 1014).
THEOREM TypeCorrect == Spec => []TypeOK
<1>1. Spec => []TypeInv
  BY InitType, NextType, PTL DEF Spec
<1>2. TypeInv => TypeOK
  BY DEF TypeInv
<1> QED
  BY <1>1, <1>2, PTL

-----------------------------------------------------------------------------
(* StoppedIsDead.  A process can be published into a stopped connection     *)
(* only if that connection is in the map, or if a Connect stores it there   *)
(* afterwards: the first two conjuncts exclude both.                        *)

SlotLive == slot # NoConn => ~conn[slot].stopped

StartedFresh ==
  \A k \in Callers : caller[k].pc = "started" =>
    /\ slot # caller[k].conn /\ ~conn[caller[k].conn].stopped
    /\ \A j \in Callers \ {k} : caller[j].pc = "started" => caller[j].conn # caller[k].conn

StopInv == SlotLive /\ StartedFresh /\ StoppedIsDead

\* Steps that neither store, start, stop nor publish.
LEMMA StopFrame ==
  ASSUME TypeInv, StopInv, slot' = slot,
         \A k \in Callers : caller'[k].pc = "started" => caller'[k] = caller[k],
         \A c \in Conns : conn'[c].stopped = conn[c].stopped /\ conn'[c].proc = conn[c].proc,
         \A q \in Procs : proc'[q].state = "alive" => proc[q].state = "alive"
  PROVE  StopInv'
BY DEF TypeInv, TypeOK, CallersHold, MaybeConn, StopInv, SlotLive, StartedFresh, StoppedIsDead

\* Kill revives nobody, and does kill.
LEMMA KillKills ==
  ASSUME proc \in [Procs -> ProcRec], NEW q
  PROVE  /\ \A r \in Procs : Killed(proc, q)[r].state = "alive" => proc[r].state = "alive"
         /\ q \in Procs => Killed(proc, q)[q].state # "alive"
         /\ \A r \in Procs : Killed(proc, q)[r].host = proc[r].host
BY DEF Killed, ProcRec

LEMMA StopNext == TypeInv /\ StopInv /\ [Next]_vars => StopInv'
<1> SUFFICES ASSUME TypeInv, StopInv, [Next]_vars PROVE StopInv'
  OBVIOUS
<1> USE DEF TypeInv, TypeOK
<1>1. CASE UNCHANGED vars
  BY <1>1 DEF vars, StopInv, SlotLive, StartedFresh, StoppedIsDead
<1>2. CASE Disconnect
  <2>1. slot \in Conns /\ conn[slot].proc \in Procs
    BY <1>2 DEF Disconnect, MaybeConn, Allocated, FreeConn, ConnRec, MaybeProc
  <2>2. \A c \in Conns : /\ conn'[c].proc = conn[c].proc
                         /\ conn'[c].stopped = (conn[c].stopped \/ c = slot)
    BY <1>2, <2>1 DEF Disconnect, ConnRec
  <2>3. /\ \A r \in Procs : proc'[r].state = "alive" => proc[r].state = "alive"
        /\ proc'[conn[slot].proc].state # "alive"
    BY <1>2, <2>1, KillKills DEF Disconnect
  <2>4. SlotLive' /\ StoppedIsDead'
    BY <1>2, <2>2, <2>3 DEF Disconnect, SlotLive, StopInv, StoppedIsDead
  <2>5. StartedFresh'
    BY <1>2, <2>2, NullAssumption DEF Disconnect, StartedFresh, StopInv, CallersHold
  <2> QED
    BY <2>4, <2>5 DEF StopInv
<1>3. ASSUME NEW p \in Procs, ProcExit(p)
      PROVE  StopInv'
  BY <1>3, StopFrame DEF ProcExit, ProcRec
<1>4. ASSUME NEW k \in Callers, ConnectStep(k)
      PROVE  StopInv'
  <2>1. CASE ConnectBegin(k)
    BY <2>1, StopFrame DEF ConnectBegin, CallerRec
  <2>2. CASE ConnectFail(k)
    BY <2>2, StopFrame, Idle DEF ConnectFail
  <2>3. ASSUME NEW c \in Conns, NEW q \in Procs, NEW ip \in IPs, ConnectStart(k, c, q, ip)
        PROVE  StopInv'
    <3>1. conn'[c].proc = q /\ ~conn'[c].stopped /\ slot # c /\ slot' = slot
      BY <2>3 DEF ConnectStart, NewConn, FreeConn
    <3>2. \A d \in Conns \ {c} : conn'[d] = conn[d] /\ conn[d].proc # q
      BY <2>3 DEF ConnectStart, FreeProc
    <3>3. \A r \in Procs \ {q} : proc'[r] = proc[r]
      BY <2>3 DEF ConnectStart, Started
    <3>4. /\ caller'[k].conn = c
          /\ \A j \in Callers \ {k} : caller'[j] = caller[j] /\ caller[j].conn # c
      BY <2>3 DEF ConnectStart, FreeConn
    <3>5. SlotLive' /\ StoppedIsDead'
      BY <3>1, <3>2, <3>3 DEF StopInv, SlotLive, StoppedIsDead, MaybeConn
    <3>6. StartedFresh'
      BY <3>1, <3>2, <3>4 DEF StopInv, StartedFresh, CallersHold
    <3> QED
      BY <3>5, <3>6 DEF StopInv
  <2>4. CASE ConnectStore(k)
    <3>1. SlotLive' /\ StoppedIsDead'
      BY <2>4 DEF ConnectStore, StopInv, SlotLive, StartedFresh, StoppedIsDead
    <3>2. \A j \in Callers : caller'[j].pc = "started" => j # k /\ caller'[j] = caller[j]
      BY <2>4 DEF ConnectStore, CallerRec
    <3>3. StartedFresh'
      BY <2>4, <3>2 DEF ConnectStore, StopInv, StartedFresh, CallerRec
    <3> QED
      BY <3>1, <3>3 DEF StopInv
  <2>5. CASE ConnectLost(k)
    BY <2>5, StopFrame, KillKills, Idle DEF ConnectLost
  <2>6. CASE ConnectDone(k)
    BY <2>6, StopFrame, Idle DEF ConnectDone
  <2> QED
    BY <1>4, <2>1, <2>2, <2>3, <2>4, <2>5, <2>6 DEF ConnectStep
<1>5. ASSUME NEW p \in Procs, MonitorStep(p)
      PROVE  StopInv'
  <2>1. slot' = slot /\ caller' = caller /\ proc' = proc
    BY <1>5 DEF MonitorStep, MonitorLookup, MonitorWait, MonitorStopped, MonitorExit,
       MonitorTimer, MonitorUnconfirmed, MonitorConfirm, ExitIgnored, ExitRetried, ExitFinal
  <2>2. \A c \in Conns : conn'[c].stopped = conn[c].stopped /\ conn'[c].proc = conn[c].proc
    <3>1. CASE MonitorConfirm(p)
      BY <3>1 DEF MonitorConfirm, ConnRec
    <3>2. CASE ExitRetried(p)
      BY <3>2 DEF ExitRetried, ConnRec
    <3>3. ASSUME NEW s \in ExitStatus, ExitFinal(p, s)
          PROVE  \A c \in Conns : conn'[c].stopped = conn[c].stopped /\ conn'[c].proc = conn[c].proc
      BY <3>3 DEF ExitFinal, ConnRec
    <3>4. CASE conn' = conn
      BY <3>4
    <3> QED
      BY <1>5, <3>1, <3>2, <3>3, <3>4 DEF MonitorStep, MonitorLookup, MonitorWait,
         MonitorStopped, MonitorExit, MonitorTimer, MonitorUnconfirmed, ExitIgnored
  <2> QED
    BY <2>1, <2>2, StopFrame
<1>6. ASSUME NEW p \in Procs, BeatStep(p)
      PROVE  StopInv'
  <2>1. slot' = slot /\ caller' = caller
    BY <1>6 DEF BeatStep, BeatStop, BeatTick, BeatMiss, BeatSuperseded, BeatSatisfied,
       BeatCondemns, BeatKill
  <2>2. \A q \in Procs : proc'[q].state = "alive" => proc[q].state = "alive"
    BY <1>6, KillKills DEF BeatStep, BeatStop, BeatTick, BeatMiss, BeatSuperseded,
       BeatSatisfied, BeatCondemns, BeatKill
  <2>3. \A c \in Conns : conn'[c].stopped = conn[c].stopped /\ conn'[c].proc = conn[c].proc
    <3>1. ASSUME NEW ips \in (SUBSET IPs) \ {{}}, BeatCondemns(p, ips)
          PROVE  \A c \in Conns : conn'[c].stopped = conn[c].stopped /\ conn'[c].proc = conn[c].proc
      BY <3>1 DEF BeatCondemns, ConnRec
    <3> QED
      BY <1>6, <3>1 DEF BeatStep, BeatStop, BeatTick, BeatMiss, BeatSuperseded, BeatSatisfied,
         BeatKill
  <2> QED
    BY <2>1, <2>2, <2>3, StopFrame
<1>7. ASSUME NEW p \in Procs, ReconStep(p)
      PROVE  StopInv'
  <2>1. CASE ReconLookup(p) \/ ReconWake(p) \/ ReconFail(p)
    BY <2>1, StopFrame DEF ReconLookup, ReconWake, ReconFail
  <2>2. ASSUME NEW q \in Procs, NEW ip \in IPs, ReconStart(p, q, ip)
        PROVE  StopInv'
    <3>1. UNCHANGED <<slot, conn, caller>> /\ \A c \in Conns : conn[c].proc # q
      BY <2>2 DEF ReconStart, FreeProc
    <3>2. \A r \in Procs \ {q} : proc'[r] = proc[r]
      BY <2>2 DEF ReconStart, Started
    <3> QED
      BY <3>1, <3>2 DEF StopInv, SlotLive, StartedFresh, StoppedIsDead
  <2>3. CASE ReconPublish(p)
    <3>1. slot = recon[p].conn /\ slot \in Conns /\ UNCHANGED <<slot, proc, caller>>
      BY <2>3 DEF ReconPublish, StillMine, ReconsHold
    <3>2. \A c \in Conns : /\ conn'[c].stopped = conn[c].stopped
                           /\ c # slot => conn'[c].proc = conn[c].proc
      BY <2>3, <3>1 DEF ReconPublish, ConnRec
    <3>3. ~conn[slot].stopped
      BY <3>1, NullAssumption DEF StopInv, SlotLive
    <3> QED
      BY <3>1, <3>2, <3>3
      DEF StopInv, SlotLive, StartedFresh, StoppedIsDead, CallersHold
  <2>4. CASE ReconAbort(p)
    BY <2>4, StopFrame, KillKills DEF ReconAbort
  <2>5. CASE ReconExhaust(p)
    <3>1. \A c \in Conns : conn'[c].stopped = conn[c].stopped /\ conn'[c].proc = conn[c].proc
      BY <2>5 DEF ReconExhaust, ConnRec
    <3> QED
      BY <2>5, <3>1, StopFrame DEF ReconExhaust
  <2> QED
    BY <1>7, <2>1, <2>2, <2>3, <2>4, <2>5 DEF ReconStep
<1> QED
  BY <1>1, <1>2, <1>3, <1>4, <1>5, <1>6, <1>7 DEF Next

\* No tunnel survives Disconnect, whatever a concurrent autoReconnect or Connect of
\* the same forward is doing (ssh.go:1049, 1101, 1151).
THEOREM StopSafe == Spec => []StoppedIsDead
<1>1. Init => TypeInv /\ StopInv
  BY InitType, Idle, NullAssumption
  DEF Init, StopInv, SlotLive, StartedFresh, StoppedIsDead, NewConn
<1>2. TypeInv /\ StopInv /\ [Next]_vars => (TypeInv /\ StopInv)'
  BY NextType, StopNext
<1>3. TypeInv /\ StopInv => StoppedIsDead
  BY DEF StopInv
<1> QED
  BY <1>1, <1>2, <1>3, PTL DEF Spec

-----------------------------------------------------------------------------
(* The heartbeats.  Generations never repeat within a connection, and the   *)
(* address recorded in a connection is the one its process dials.           *)

BeatGens ==
  /\ \A p \in Procs : beat[p].pc # "none" => beat[p].gen <= conn[beat[p].conn].gen
  /\ \A p, q \in Procs :
       p # q /\ beat[p].pc # "none" /\ beat[q].pc # "none" /\ beat[p].conn = beat[q].conn
         => beat[p].gen # beat[q].gen

ConnDials == \A c \in Conns : conn[c].proc \in Procs => proc[conn[c].proc].host = conn[c].ip

BeatInv == BeatGens /\ ConnDials /\ BeatKillsJudged

\* Steps that claim no generation, publish no process and condemn none.
LEMMA BeatFrame ==
  ASSUME TypeInv, BeatInv,
         \A c \in Conns : /\ conn'[c].gen = conn[c].gen
                          /\ conn'[c].proc = conn[c].proc /\ conn'[c].ip = conn[c].ip,
         \A q \in Procs : proc'[q].host = proc[q].host,
         \A p \in Procs : beat'[p].pc # "none" =>
           /\ beat[p].pc # "none"
           /\ beat'[p].conn = beat[p].conn /\ beat'[p].gen = beat[p].gen
           /\ beat'[p].pc = "kill" => beat'[p] = beat[p]
  PROVE  BeatInv'
<1>1. BeatGens'
  BY DEF TypeInv, TypeOK, BeatsHold, BeatInv, BeatGens
<1>2. ConnDials'
  BY DEF BeatInv, ConnDials
<1>3. BeatKillsJudged'
  BY DEF TypeInv, TypeOK, BeatsHold, BeatInv, BeatKillsJudged
<1> QED
  BY <1>1, <1>2, <1>3 DEF BeatInv

\* Steps that start a child in a free place and leave the heartbeats alone.
LEMMA BeatStart ==
  ASSUME TypeInv, BeatInv, NEW q \in Procs, NEW ip \in IPs, FreeProc(q),
         proc' = Started(proc, q, ip), beat' = beat,
         \A c \in Conns : conn'[c] # conn[c] => FreeConn(c) /\ conn'[c] = NewConn(q, ip)
  PROVE  BeatInv'
<1>1. \A r \in Procs : proc'[r].host = IF r = q THEN ip ELSE proc[r].host
  BY DEF TypeInv, TypeOK, Started
<1>2. \A c \in Conns : FreeConn(c) => \A p \in Procs : beat[p].conn # c
  BY DEF FreeConn
<1>3. BeatGens'
  BY <1>2 DEF TypeInv, TypeOK, BeatsHold, BeatInv, BeatGens
<1>4. ConnDials'
  BY <1>1 DEF BeatInv, ConnDials, FreeProc, NewConn
<1>5. BeatKillsJudged'
  BY <1>1 DEF TypeInv, TypeOK, BeatsHold, BeatInv, BeatKillsJudged, FreeProc
<1> QED
  BY <1>3, <1>4, <1>5 DEF BeatInv

LEMMA BeatNext == TypeInv /\ BeatInv /\ [Next]_vars => BeatInv'
<1> SUFFICES ASSUME TypeInv, BeatInv, [Next]_vars PROVE BeatInv'
  OBVIOUS
<1> USE DEF TypeInv, TypeOK
<1>1. CASE UNCHANGED vars
  BY <1>1, BeatFrame DEF vars
<1>2. CASE Disconnect
  <2>1. \A c \in Conns : /\ conn'[c].gen = conn[c].gen
                         /\ conn'[c].proc = conn[c].proc /\ conn'[c].ip = conn[c].ip
    BY <1>2 DEF Disconnect, ConnRec
  <2> QED
    BY <1>2, <2>1, KillKills, BeatFrame DEF Disconnect
<1>3. ASSUME NEW p \in Procs, ProcExit(p)
      PROVE  BeatInv'
  BY <1>3, BeatFrame DEF ProcExit, ProcRec
<1>4. ASSUME NEW k \in Callers, ConnectStep(k)
      PROVE  BeatInv'
  <2>1. CASE ConnectBegin(k) \/ ConnectFail(k) \/ ConnectStore(k) \/ ConnectDone(k)
    BY <2>1, BeatFrame DEF ConnectBegin, ConnectFail, ConnectStore, ConnectDone
  <2>2. ASSUME NEW c \in Conns, NEW q \in Procs, NEW ip \in IPs, ConnectStart(k, c, q, ip)
        PROVE  BeatInv'
    <3>1. /\ FreeProc(q) /\ proc' = Started(proc, q, ip) /\ beat' = beat
          /\ FreeConn(c) /\ conn' = [conn EXCEPT ![c] = NewConn(q, ip)]
      BY <2>2 DEF ConnectStart
    <3>2. \A d \in Conns : conn'[d] # conn[d] => FreeConn(d) /\ conn'[d] = NewConn(q, ip)
      BY <3>1
    <3> QED
      BY <3>1, <3>2, BeatStart
  <2>3. CASE ConnectLost(k)
    BY <2>3, KillKills, BeatFrame DEF ConnectLost
  <2> QED
    BY <1>4, <2>1, <2>2, <2>3 DEF ConnectStep
<1>5. ASSUME NEW p \in Procs, MonitorStep(p)
      PROVE  BeatInv'
  <2>1. CASE \/ MonitorLookup(p) \/ MonitorWait(p) \/ MonitorStopped(p) \/ MonitorExit(p)
             \/ MonitorTimer(p) \/ MonitorUnconfirmed(p) \/ ExitIgnored(p)
    BY <2>1, BeatFrame DEF MonitorLookup, MonitorWait, MonitorStopped, MonitorExit,
       MonitorTimer, MonitorUnconfirmed, ExitIgnored
  <2>2. CASE MonitorConfirm(p)
    <3> DEFINE c == monitor[p].conn
               b == [NoBeat EXCEPT !.pc = "tick", !.conn = c, !.gen = NextGen(c)]
    <3>1. c \in Conns /\ conn[c].gen \in Nat /\ NextGen(c) = conn[c].gen + 1
      BY <2>2 DEF MonitorConfirm, MonitorsHold, ConnRec, NextGen
    <3>2. \A d \in Conns : /\ conn'[d].gen = IF d = c THEN NextGen(c) ELSE conn[d].gen
                           /\ conn'[d].proc = conn[d].proc /\ conn'[d].ip = conn[d].ip
      BY <2>2 DEF MonitorConfirm, ConnRec
    <3>3. b.pc = "tick" /\ b.conn = c /\ b.gen = NextGen(c)
      BY DEF NoBeat
    <3>4. beat' = [beat EXCEPT ![p] = b] /\ proc' = proc
      BY <2>2 DEF MonitorConfirm
    <3> HIDE DEF b, c
    <3>5. beat'[p] = b /\ \A q \in Procs \ {p} : beat'[q] = beat[q]
      BY <3>4
    <3>6. \A q \in Procs : beat[q].gen \in Nat
      BY DEF BeatRec
    <3>7. BeatGens'
      BY <3>1, <3>2, <3>3, <3>5, <3>6 DEF BeatInv, BeatGens, BeatsHold
    <3>8. ConnDials'
      BY <3>2, <3>4 DEF BeatInv, ConnDials
    <3>9. BeatKillsJudged'
      BY <3>3, <3>4, <3>5 DEF BeatInv, BeatKillsJudged
    <3> QED
      BY <3>7, <3>8, <3>9 DEF BeatInv
  <2>3. CASE ExitRetried(p)
    <3>1. \A c \in Conns : /\ conn'[c].gen = conn[c].gen
                           /\ conn'[c].proc = conn[c].proc /\ conn'[c].ip = conn[c].ip
      BY <2>3 DEF ExitRetried, ConnRec
    <3> QED
      BY <2>3, <3>1, BeatFrame DEF ExitRetried
  <2>4. ASSUME NEW s \in ExitStatus, ExitFinal(p, s)
        PROVE  BeatInv'
    <3>1. \A c \in Conns : /\ conn'[c].gen = conn[c].gen
                           /\ conn'[c].proc = conn[c].proc /\ conn'[c].ip = conn[c].ip
      BY <2>4 DEF ExitFinal, ConnRec
    <3> QED
      BY <2>4, <3>1, BeatFrame DEF ExitFinal
  <2> QED
    BY <1>5, <2>1, <2>2, <2>3, <2>4 DEF MonitorStep
<1>6. ASSUME NEW p \in Procs, BeatStep(p)
      PROVE  BeatInv'
  <2>1. CASE BeatStop(p) \/ BeatSuperseded(p) \/ (BeatTick(p) /\ ~BeatCurrent(p))
    <3>1. beat' = [beat EXCEPT ![p] = NoBeat] /\ conn' = conn /\ proc' = proc
      BY <2>1 DEF BeatStop, BeatSuperseded, BeatTick, BeatEnds
    <3> QED
      BY <3>1, Idle, BeatFrame
  <2>2. CASE \/ (BeatTick(p) /\ BeatCurrent(p)) \/ BeatMiss(p)
             \/ \E ips \in (SUBSET IPs) \ {{}} : BeatSatisfied(p, ips)
    <3>1. conn' = conn /\ proc' = proc /\ \A q \in Procs \ {p} : beat'[q] = beat[q]
      BY <2>2 DEF BeatTick, BeatMiss, BeatSatisfied
    <3>2. /\ beat[p].pc # "none" /\ beat'[p].pc # "kill"
          /\ beat'[p].conn = beat[p].conn /\ beat'[p].gen = beat[p].gen
      BY <2>2 DEF BeatTick, BeatMiss, BeatSatisfied, BeatRec
    <3> QED
      BY <3>1, <3>2, BeatFrame
  <2>3. ASSUME NEW ips \in (SUBSET IPs) \ {{}}, BeatCondemns(p, ips)
        PROVE  BeatInv'
    <3> DEFINE c == beat[p].conn
    <3>1. c \in Conns /\ conn[c].proc \in Procs
      BY <2>3 DEF BeatCondemns, BeatsHold, Allocated, FreeConn, ConnRec, MaybeProc
    <3>2. \A d \in Conns : /\ conn'[d].gen = conn[d].gen
                           /\ conn'[d].proc = conn[d].proc /\ conn'[d].ip = conn[d].ip
      BY <2>3 DEF BeatCondemns, ConnRec
    <3>3. /\ beat[p].pc = "fetch" /\ proc' = proc /\ conn[c].ip = beat[p].ip
          /\ beat' = [beat EXCEPT ![p].pc = "kill", ![p].proc = conn[c].proc]
      BY <2>3 DEF BeatCondemns, BeatRecheck
    <3>4. /\ beat'[p].conn = c /\ beat'[p].gen = beat[p].gen /\ beat'[p].ip = beat[p].ip
          /\ beat'[p].proc = conn[c].proc
          /\ \A q \in Procs \ {p} : beat'[q] = beat[q]
      BY <3>3 DEF BeatRec
    <3>5. BeatGens'
      BY <3>2, <3>3, <3>4 DEF BeatInv, BeatGens, BeatsHold
    <3>6. ConnDials'
      BY <3>2, <3>3 DEF BeatInv, ConnDials
    <3>7. BeatKillsJudged'
      BY <3>1, <3>3, <3>4 DEF BeatInv, ConnDials, BeatKillsJudged
    <3> QED
      BY <3>5, <3>6, <3>7 DEF BeatInv
  <2>4. CASE BeatKill(p)
    BY <2>4, KillKills, Idle, BeatFrame DEF BeatKill, BeatEnds
  <2> QED
    BY <1>6, <2>1, <2>2, <2>3, <2>4 DEF BeatStep
<1>7. ASSUME NEW p \in Procs, ReconStep(p)
      PROVE  BeatInv'
  <2>1. CASE ReconLookup(p) \/ ReconWake(p) \/ ReconFail(p)
    BY <2>1, BeatFrame DEF ReconLookup, ReconWake, ReconFail
  <2>2. ASSUME NEW q \in Procs, NEW ip \in IPs, ReconStart(p, q, ip)
        PROVE  BeatInv'
    <3>1. FreeProc(q) /\ proc' = Started(proc, q, ip) /\ beat' = beat /\ conn' = conn
      BY <2>2 DEF ReconStart
    <3>2. \A d \in Conns : conn'[d] # conn[d] => FreeConn(d) /\ conn'[d] = NewConn(q, ip)
      BY <3>1
    <3> QED
      BY <3>1, <3>2, BeatStart
  <2>3. CASE ReconPublish(p)
    <3> DEFINE c == recon[p].conn  q == recon[p].proc
    <3>1. c \in Conns /\ q \in Procs /\ proc' = proc /\ beat' = beat
      BY <2>3 DEF ReconPublish, ReconsHold
    <3>2. /\ conn'[c].proc = q /\ conn'[c].ip = proc[q].host
          /\ \A d \in Conns : conn'[d].gen = conn[d].gen
          /\ \A d \in Conns \ {c} : conn'[d] = conn[d]
      BY <2>3, <3>1 DEF ReconPublish, ConnRec
    <3>3. BeatGens'
      BY <3>1, <3>2 DEF BeatInv, BeatGens, BeatsHold
    <3>4. ConnDials'
      BY <3>1, <3>2 DEF BeatInv, ConnDials
    <3>5. BeatKillsJudged'
      BY <3>1 DEF BeatInv, BeatKillsJudged
    <3> QED
      BY <3>3, <3>4, <3>5 DEF BeatInv
  <2>4. CASE ReconAbort(p)
    BY <2>4, KillKills, BeatFrame DEF ReconAbort
  <2>5. CASE ReconExhaust(p)
    <3>1. \A c \in Conns : /\ conn'[c].gen = conn[c].gen
                           /\ conn'[c].proc = conn[c].proc /\ conn'[c].ip = conn[c].ip
      BY <2>5 DEF ReconExhaust, ConnRec
    <3> QED
      BY <2>5, <3>1, BeatFrame DEF ReconExhaust
  <2> QED
    BY <1>7, <2>1, <2>2, <2>3, <2>4, <2>5 DEF ReconStep
<1> QED
  BY <1>1, <1>2, <1>3, <1>4, <1>5, <1>6, <1>7 DEF Next

LEMMA BeatAlways == Spec => [](TypeInv /\ BeatInv)
<1>1. Init => BeatInv
  BY Idle, NullAssumption
  DEF Init, BeatInv, BeatGens, ConnDials, BeatKillsJudged, NewConn
<1>2. TypeInv /\ BeatInv /\ [Next]_vars => (TypeInv /\ BeatInv)'
  BY NextType, BeatNext
<1> QED
  BY <1>1, <1>2, InitType, PTL DEF Spec

\* At most one heartbeat of a connection is in a position to act (ssh.go:35, 767).
THEOREM OneBeat == Spec => []OneBeatActs
<1>1. TypeInv /\ BeatInv => OneBeatActs
  BY DEF BeatInv, BeatGens, OneBeatActs, BeatCurrent
<1> QED
  BY <1>1, BeatAlways, PTL

\* A heartbeat kills only a process that dials the address it found gone (ssh.go:884).
THEOREM KillsJudged == Spec => []BeatKillsJudged
<1>1. TypeInv /\ BeatInv => BeatKillsJudged
  BY DEF BeatInv
<1> QED
  BY <1>1, BeatAlways, PTL


-----------------------------------------------------------------------------
(* NoOrphan when no reconnect is configured.  A Connect's process is that of *)
(* the connection it made, so that it is still owned once that is stored.    *)

NoRecons == \A p \in Procs : recon[p].pc = "none"

StartedOwn ==
  \A k \in Callers : caller[k].pc = "started" => conn[caller[k].conn].proc = caller[k].proc

OrphanInv == NoRecons /\ StartedOwn /\ NoOrphan

\* Steps of which neither the map nor the Connects in progress hear.
LEMMA OrphanFrame ==
  ASSUME TypeInv, OrphanInv, slot' = slot, recon' = recon,
         \A k \in Callers : caller'[k].pc = "started" => caller'[k] = caller[k],
         \A k \in Callers : caller[k].pc = "started" => caller'[k] = caller[k],
         \A c \in Conns : conn'[c].proc = conn[c].proc,
         \A q \in Procs : proc'[q].state = "alive" => proc[q].state = "alive"
  PROVE  OrphanInv'
<1>1. NoRecons' /\ StartedOwn'
  BY DEF TypeInv, TypeOK, CallersHold, OrphanInv, NoRecons, StartedOwn
<1>2. NoOrphan'
  BY DEF TypeInv, TypeOK, MaybeConn, OrphanInv, NoOrphan
<1> QED
  BY <1>1, <1>2 DEF OrphanInv

LEMMA OrphanConnect ==
  ASSUME TypeInv, OrphanInv, NEW k \in Callers, ConnectStep(k)
  PROVE  OrphanInv'
<1> USE DEF TypeInv, TypeOK
<1>1. CASE ConnectBegin(k)
  BY <1>1, OrphanFrame DEF ConnectBegin, CallerRec
<1>2. CASE ConnectFail(k)
  BY <1>2, OrphanFrame, Idle DEF ConnectFail
<1>3. ASSUME NEW c \in Conns, NEW q \in Procs, NEW ip \in IPs, ConnectStart(k, c, q, ip)
      PROVE  OrphanInv'
  <2>1. conn'[c].proc = q /\ slot # c /\ slot' = slot /\ recon' = recon
    BY <1>3 DEF ConnectStart, NewConn, FreeConn
  <2>2. \A d \in Conns \ {c} : conn'[d] = conn[d]
    BY <1>3 DEF ConnectStart
  <2>3. \A r \in Procs \ {q} : proc'[r] = proc[r]
    BY <1>3 DEF ConnectStart, Started
  <2>4. /\ caller'[k] = [pc |-> "started", conn |-> c, proc |-> q]
        /\ caller[k].pc = "resolving"
        /\ \A j \in Callers \ {k} : caller'[j] = caller[j] /\ caller[j].conn # c
    BY <1>3 DEF ConnectStart, FreeConn
  <2>5. NoRecons' /\ StartedOwn'
    BY <2>1, <2>2, <2>4 DEF OrphanInv, NoRecons, StartedOwn, CallersHold
  <2>6. NoOrphan'
    BY <2>1, <2>2, <2>3, <2>4 DEF OrphanInv, NoOrphan, MaybeConn
  <2> QED
    BY <2>5, <2>6 DEF OrphanInv
<1>4. CASE ConnectStore(k)
  <2>1. UNCHANGED <<conn, proc, recon>> /\ slot = NoConn /\ slot' = caller[k].conn
    BY <1>4 DEF ConnectStore
  <2>2. slot' \in Conns /\ conn[slot'].proc = caller[k].proc
    BY <1>4 DEF ConnectStore, CallersHold, OrphanInv, StartedOwn
  <2>3. \A j \in Callers : /\ j # k => caller'[j] = caller[j]
                           /\ caller'[j].pc = "started" => j # k
    BY <1>4 DEF ConnectStore, CallerRec
  <2>4. NoRecons' /\ StartedOwn'
    BY <2>1, <2>3 DEF OrphanInv, NoRecons, StartedOwn
  <2>5. NoOrphan'
    BY <2>1, <2>2, <2>3, NullAssumption DEF OrphanInv, NoOrphan
  <2> QED
    BY <2>4, <2>5 DEF OrphanInv
<1>5. CASE ConnectLost(k)
  <2>1. UNCHANGED <<slot, conn, recon>>
    BY <1>5 DEF ConnectLost
  <2>2. /\ caller'[k].pc # "started"
        /\ \A j \in Callers \ {k} : caller'[j] = caller[j]
    BY <1>5, Idle DEF ConnectLost
  <2>3. /\ \A r \in Procs : proc'[r].state = "alive" => proc[r].state = "alive"
        /\ proc'[caller[k].proc].state # "alive"
    BY <1>5, KillKills DEF ConnectLost, CallersHold
  <2>4. NoRecons' /\ StartedOwn'
    BY <2>1, <2>2 DEF OrphanInv, NoRecons, StartedOwn
  <2>5. NoOrphan'
    BY <2>1, <2>2, <2>3 DEF OrphanInv, NoOrphan
  <2> QED
    BY <2>4, <2>5 DEF OrphanInv
<1>6. CASE ConnectDone(k)
  BY <1>6, OrphanFrame, Idle DEF ConnectDone
<1> QED
  BY <1>1, <1>2, <1>3, <1>4, <1>5, <1>6 DEF ConnectStep

LEMMA OrphanNext ==
  ASSUME ~AutoReconnect
  PROVE  TypeInv /\ OrphanInv /\ [Next]_vars => OrphanInv'
<1> SUFFICES ASSUME TypeInv, OrphanInv, [Next]_vars PROVE OrphanInv'
  OBVIOUS
<1> USE DEF TypeInv, TypeOK
<1>1. CASE UNCHANGED vars
  BY <1>1, OrphanFrame DEF vars
<1>2. CASE Disconnect
  <2>1. slot \in Conns /\ conn[slot].proc \in Procs
    BY <1>2 DEF Disconnect, MaybeConn, Allocated, FreeConn, ConnRec, MaybeProc
  <2>2. \A c \in Conns : conn'[c].proc = conn[c].proc
    BY <1>2, <2>1 DEF Disconnect, ConnRec
  <2>3. /\ \A r \in Procs : proc'[r].state = "alive" => proc[r].state = "alive"
        /\ proc'[conn[slot].proc].state # "alive"
    BY <1>2, <2>1, KillKills DEF Disconnect
  <2>4. NoRecons' /\ StartedOwn'
    BY <1>2, <2>2 DEF Disconnect, OrphanInv, NoRecons, StartedOwn, CallersHold
  <2>5. NoOrphan'
    BY <1>2, <2>3 DEF Disconnect, OrphanInv, NoOrphan
  <2> QED
    BY <2>4, <2>5 DEF OrphanInv
<1>3. ASSUME NEW p \in Procs, ProcExit(p)
      PROVE  OrphanInv'
  BY <1>3, OrphanFrame DEF ProcExit, ProcRec
<1>4. ASSUME NEW p \in Procs, MonitorStep(p)
      PROVE  OrphanInv'
  <2>1. UNCHANGED <<slot, caller, proc, recon>>
    BY <1>4 DEF MonitorStep, MonitorLookup, MonitorWait, MonitorStopped, MonitorExit,
       MonitorTimer, MonitorUnconfirmed, MonitorConfirm, ExitIgnored, ExitRetried, ExitFinal
  <2>2. \A c \in Conns : conn'[c].proc = conn[c].proc
    <3>1. CASE MonitorConfirm(p)
      BY <3>1 DEF MonitorConfirm, ConnRec
    <3>2. ASSUME NEW s \in ExitStatus, ExitFinal(p, s)
          PROVE  \A c \in Conns : conn'[c].proc = conn[c].proc
      BY <3>2 DEF ExitFinal, ConnRec
    <3> QED
      BY <1>4, <3>1, <3>2 DEF MonitorStep, MonitorLookup, MonitorWait, MonitorStopped,
         MonitorExit, MonitorTimer, MonitorUnconfirmed, ExitIgnored, ExitRetried
  <2> QED
    BY <2>1, <2>2, OrphanFrame
<1>5. ASSUME NEW p \in Procs, BeatStep(p)
      PROVE  OrphanInv'
  <2>1. UNCHANGED <<slot, caller, recon>>
    BY <1>5 DEF BeatStep, BeatStop, BeatTick, BeatMiss, BeatSuperseded, BeatSatisfied,
       BeatCondemns, BeatKill
  <2>2. \A q \in Procs : proc'[q].state = "alive" => proc[q].state = "alive"
    BY <1>5, KillKills DEF BeatStep, BeatStop, BeatTick, BeatMiss, BeatSuperseded,
       BeatSatisfied, BeatCondemns, BeatKill
  <2>3. \A c \in Conns : conn'[c].proc = conn[c].proc
    <3>1. ASSUME NEW ips \in (SUBSET IPs) \ {{}}, BeatCondemns(p, ips)
          PROVE  \A c \in Conns : conn'[c].proc = conn[c].proc
      BY <3>1 DEF BeatCondemns, ConnRec
    <3> QED
      BY <1>5, <3>1 DEF BeatStep, BeatStop, BeatTick, BeatMiss, BeatSuperseded, BeatSatisfied,
         BeatKill
  <2> QED
    BY <2>1, <2>2, <2>3, OrphanFrame
<1>6. ASSUME NEW p \in Procs
      PROVE  ~ReconStep(p)
  BY DEF OrphanInv, NoRecons, ReconStep, ReconLookup, ReconWake, ReconFail, ReconStart,
     ReconPublish, ReconAbort, ReconExhaust
<1> QED
  BY <1>1, <1>2, <1>3, <1>4, <1>5, <1>6, OrphanConnect DEF Next

\* Without auto-reconnect no schedule of Connects, Disconnects, exits and
\* heartbeats leaves an ssh child that nobody owns (ssh.go:690, 1151).
THEOREM ManualNoOrphan == ~AutoReconnect => (Spec => []NoOrphan)
<1> SUFFICES ASSUME ~AutoReconnect PROVE Spec => []NoOrphan
  OBVIOUS
<1>1. Init => TypeInv /\ OrphanInv
  BY InitType, Idle DEF Init, OrphanInv, NoRecons, StartedOwn, NoOrphan
<1>2. TypeInv /\ OrphanInv /\ [Next]_vars => (TypeInv /\ OrphanInv)'
  BY NextType, OrphanNext
<1>3. TypeInv /\ OrphanInv => NoOrphan
  BY DEF OrphanInv
<1> QED
  BY <1>1, <1>2, <1>3, PTL DEF Spec

-----------------------------------------------------------------------------
(* Attended is inductive next to SlotLive: a goroutine that leaves because   *)
(* of a closed StopCh does not leave the connection in the map.              *)

\* The steps that start a goroutine, or leave those that attend to the slot.
LEMMA AttendFrame ==
  ASSUME TypeInv, Attended, slot' = slot,
         slot # NoConn => \/ conn'[slot].status = conn[slot].status
                          \/ conn'[slot].status \notin {"connecting", "running"},
         \/ \E q \in Procs : monitor'[q].pc = "spawned" \/ recon'[q].pc = "spawned"
         \/ /\ \A k \in Callers : caller[k].pc = "stored" => caller'[k] = caller[k]
            /\ \A q \in Procs :
                 /\ monitor[q].pc = "spawned" \/ (slot # NoConn /\ monitor[q].conn = slot) =>
                      monitor'[q].pc = "spawned" \/ slot = NoConn \/ monitor'[q].conn = slot
                 /\ recon[q].pc = "spawned" \/ (slot # NoConn /\ recon[q].conn = slot) =>
                      recon'[q].pc = "spawned" \/ slot = NoConn \/ recon'[q].conn = slot
  PROVE  Attended'
BY DEF Attended

LEMMA AttendMonitor ==
  ASSUME TypeInv, StopInv, Attended, NEW p \in Procs, MonitorStep(p)
  PROVE  Attended'
<1> USE DEF TypeInv, TypeOK
<1>1. CASE MonitorLookup(p) \/ MonitorWait(p) \/ MonitorExit(p) \/ MonitorTimer(p)
  <2>1. UNCHANGED <<slot, conn, caller, recon>> /\ \A q \in Procs \ {p} : monitor'[q] = monitor[q]
    BY <1>1 DEF MonitorLookup, MonitorWait, MonitorExit, MonitorTimer
  <2>2. slot # NoConn => monitor'[p].conn = monitor[p].conn \/ monitor'[p].conn = slot
    BY <1>1 DEF MonitorLookup, MonitorWait, MonitorExit, MonitorTimer, MonitorRec
  <2>3. monitor[p].pc = "spawned" /\ slot # NoConn => monitor'[p].conn = slot
    BY <1>1 DEF MonitorLookup, MonitorWait, MonitorExit, MonitorSeesExit, MonitorTimer
  <2> QED
    BY <2>1, <2>2, <2>3, AttendFrame
<1>2. CASE MonitorStopped(p)
  <2>1. UNCHANGED <<slot, conn, caller, recon>> /\ \A q \in Procs \ {p} : monitor'[q] = monitor[q]
    BY <1>2 DEF MonitorStopped
  <2>2. monitor[p].pc # "spawned" /\ (slot # NoConn => monitor[p].conn # slot)
    BY <1>2 DEF MonitorStopped, MonitorSeesExit, StopInv, SlotLive
  <2> QED
    BY <2>1, <2>2, AttendFrame
<1>3. CASE MonitorUnconfirmed(p) \/ ExitIgnored(p)
  BY <1>3 DEF MonitorUnconfirmed, ExitIgnored, Attended
<1>4. CASE MonitorConfirm(p)
  <2>1. UNCHANGED <<slot, caller, recon>> /\ \A q \in Procs \ {p} : monitor'[q] = monitor[q]
    BY <1>4 DEF MonitorConfirm
  <2>2. monitor[p].pc # "spawned" /\ monitor'[p].conn = monitor[p].conn
    BY <1>4 DEF MonitorConfirm, MonitorRec
  <2>3. \A c \in Conns \ {monitor[p].conn} : conn'[c] = conn[c]
    BY <1>4 DEF MonitorConfirm
  <2> QED
    BY <2>1, <2>2, <2>3 DEF Attended, MaybeConn
<1>5. CASE ExitRetried(p)
  <2>1. slot' = slot /\ recon'[p].pc = "spawned"
    BY <1>5, Idle DEF ExitRetried, Spawned, NoRecon
  <2> QED
    BY <2>1 DEF Attended
<1>6. ASSUME NEW s \in ExitStatus, ExitFinal(p, s)
      PROVE  Attended'
  <2>1. UNCHANGED <<slot, caller, recon>> /\ \A q \in Procs \ {p} : monitor'[q] = monitor[q]
    BY <1>6 DEF ExitFinal
  <2>2. monitor[p].pc = "exited" /\ monitor[p].conn \in Conns
    BY <1>6 DEF ExitFinal, MonitorsHold
  <2>3. /\ conn'[monitor[p].conn].status \notin {"connecting", "running"}
        /\ \A c \in Conns \ {monitor[p].conn} : conn'[c] = conn[c]
    BY <1>6, <2>2 DEF ExitFinal, ExitStatus, ConnRec
  <2>4. CASE slot = monitor[p].conn
    BY <2>1, <2>3, <2>4 DEF Attended
  <2>5. CASE slot # monitor[p].conn
    BY <2>1, <2>2, <2>3, <2>5, AttendFrame DEF MaybeConn
  <2> QED
    BY <2>4, <2>5
<1> QED
  BY <1>1, <1>2, <1>3, <1>4, <1>5, <1>6 DEF MonitorStep

LEMMA AttendRecon ==
  ASSUME TypeInv, StopInv, Attended, NEW p \in Procs, ReconStep(p)
  PROVE  Attended'
<1> USE DEF TypeInv, TypeOK
<1>1. CASE ReconLookup(p)
  <2>1. UNCHANGED <<slot, conn, caller, monitor>> /\ \A q \in Procs \ {p} : recon'[q] = recon[q]
    BY <1>1 DEF ReconLookup
  <2>2. slot # NoConn => recon'[p].conn = slot
    BY <1>1 DEF ReconLookup, ReconRec
  <2> QED
    BY <2>1, <2>2, AttendFrame
<1>2. CASE ReconWake(p) \/ ReconFail(p) \/ \E q \in Procs, ip \in IPs : ReconStart(p, q, ip)
  <2>1. UNCHANGED <<slot, conn, caller, monitor>> /\ \A q \in Procs \ {p} : recon'[q] = recon[q]
    BY <1>2 DEF ReconWake, ReconFail, ReconStart
  <2>2. recon[p].pc # "spawned" /\ recon[p].conn \in Conns
    BY <1>2 DEF ReconWake, ReconFail, ReconStart, ReconsHold
  <2>3. slot # NoConn /\ recon[p].conn = slot => recon'[p].conn = slot
    BY <1>2 DEF ReconWake, ReconFail, ReconStart, ReconRec, StopInv, SlotLive
  <2> QED
    BY <2>1, <2>2, <2>3, AttendFrame
<1>3. CASE ReconPublish(p)
  <2>1. slot' = slot /\ recon[p].proc \in Procs
    BY <1>3 DEF ReconPublish, ReconsHold
  <2>2. monitor'[recon[p].proc].pc = "spawned"
    BY <1>3, <2>1, Idle DEF ReconPublish, GoMonitor
  <2> QED
    BY <2>1, <2>2 DEF Attended
<1>4. CASE ReconAbort(p)
  <2>1. UNCHANGED <<slot, conn, caller, monitor>> /\ \A q \in Procs \ {p} : recon'[q] = recon[q]
    BY <1>4 DEF ReconAbort
  <2>2. recon[p].pc # "spawned" /\ recon[p].conn # slot
    BY <1>4 DEF ReconAbort, StillMine
  <2> QED
    BY <2>1, <2>2, AttendFrame
<1>5. CASE ReconExhaust(p)
  <2>1. slot' = slot
    BY <1>5 DEF ReconExhaust
  <2>2. slot # NoConn => conn'[slot].status = "disconnected"
    BY <1>5 DEF ReconExhaust, MaybeConn, ConnRec
  <2> QED
    BY <2>1, <2>2 DEF Attended
<1> QED
  BY <1>1, <1>2, <1>3, <1>4, <1>5 DEF ReconStep

LEMMA AttendNext == TypeInv /\ StopInv /\ Attended /\ [Next]_vars => Attended'
<1> SUFFICES ASSUME TypeInv, StopInv, Attended, [Next]_vars PROVE Attended'
  OBVIOUS
<1> USE DEF TypeInv, TypeOK
<1>1. CASE UNCHANGED vars
  BY <1>1 DEF vars, Attended
<1>2. CASE Disconnect
  BY <1>2 DEF Disconnect, Attended
<1>3. ASSUME NEW k \in Callers, ConnectStep(k)
      PROVE  Attended'
  <2>1. CASE ConnectStore(k)
    BY <2>1 DEF ConnectStore, Attended, CallerRec
  <2>2. CASE ConnectDone(k)
    <3>1. slot' = slot /\ caller[k].proc \in Procs
      BY <2>2 DEF ConnectDone, CallersHold
    <3>2. monitor'[caller[k].proc].pc = "spawned"
      BY <2>2, <3>1, Idle DEF ConnectDone, GoMonitor
    <3> QED
      BY <3>1, <3>2 DEF Attended
  <2>3. ASSUME NEW c \in Conns, NEW q \in Procs, NEW ip \in IPs, ConnectStart(k, c, q, ip)
        PROVE  Attended'
    <3>1. UNCHANGED <<slot, monitor, recon>> /\ slot # c
      BY <2>3 DEF ConnectStart, FreeConn
    <3>2. /\ \A d \in Conns \ {c} : conn'[d] = conn[d]
          /\ \A j \in Callers : caller[j].pc = "stored" => caller'[j] = caller[j]
      BY <2>3 DEF ConnectStart
    <3> QED
      BY <3>1, <3>2, AttendFrame DEF MaybeConn
  <2>4. CASE ConnectBegin(k) \/ ConnectFail(k) \/ ConnectLost(k)
    <3>1. UNCHANGED <<slot, conn, monitor, recon>>
      BY <2>4 DEF ConnectBegin, ConnectFail, ConnectLost
    <3>2. \A j \in Callers : caller[j].pc = "stored" => caller'[j] = caller[j]
      BY <2>4 DEF ConnectBegin, ConnectFail, ConnectLost
    <3> QED
      BY <3>1, <3>2, AttendFrame
  <2> QED
    BY <1>3, <2>1, <2>2, <2>3, <2>4 DEF ConnectStep
<1>4. ASSUME NEW p \in Procs, ProcExit(p) \/ BeatStep(p)
      PROVE  Attended'
  <2>1. UNCHANGED <<slot, caller, monitor, recon>>
    BY <1>4 DEF ProcExit, BeatStep, BeatStop, BeatTick, BeatMiss, BeatSuperseded,
       BeatSatisfied, BeatCondemns, BeatKill
  <2>2. \A c \in Conns : conn'[c].status = conn[c].status
    <3>1. ASSUME NEW ips \in (SUBSET IPs) \ {{}}, BeatCondemns(p, ips)
          PROVE  \A c \in Conns : conn'[c].status = conn[c].status
      BY <3>1 DEF BeatCondemns, ConnRec
    <3> QED
      BY <1>4, <3>1 DEF ProcExit, BeatStep, BeatStop, BeatTick, BeatMiss, BeatSuperseded,
         BeatSatisfied, BeatKill
  <2> QED
    BY <2>1, <2>2, AttendFrame DEF MaybeConn
<1> QED
  BY <1>1, <1>2, <1>3, <1>4, AttendMonitor, AttendRecon DEF Next

\* A connection in the map that claims to be up or coming up always has a
\* goroutine working for it, or one about to look it up (ssh.go:715, 811, 996, 1128).
THEOREM SomebodyAttends == Spec => []Attended
<1>1. Init => TypeInv /\ StopInv /\ Attended
  BY InitType, Idle, NullAssumption
  DEF Init, StopInv, SlotLive, StartedFresh, StoppedIsDead, NewConn, Attended
<1>2. TypeInv /\ StopInv /\ Attended /\ [Next]_vars => (TypeInv /\ StopInv /\ Attended)'
  BY NextType, StopNext, AttendNext
<1> QED
  BY <1>1, <1>2, PTL DEF Spec
=============================================================================
