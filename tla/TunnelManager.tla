--------------------------- MODULE TunnelManager ---------------------------
(***************************************************************************)
(* The SSHManager of src/ssh.go for the one forward the application has:   *)
(* the map m.conns holds at most one connection, `slot`.  Goroutines       *)
(* (Connect, monitorProcess, the DDNS heartbeat, autoReconnect) meet at    *)
(* the mutex m.mu; every critical section is one action, and everything a  *)
(* goroutine does outside the mutex (resolving, starting, waiting) lies    *)
(* between two of them.                                                    *)
(*                                                                         *)
(* monitorProcess, its heartbeat and its autoReconnect are named by the    *)
(* process for whose publication the `go monitorProcess(id)` was issued.   *)
(* Exit statuses are reduced to what the code tells apart: "disconnected"  *)
(* stands for disconnected, connection_refused and unreachable (reconnect  *)
(* allowed), "auth_failed" for auth_failed and port_in_use (final).        *)
(***************************************************************************)
EXTENDS Integers, FiniteSets

CONSTANTS
  Conns,          \* SSHConn objects; an unreachable one is allocated again
  Procs,          \* ssh child processes; a reaped, unreachable one likewise
  Callers,        \* goroutines of the UI and of main that call Connect
  NoConn, NoProc,
  IPs,            \* addresses the remote host may resolve to
  MaxRetries,     \* ForwardConfig.MaxRetries after the default is applied
  AutoReconnect,  \* ForwardConfig.AutoReconnect
  MaxGen          \* bound: windows confirmed within one SSHConn

ASSUME NullAssumption == NoConn \notin Conns /\ NoProc \notin Procs
ASSUME IPAssumption == IPs # {}
ASSUME ConfigAssumption == /\ MaxRetries \in Nat \ {0}
                           /\ AutoReconnect \in BOOLEAN
                           /\ MaxGen \in Nat

VARIABLES
  slot,     \* m.conns[id], NoConn when absent
  conn,     \* the fields of every SSHConn
  proc,     \* the ssh children: state, and the address they were told to dial
  note,     \* the newest message put on notifyCh
  caller, monitor, beat, recon   \* goroutines

vars == <<slot, conn, proc, note, caller, monitor, beat, recon>>

ExitStatus == {"disconnected", "auth_failed"}
Status == {"connecting", "running", "stopped"} \cup ExitStatus


AnyIP == CHOOSE ip \in IPs : TRUE

\* A fresh SSHConn around process q, connected to ip.
NewConn(q, ip) == [status |-> "connecting", stopped |-> FALSE, proc |-> q,
                   ip |-> ip, gen |-> 0, ddnsRestart |-> FALSE]

IdleCaller == [pc |-> "idle", conn |-> NoConn, proc |-> NoProc]
NoMonitor  == [pc |-> "none", conn |-> NoConn, proc |-> NoProc]
NoBeat     == [pc |-> "none", conn |-> NoConn, gen |-> 0, ip |-> AnyIP, proc |-> NoProc]
NoRecon    == [pc |-> "none", conn |-> NoConn, proc |-> NoProc, fast |-> FALSE, tries |-> 0]

Spawned(r) == [r EXCEPT !.pc = "spawned"]

MaybeConn == Conns \cup {NoConn}
MaybeProc == Procs \cup {NoProc}

ConnRec == [status : Status, stopped : BOOLEAN, proc : MaybeProc, ip : IPs,
            gen : Nat, ddnsRestart : BOOLEAN]
ProcRec == [state : {"dead", "alive", "dying"}, host : IPs]
NoteRec == [status : Status \cup {"none"}, terminal : BOOLEAN]
CallerRec == [pc : {"idle", "resolving", "started", "stored"},
              conn : MaybeConn, proc : MaybeProc]
MonitorRec == [pc : {"none", "spawned", "attach", "window", "confirm", "running", "exited"},
               conn : MaybeConn, proc : MaybeProc]
BeatRec == [pc : {"none", "tick", "fetch", "kill"},
            conn : MaybeConn, gen : Nat, ip : IPs, proc : MaybeProc]
ReconRec == [pc : {"none", "spawned", "waiting", "resolving", "started", "exhausted"},
             conn : MaybeConn, proc : MaybeProc, fast : BOOLEAN, tries : Nat]

\* A goroutine past its lookup holds a connection, and a process where it needs one.
CallersHold ==
  \A k \in Callers : caller[k].pc \in {"started", "stored"} =>
    caller[k].conn \in Conns /\ caller[k].proc \in Procs
MonitorsHold ==
  \A p \in Procs :
    /\ monitor[p].pc \notin {"none", "spawned"} => monitor[p].conn \in Conns
    /\ monitor[p].pc \notin {"none", "spawned", "attach"} => monitor[p].proc \in Procs
BeatsHold ==
  \A p \in Procs : /\ beat[p].pc # "none" => beat[p].conn \in Conns
                   /\ beat[p].pc = "kill" => beat[p].proc \in Procs
ReconsHold ==
  \A p \in Procs : /\ recon[p].pc \notin {"none", "spawned"} => recon[p].conn \in Conns
                   /\ recon[p].pc = "started" => recon[p].proc \in Procs

TypeOK ==
  /\ slot \in MaybeConn
  /\ conn \in [Conns -> ConnRec]
  /\ proc \in [Procs -> ProcRec]
  /\ note \in NoteRec
  /\ caller \in [Callers -> CallerRec] /\ CallersHold
  /\ monitor \in [Procs -> MonitorRec] /\ MonitorsHold
  /\ beat \in [Procs -> BeatRec] /\ BeatsHold
  /\ recon \in [Procs -> ReconRec] /\ ReconsHold

Init ==
  /\ slot = NoConn
  /\ conn = [c \in Conns |-> [NewConn(NoProc, AnyIP) EXCEPT !.status = "stopped"]]
  /\ proc = [p \in Procs |-> [state |-> "dead", host |-> AnyIP]]
  /\ note = [status |-> "none", terminal |-> FALSE]
  /\ caller = [k \in Callers |-> IdleCaller]
  /\ monitor = [p \in Procs |-> NoMonitor]
  /\ beat = [p \in Procs |-> NoBeat]
  /\ recon = [p \in Procs |-> NoRecon]

-----------------------------------------------------------------------------
(* Allocation, the operating system, and what a child does.                *)

\* No goroutine and not the map refers to c.
FreeConn(c) ==
  /\ slot # c
  /\ \A k \in Callers : caller[k].conn # c
  /\ \A p \in Procs : /\ monitor[p].conn # c
                      /\ beat[p].conn # c
                      /\ recon[p].conn # c

\* q was reaped, nothing refers to it and no goroutine is named by it.
FreeProc(q) ==
  /\ proc[q].state = "dead"
  /\ monitor[q].pc = "none" /\ beat[q].pc = "none" /\ recon[q].pc = "none"
  /\ \A c \in Conns : conn[c].proc # q
  /\ \A k \in Callers : caller[k].proc # q
  /\ \A p \in Procs : /\ monitor[p].proc # q
                      /\ beat[p].proc # q
                      /\ recon[p].proc # q

\* What Process.Kill does to the states of the children.
Killed(pr, q) ==
  IF q \in Procs /\ pr[q].state = "alive" THEN [pr EXCEPT ![q].state = "dying"] ELSE pr

Started(pr, q, ip) == [pr EXCEPT ![q] = [state |-> "alive", host |-> ip]]

\* ssh exits, on its own or because it was killed, and is reaped.
ProcExit(p) ==
  /\ proc[p].state \in {"alive", "dying"}
  /\ proc' = [proc EXCEPT ![p].state = "dead"]
  /\ UNCHANGED <<slot, conn, note, caller, monitor, beat, recon>>

\* notifyStatus and notifyTerminalStatus, as far as the newest message goes.
Notify(s) == note' = [status |-> s, terminal |-> FALSE]

Unheard(s) == s \in Status /\ note' = note     \* mutant: nothing is queued

NotifyTerminal(s) == note' = [status |-> s, terminal |-> TRUE]

LostMonitor(q) == q \in Procs /\ monitor' = monitor     \* mutant: not started

\* go m.monitorProcess(id), after process q was published.
GoMonitor(q) == monitor' = [monitor EXCEPT ![q] = Spawned(NoMonitor)]

-----------------------------------------------------------------------------
(* Connect.                                                                *)

\* First critical section: the forward is not connected yet.
ConnectBegin(k) ==
  /\ caller[k].pc = "idle"
  /\ slot = NoConn
  /\ caller' = [caller EXCEPT ![k].pc = "resolving"]
  /\ UNCHANGED <<slot, conn, proc, note, monitor, beat, recon>>

\* resolveConnectTarget, the TCP dial, the password pipe or Start fails.
ConnectFail(k) ==
  /\ caller[k].pc = "resolving"
  /\ caller' = [caller EXCEPT ![k] = IdleCaller]
  /\ UNCHANGED <<slot, conn, proc, note, monitor, beat, recon>>

\* The target resolved to ip and answered; ssh is started in a new SSHConn
\* only this caller knows of.
ConnectStart(k, c, q, ip) ==
  /\ caller[k].pc = "resolving"
  /\ FreeConn(c) /\ FreeProc(q)
  /\ conn' = [conn EXCEPT ![c] = NewConn(q, ip)]
  /\ proc' = Started(proc, q, ip)
  /\ caller' = [caller EXCEPT ![k] = [pc |-> "started", conn |-> c, proc |-> q]]
  /\ UNCHANGED <<slot, note, monitor, beat, recon>>

\* Second critical section: store.
ConnectStore(k) ==
  /\ caller[k].pc = "started"
  /\ slot = NoConn
  /\ slot' = caller[k].conn
  /\ caller' = [caller EXCEPT ![k].pc = "stored"]
  /\ UNCHANGED <<conn, proc, note, monitor, beat, recon>>

\* Mutant: the loser's process is not killed.
LoserLives(k) ==
  /\ caller[k].pc = "started" /\ slot # NoConn
  /\ caller' = [caller EXCEPT ![k] = IdleCaller]
  /\ UNCHANGED <<slot, conn, proc, note, monitor, beat, recon>>

\* Second critical section: another Connect stored meanwhile.
ConnectLost(k) ==
  /\ caller[k].pc = "started"
  /\ slot # NoConn
  /\ proc' = Killed(proc, caller[k].proc)
  /\ caller' = [caller EXCEPT ![k] = IdleCaller]
  /\ UNCHANGED <<slot, conn, note, monitor, beat, recon>>

\* After the mutex was released: notify "connecting", then go monitorProcess(id).
ConnectDone(k) ==
  /\ caller[k].pc = "stored"
  /\ Notify("connecting")
  /\ GoMonitor(caller[k].proc)
  /\ caller' = [caller EXCEPT ![k] = IdleCaller]
  /\ UNCHANGED <<slot, conn, proc, beat, recon>>

-----------------------------------------------------------------------------
(* Disconnect; DisconnectAll is the same for at most one connection.       *)

Disconnect ==
  /\ slot # NoConn
  /\ conn' = [conn EXCEPT ![slot].stopped = TRUE, ![slot].status = "stopped"]
  /\ proc' = Killed(proc, conn[slot].proc)
  /\ Notify("stopped")
  /\ slot' = NoConn
  /\ UNCHANGED <<caller, monitor, beat, recon>>

-----------------------------------------------------------------------------
(* monitorProcess and handleProcessExit.                                   *)

\* Mutant: the connection is taken for present.
LookupUnchecked(p) ==
  /\ monitor[p].pc = "spawned"
  /\ monitor' = [monitor EXCEPT ![p] = [pc |-> "attach", conn |-> slot, proc |-> NoProc]]
  /\ UNCHANGED <<slot, conn, proc, note, caller, beat, recon>>

\* The connection is looked up by id, when the new goroutine first runs.
MonitorLookup(p) ==
  /\ monitor[p].pc = "spawned"
  /\ monitor' = [monitor EXCEPT ![p] =
       IF slot = NoConn THEN NoMonitor ELSE [pc |-> "attach", conn |-> slot, proc |-> NoProc]]
  /\ UNCHANGED <<slot, conn, proc, note, caller, beat, recon>>

\* The Wait goroutine evaluates sshConn.Process and waits for that child.
MonitorWait(p) ==
  /\ monitor[p].pc = "attach"
  /\ monitor' = [monitor EXCEPT ![p].pc = "window",
                                ![p].proc = conn[monitor[p].conn].proc]
  /\ UNCHANGED <<slot, conn, proc, note, caller, beat, recon>>

\* Mutant: nobody waits once the tunnel was confirmed.
SeesEarlyExit(p) == monitor[p].pc = "window" /\ proc[monitor[p].proc].state = "dead"

MonitorSeesExit(p) == /\ monitor[p].pc \in {"window", "running"}
                      /\ proc[monitor[p].proc].state = "dead"

\* The child exited and StopCh is closed: nothing more to do.
MonitorStopped(p) ==
  /\ MonitorSeesExit(p)
  /\ conn[monitor[p].conn].stopped
  /\ monitor' = [monitor EXCEPT ![p] = NoMonitor]
  /\ UNCHANGED <<slot, conn, proc, note, caller, beat, recon>>

\* The child exited and StopCh is open: handleProcessExit is next.
MonitorExit(p) ==
  /\ MonitorSeesExit(p)
  /\ ~conn[monitor[p].conn].stopped
  /\ monitor' = [monitor EXCEPT ![p].pc = "exited"]
  /\ UNCHANGED <<slot, conn, proc, note, caller, beat, recon>>

\* The confirmation window closes first.  A closed StopCh would have woken the
\* select before: the timer does not exist before the select is entered.
\* (MaxGen bounds the model: later windows end with the exit of the child.)
MonitorTimer(p) ==
  /\ monitor[p].pc = "window"
  /\ conn[monitor[p].conn].gen < MaxGen
  /\ ~conn[monitor[p].conn].stopped
  /\ monitor' = [monitor EXCEPT ![p].pc = "confirm"]
  /\ UNCHANGED <<slot, conn, proc, note, caller, beat, recon>>

\* The connection was removed since the window closed.
MonitorUnconfirmed(p) ==
  /\ monitor[p].pc = "confirm"
  /\ slot = NoConn
  /\ monitor' = [monitor EXCEPT ![p] = NoMonitor]
  /\ UNCHANGED <<slot, conn, proc, note, caller, beat, recon>>

SameGen(c) == IF conn[c].gen = 0 THEN 1 ELSE conn[c].gen     \* mutant: no bump

NextGen(c) == conn[c].gen + 1

\* Publish "running" and claim a heartbeat generation: the map still has a
\* connection (any) under id.
MonitorConfirm(p) ==
  LET c == monitor[p].conn IN
  /\ monitor[p].pc = "confirm"
  /\ slot # NoConn
  /\ conn' = [conn EXCEPT ![c].status = "running", ![c].gen = NextGen(c)]
  /\ Notify("running")
  /\ beat' = [beat EXCEPT ![p] = [NoBeat EXCEPT !.pc = "tick", !.conn = c, !.gen = NextGen(c)]]
  /\ monitor' = [monitor EXCEPT ![p].pc = "running"]
  /\ UNCHANGED <<slot, proc, caller, recon>>

\* handleProcessExit: the map has no connection under id any more.
ExitIgnored(p) ==
  /\ monitor[p].pc = "exited"
  /\ slot = NoConn
  /\ monitor' = [monitor EXCEPT ![p] = NoMonitor]
  /\ UNCHANGED <<slot, conn, proc, note, caller, beat, recon>>

\* Mutant: DDNSRestart is read but not reset.
ExitKeepsMark(p) ==
  LET c == monitor[p].conn IN
  /\ monitor[p].pc = "exited" /\ slot # NoConn /\ AutoReconnect
  /\ conn' = [conn EXCEPT ![c].status = "disconnected"]
  /\ Notify("disconnected")
  /\ recon' = [recon EXCEPT ![p] = [Spawned(NoRecon) EXCEPT !.fast = conn[c].ddnsRestart]]
  /\ monitor' = [monitor EXCEPT ![p] = NoMonitor]
  /\ UNCHANGED <<slot, proc, caller, beat>>

\* handleProcessExit: stderr allows a reconnect and the configuration asks for
\* it; DDNSRestart is consumed and go autoReconnect issued.
ExitRetried(p) ==
  LET c == monitor[p].conn IN
  /\ monitor[p].pc = "exited" /\ slot # NoConn /\ AutoReconnect
  /\ conn' = [conn EXCEPT ![c].status = "disconnected", ![c].ddnsRestart = FALSE]
  /\ Notify("disconnected")
  /\ recon' = [recon EXCEPT ![p] = [Spawned(NoRecon) EXCEPT !.fast = conn[c].ddnsRestart]]
  /\ monitor' = [monitor EXCEPT ![p] = NoMonitor]
  /\ UNCHANGED <<slot, proc, caller, beat>>

\* handleProcessExit: nothing follows exit status s.
ExitFinal(p, s) ==
  /\ monitor[p].pc = "exited" /\ slot # NoConn
  /\ s = "disconnected" => ~AutoReconnect
  /\ conn' = [conn EXCEPT ![monitor[p].conn].status = s]
  /\ NotifyTerminal(s)
  /\ monitor' = [monitor EXCEPT ![p] = NoMonitor]
  /\ UNCHANGED <<slot, proc, caller, beat, recon>>

-----------------------------------------------------------------------------
(* The DDNS heartbeat.                                                     *)

\* Mutant: the generation is not compared.
BeatRunning(p) == conn[beat[p].conn].status = "running"

BeatCurrent(p) == /\ conn[beat[p].conn].gen = beat[p].gen
                  /\ conn[beat[p].conn].status = "running"

BeatEnds(p) == beat' = [beat EXCEPT ![p] = NoBeat]

\* StopCh is closed.
BeatStop(p) ==
  /\ beat[p].pc = "tick"
  /\ conn[beat[p].conn].stopped
  /\ BeatEnds(p)
  /\ UNCHANGED <<slot, conn, proc, note, caller, monitor, recon>>

\* A tick: snapshot the address, or retire when superseded.
BeatTick(p) ==
  /\ beat[p].pc = "tick"
  /\ IF BeatCurrent(p)
     THEN beat' = [beat EXCEPT ![p].pc = "fetch", ![p].ip = conn[beat[p].conn].ip]
     ELSE BeatEnds(p)
  /\ UNCHANGED <<slot, conn, proc, note, caller, monitor, recon>>

\* freshIPs has no answer: next tick.
BeatMiss(p) ==
  /\ beat[p].pc = "fetch"
  /\ beat' = [beat EXCEPT ![p].pc = "tick"]
  /\ UNCHANGED <<slot, conn, proc, note, caller, monitor, recon>>

\* Mutant: the snapshot taken before the network call is trusted.
TrustSnapshot(p) == beat[p].conn \in Conns

\* The snapshot still describes the connection after the network call.
BeatRecheck(p) == BeatCurrent(p) /\ conn[beat[p].conn].ip = beat[p].ip

BeatSuperseded(p) ==
  /\ beat[p].pc = "fetch"
  /\ ~BeatRecheck(p)
  /\ BeatEnds(p)
  /\ UNCHANGED <<slot, conn, proc, note, caller, monitor, recon>>

\* freshIPs answers with ips and the tunnel's address is among them.
BeatSatisfied(p, ips) ==
  /\ beat[p].pc = "fetch"
  /\ BeatRecheck(p) /\ beat[p].ip \in ips
  /\ beat' = [beat EXCEPT ![p].pc = "tick"]
  /\ UNCHANGED <<slot, conn, proc, note, caller, monitor, recon>>

\* It is not: mark the restart and capture the process.
BeatCondemns(p, ips) ==
  LET c == beat[p].conn IN
  /\ beat[p].pc = "fetch"
  /\ BeatRecheck(p) /\ beat[p].ip \notin ips
  /\ conn' = [conn EXCEPT ![c].ddnsRestart = TRUE]
  /\ beat' = [beat EXCEPT ![p].pc = "kill", ![p].proc = conn[c].proc]
  /\ UNCHANGED <<slot, proc, note, caller, monitor, recon>>

\* Outside the mutex: kill the process captured under it.
BeatKill(p) ==
  /\ beat[p].pc = "kill"
  /\ proc' = Killed(proc, beat[p].proc)
  /\ BeatEnds(p)
  /\ UNCHANGED <<slot, conn, note, caller, monitor, recon>>

-----------------------------------------------------------------------------
(* autoReconnect.                                                          *)

\* The connection is looked up by id, when the new goroutine first runs.
ReconLookup(p) ==
  /\ recon[p].pc = "spawned"
  /\ recon' = [recon EXCEPT ![p] =
       IF slot = NoConn THEN NoRecon ELSE [@ EXCEPT !.pc = "waiting", !.conn = slot]]
  /\ UNCHANGED <<slot, conn, proc, note, caller, monitor, beat>>

\* The retry wait, if there is one, is over: give up when StopCh is closed.
ReconWake(p) ==
  /\ recon[p].pc = "waiting"
  /\ recon' = [recon EXCEPT ![p] =
       IF conn[recon[p].conn].stopped THEN NoRecon ELSE [@ EXCEPT !.pc = "resolving"]]
  /\ UNCHANGED <<slot, conn, proc, note, caller, monitor, beat>>

\* Resolving, the password pipe or Start fails: the next attempt, if any.
ReconFail(p) ==
  /\ recon[p].pc = "resolving"
  /\ recon' = [recon EXCEPT ![p].pc = IF recon[p].tries + 1 < MaxRetries
                                      THEN "waiting" ELSE "exhausted",
                            ![p].tries = @ + 1]
  /\ UNCHANGED <<slot, conn, proc, note, caller, monitor, beat>>

\* The target resolved to ip and ssh is started.
ReconStart(p, q, ip) ==
  /\ recon[p].pc = "resolving"
  /\ FreeProc(q)
  /\ proc' = Started(proc, q, ip)
  /\ recon' = [recon EXCEPT ![p].pc = "started", ![p].proc = q]
  /\ UNCHANGED <<slot, conn, note, caller, monitor, beat>>

\* Mutant: the map is not looked at again.
Unverified(p) == recon[p].conn # NoConn

\* The connection looked up at the start is still the one in the map.
StillMine(p) == slot = recon[p].conn

ReconPublish(p) ==
  LET c == recon[p].conn
      q == recon[p].proc IN
  /\ recon[p].pc = "started"
  /\ StillMine(p)
  /\ conn' = [conn EXCEPT ![c].proc = q, ![c].status = "connecting", ![c].ip = proc[q].host]
  /\ Notify("connecting")
  /\ GoMonitor(q)
  /\ recon' = [recon EXCEPT ![p] = NoRecon]
  /\ UNCHANGED <<slot, proc, caller, beat>>

\* The connection was removed or replaced during the start.
ReconAbort(p) ==
  /\ recon[p].pc = "started"
  /\ ~StillMine(p)
  /\ proc' = Killed(proc, recon[p].proc)
  /\ recon' = [recon EXCEPT ![p] = NoRecon]
  /\ UNCHANGED <<slot, conn, note, caller, monitor, beat>>

\* The retry budget is spent: the connection (any) under id is marked.
ReconExhaust(p) ==
  /\ recon[p].pc = "exhausted"
  /\ \/ /\ slot = NoConn
        /\ UNCHANGED <<conn, note>>
     \/ /\ slot # NoConn
        /\ conn' = [conn EXCEPT ![slot].status = "disconnected"]
        /\ NotifyTerminal("disconnected")
  /\ recon' = [recon EXCEPT ![p] = NoRecon]
  /\ UNCHANGED <<slot, proc, caller, monitor, beat>>

-----------------------------------------------------------------------------

ConnectStep(k) ==
  \/ ConnectBegin(k) \/ ConnectFail(k) \/ ConnectStore(k) \/ ConnectLost(k) \/ ConnectDone(k)
  \/ \E c \in Conns, q \in Procs, ip \in IPs : ConnectStart(k, c, q, ip)

MonitorStep(p) ==
  \/ MonitorLookup(p) \/ MonitorWait(p) \/ MonitorStopped(p) \/ MonitorExit(p)
  \/ MonitorTimer(p) \/ MonitorUnconfirmed(p) \/ MonitorConfirm(p)
  \/ ExitIgnored(p) \/ ExitRetried(p)
  \/ \E s \in ExitStatus : ExitFinal(p, s)

BeatStep(p) ==
  \/ BeatStop(p) \/ BeatTick(p) \/ BeatMiss(p) \/ BeatSuperseded(p) \/ BeatKill(p)
  \/ \E ips \in (SUBSET IPs) \ {{}} : BeatSatisfied(p, ips) \/ BeatCondemns(p, ips)

ReconStep(p) ==
  \/ ReconLookup(p) \/ ReconWake(p) \/ ReconFail(p) \/ ReconPublish(p) \/ ReconAbort(p)
  \/ ReconExhaust(p)
  \/ \E q \in Procs, ip \in IPs : ReconStart(p, q, ip)

Next ==
  \/ Disconnect
  \/ \E k \in Callers : ConnectStep(k)
  \/ \E p \in Procs : ProcExit(p) \/ MonitorStep(p) \/ BeatStep(p) \/ ReconStep(p)

Spec == Init /\ [][Next]_vars

\* Fairness: a runnable goroutine runs, the waits of autoReconnect and of the
\* heartbeat end, and a killed child is reaped.  A select with several ready
\* cases chooses at random, so a closed StopCh is not passed over for ever.
\* Nobody has to click, and a living child need not exit.
Fairness ==
  /\ \A k \in Callers : WF_vars(ConnectFail(k) \/ ConnectStore(k) \/ ConnectLost(k) \/ ConnectDone(k))
  /\ \A p \in Procs : /\ WF_vars(MonitorStep(p))
                      /\ WF_vars(BeatStep(p)) /\ SF_vars(BeatStop(p))
                      /\ WF_vars(ReconStep(p))
                      /\ WF_vars(proc[p].state = "dying" /\ ProcExit(p))

FairSpec == Spec /\ Fairness

-----------------------------------------------------------------------------
(* Properties that hold for every interleaving.                            *)

\* No tunnel survives Disconnect: the process a disconnected SSHConn points to
\* has been killed, although an autoReconnect of that connection may have been
\* resolving or starting a process while the user disconnected (ssh.go:1049,
\* 1101).
StoppedIsDead ==
  \A c \in Conns, q \in Procs :
    conn[c].stopped /\ conn[c].proc = q => proc[q].state # "alive"

\* Of the heartbeats that run for one connection at most one can act: the
\* others are of an older generation and retire at their next look (ssh.go:35,
\* 767).
OneBeatActs ==
  \A p, q \in Procs :
    /\ beat[p].pc # "none" /\ beat[q].pc # "none" /\ p # q
    /\ beat[p].conn = beat[q].conn
    => ~(BeatCurrent(p) /\ BeatCurrent(q))

\* A heartbeat kills only a process that dials the very address it judged: not
\* the one a reconnect published during the network call (ssh.go:884).
BeatKillsJudged ==
  \A p \in Procs : beat[p].pc = "kill" => proc[beat[p].proc].host = beat[p].ip

\* A connection in the map that is not in a final state always has somebody
\* working for it: the Connect that stored it, a monitor or a reconnect, or the
\* goroutine just started that will look it up (ssh.go:715, 811, 996, 1128).
Attended ==
  slot # NoConn /\ conn[slot].status \in {"connecting", "running"} =>
    \/ \E k \in Callers : caller[k].pc = "stored" /\ caller[k].conn = slot
    \/ \E p \in Procs : \/ monitor[p].pc = "spawned" \/ monitor[p].conn = slot
                        \/ recon[p].pc = "spawned"   \/ recon[p].conn = slot

\* Every living ssh child is the tunnel of the connection in the map, or is held
\* by the Connect or the autoReconnect that has just started it.  An orphan
\* would keep the local port and could not be stopped from the UI (ssh.go:690).
NoOrphan ==
  \A q \in Procs : proc[q].state = "alive" =>
    \/ slot # NoConn /\ conn[slot].proc = q
    \/ \E k \in Callers : caller[k].pc = "started" /\ caller[k].proc = q
    \/ \E p \in Procs : recon[p].pc = "started" /\ recon[p].proc = q

\* A failure is blamed on the connection it happened to: a goroutine that gives
\* up on one connection leaves another one alone (ssh.go:1101, 1138).
ExhaustsOwn ==
  [][\A p \in Procs :
       recon[p].pc = "exhausted" /\ recon'[p].pc = "none"
         => \A c \in Conns \ {recon[p].conn} : conn'[c] = conn[c]]_vars

\* The last message queued for the UI is the present state of the forward
\* (ssh.go:54, 98): the messages are queued in the order of the transitions.
NewsIsCurrent ==
  IF slot = NoConn
  THEN note.status \in {"none", "stopped"}
  ELSE \/ \E k \in Callers : caller[k].pc = "stored"
       \/ note.status = conn[slot].status

\* The tunnel's current process is watched, or its exit is being handled, or a
\* reconnect is on its way, or the user was told that nothing will follow.
Watched ==
  slot # NoConn =>
    \/ \E k \in Callers : caller[k].pc = "stored" /\ caller[k].conn = slot
    \/ \E p \in Procs :
         \/ monitor[p].pc = "spawned"
         \/ /\ monitor[p].conn = slot
            /\ monitor[p].pc = "attach" \/ monitor[p].proc = conn[slot].proc
         \/ recon[p].pc = "spawned" \/ recon[p].conn = slot
    \/ note.terminal

\* The mark a heartbeat leaves belongs to the restart it causes: no later one
\* finds it set (ssh.go:26, 988).
RestartMarkIsFresh ==
  slot # NoConn /\ conn[slot].ddnsRestart =>
    /\ conn[slot].status # "connecting"
    /\ conn[slot].status = "running" =>
         \/ proc[conn[slot].proc].state # "alive"
         \/ \E p \in Procs : beat[p].pc = "kill" /\ beat[p].proc = conn[slot].proc

\* A heartbeat never outlives the tunnel it monitors, nor the generation it was
\* started for: it would keep polling the API for ever (ssh.go:36, 849).
BeatRetires ==
  \A p \in Procs :
    /\ beat[p].pc # "none"
    /\ conn[beat[p].conn].stopped \/ conn[beat[p].conn].gen # beat[p].gen
    ~> beat[p].pc = "none"

\* The death of a tunnel that was reported as up or coming up is noticed: it
\* stops being reported as such, or the user removes it, or a new process runs.
DeathIsNoticed ==
  \A q \in Procs :
    LET ReportedDead == /\ slot # NoConn
                        /\ conn[slot].proc = q /\ proc[q].state = "dead"
                        /\ conn[slot].status \in {"connecting", "running"}
    IN  ReportedDead ~> ~ReportedDead

\* The banner that announces a reconnect does not stay for ever: after the news
\* of a transient failure there is other news - a new process, a final failure,
\* or the tunnel was removed (ssh.go:979).
BannerEnds ==
  (note.status = "disconnected" /\ ~note.terminal)
    ~> (note.status # "disconnected" \/ note.terminal)

\* Reconnecting has a limit (README.md:35): a tunnel that never gets through, and that
\* the user leaves alone, is not reconnected for ever.
GivesUp ==
  \A c \in Conns :
    <>[](slot = c /\ conn[c].status # "running") => <>[](\A p \in Procs : recon[p].pc = "none")
=============================================================================
