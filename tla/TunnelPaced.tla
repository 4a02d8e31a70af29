----------------------------- MODULE TunnelPaced -----------------------------
(***************************************************************************)
(* TunnelManager with a user who does not outrun the scheduler.  Several   *)
(* goroutines act on whatever m.conns[id] holds when they first run, or    *)
(* check something and take the mutex afterwards; each of these gaps is a  *)
(* few instructions long, while replacing a connection takes a resolver    *)
(* round trip, a TCP dial and a fork.  Under this assumption (and only the *)
(* steps that change the slot are restricted) the manager keeps promises   *)
(* it does not keep for every schedule.  The waits of autoReconnect last   *)
(* seconds and remain free to be overtaken.                                *)
(***************************************************************************)
EXTENDS TunnelManager

\* No goroutine is between `go` and its lookup, or between a check and the
\* critical section that acts on it.
Settled ==
  /\ \A k \in Callers : caller[k].pc # "stored"
  /\ \A p \in Procs : /\ monitor[p].pc \notin {"spawned", "confirm", "exited"}
                      /\ recon[p].pc # "spawned"

Paced ==
  /\ slot' = slot \/ Settled
  /\ \A k \in Callers : caller[k].pc = "stored" => caller'[k].pc = "idle"

PacedNext == Next /\ Paced

PacedSpec == Init /\ [][PacedNext]_vars

\* Goroutines that look after the connection in the map, or are about to look it up.
Tends(p)   == monitor[p].pc = "spawned" \/ (monitor[p].pc # "none" /\ monitor[p].conn = slot)
Retries(p) == recon[p].pc = "spawned" \/ (recon[p].pc # "none" /\ recon[p].conn = slot)

\* The connection in the map has one goroutine to look after it at a time: the
\* Connect that stored it, a monitor, or a reconnect.  Two monitors would report
\* every failure twice, and each start a reconnect of its own (ssh.go:811, 996,
\* 1128).
OneAttends ==
  /\ \A p, q \in Procs : /\ Tends(p) /\ Tends(q) => p = q
                         /\ Retries(p) /\ Retries(q) => p = q
                         /\ ~(Tends(p) /\ Retries(q))
  /\ \A k \in Callers, p \in Procs : caller[k].pc = "stored" => ~Tends(p) /\ ~Retries(p)
  /\ \A j, k \in Callers : caller[j].pc = "stored" /\ caller[k].pc = "stored" => j = k

\* What the rest of the program sees of the manager.
Slot == INSTANCE TunnelSlot WITH
  status <- IF slot = NoConn THEN "not_found" ELSE conn[slot].status,
  final  <- slot # NoConn /\ note.terminal

\* The manager implements the slot that GetStatus and the callbacks show: every
\* critical section of ssh.go moves it as TunnelSlot allows or not at all.  A
\* terminal failure is announced exactly with the transitions that end for good
\* (ssh.go:161, 979), whichever goroutine is late.
SlotSpec == Slot!SlotSpec
=============================================================================
