---------------------------- MODULE AppLifecycle ----------------------------
(***************************************************************************)
(* The processes of the program: src/main.go with src/singleinstance_unix. *)
(* go.  A launch takes the lock and becomes the instance, which runs the   *)
(* steps of ConfigStore, or finds it taken and pokes the instance through  *)
(* the socket.  Show requests (the socket, the tray) reach a window over   *)
(* showCh, its consumer, showReq and the window loop; channels hold one    *)
(* request.  The instance ends by shutdown (tray or signal) or by a crash, *)
(* between any two steps; files and a socket's name outlive it.            *)
(***************************************************************************)
EXTENDS ConfigStore

CONSTANTS Launches, Nobody

ASSUME LaunchAssumption == Nobody \notin Launches

VARIABLES
  proc,     \* where each launch is
  lock,     \* who holds the flock
  socket,   \* who listens behind the name; "none" (no such file), "stale"
  showCh, showReq,   \* a request is buffered
  consumer, \* the goroutine between the two
  win       \* the window, as runAppLoop and winAlive have it

appVars == <<proc, lock, socket, showCh, showReq, consumer, win>>
vars == <<storeVars, appVars>>

TypeOK ==
  /\ StoreTypeOK
  /\ proc \in [Launches -> {"none", "start", "poke", "listen", "load", "up", "stopping", "leaving"}]
  /\ lock \in Launches \cup {Nobody}
  /\ socket \in Launches \cup {"none", "stale"}
  /\ showCh \in BOOLEAN /\ showReq \in BOOLEAN
  /\ consumer \in {"idle", "blocked"}
  /\ win \in {"none", "opening", "alive", "closing"}

Init ==
  /\ StoreInit
  /\ proc = [l \in Launches |-> "none"]
  /\ lock = Nobody /\ socket = "none"
  /\ showCh = FALSE /\ showReq = FALSE /\ consumer = "idle" /\ win = "none"

At(l, p) == proc[l] = p
Goes(l, p) == proc' = [proc EXCEPT ![l] = p]
Up == \E l \in Launches : proc[l] \in {"up", "stopping", "leaving"}

-----------------------------------------------------------------------------
(* Starting and ending.                                                    *)

Start(l) ==
  /\ At(l, "none") /\ Goes(l, "start")
  /\ UNCHANGED <<storeVars, lock, socket, showCh, showReq, consumer, win>>

\* acquireSingleInstanceLock.
TryLock(l) ==
  /\ At(l, "start")
  /\ IF lock = Nobody THEN lock' = l /\ Goes(l, "listen") ELSE lock' = lock /\ Goes(l, "poke")
  /\ UNCHANGED <<storeVars, socket, showCh, showReq, consumer, win>>

\* notifyRunningInstance; the listener's send does not block.  Either way this
\* launch ends.
Poke(l) ==
  /\ At(l, "poke") /\ Goes(l, "none")
  /\ showCh' = (showCh \/ socket \in Launches)
  /\ UNCHANGED <<storeVars, lock, socket, showReq, consumer, win>>

\* Mutant: a name left by a crashed instance is not removed, so Listen fails.
ListenOver(l) ==
  /\ At(l, "listen") /\ Goes(l, "load")
  /\ socket' = IF socket = "none" THEN l ELSE socket
  /\ Launch
  /\ UNCHANGED <<lock, showCh, showReq, consumer, win>>

\* listenForShowRequests replaces a stale name; the configuration is next.
Listen(l) ==
  /\ At(l, "listen") /\ Goes(l, "load")
  /\ socket' = l
  /\ Launch
  /\ UNCHANGED <<lock, showCh, showReq, consumer, win>>

\* Loaded: the consumer and the window loop start.
Loaded(l) ==
  /\ At(l, "load") /\ pc = "ready"
  /\ Goes(l, "up") /\ win' = "opening"
  /\ UNCHANGED <<storeVars, lock, socket, showCh, showReq, consumer>>

\* shutdown; a second trigger waits for the first one (shutdownOnce).
Quit(l) ==
  /\ At(l, "up") /\ Goes(l, "stopping")
  /\ UNCHANGED <<storeVars, lock, socket, showCh, showReq, consumer, win>>

\* DisconnectAll is done; quitProcess removes the name.
RemoveSocket(l) ==
  /\ At(l, "stopping") /\ Goes(l, "leaving")
  /\ socket' = "none"
  /\ UNCHANGED <<storeVars, lock, showCh, showReq, consumer, win>>

\* The process is gone: memory, channels and lock with it.
Gone(l) ==
  /\ Goes(l, "none")
  /\ IF lock = l
     THEN /\ lock' = Nobody
          /\ showCh' = FALSE /\ showReq' = FALSE /\ consumer' = "idle" /\ win' = "none"
          /\ Off /\ UNCHANGED disk
     ELSE UNCHANGED <<storeVars, lock, showCh, showReq, consumer, win>>

Exit(l) == At(l, "leaving") /\ Gone(l) /\ UNCHANGED socket

Crash(l) ==
  /\ ~At(l, "none") /\ Gone(l)
  /\ socket' = IF socket = l THEN "stale" ELSE socket

\* The UI thread saves; the instance works on its files.
Saves ==
  /\ Up /\ \E typed \in BOOLEAN : Save(typed)
  /\ UNCHANGED appVars

Works == StoreStep /\ UNCHANGED appVars

-----------------------------------------------------------------------------
(* The window.                                                             *)

Shown == <<showCh, showReq, consumer, win>>

WindowStep(A) == Up /\ A /\ UNCHANGED <<storeVars, proc, lock, socket>>

TrayShow == WindowStep(showCh' = TRUE /\ UNCHANGED <<showReq, consumer, win>>)

\* Between the start of the loop body and winAlive = true.
Open == WindowStep(win = "opening" /\ win' = "alive" /\ UNCHANGED <<showCh, showReq, consumer>>)

Close == WindowStep(win = "alive" /\ win' = "closing" /\ UNCHANGED <<showCh, showReq, consumer>>)

\* The loop has seen the DestroyEvent: winAlive = false.
Destroyed == WindowStep(win = "closing" /\ win' = "none" /\ UNCHANGED <<showCh, showReq, consumer>>)

\* Mutant: with no window the request is taken for done.
ConsumeDrops ==
  WindowStep(showCh /\ consumer = "idle" /\ showCh' = FALSE /\ UNCHANGED <<showReq, consumer, win>>)

\* The consumer raises a window it believes alive, or passes the request on.
Consume ==
  WindowStep(/\ showCh /\ consumer = "idle" /\ showCh' = FALSE
             /\ consumer' = IF win \in {"alive", "closing"} \/ ~showReq THEN "idle" ELSE "blocked"
             /\ showReq' = (showReq \/ win \notin {"alive", "closing"})
             /\ UNCHANGED win)

Unblock ==
  WindowStep(/\ consumer = "blocked" /\ ~showReq
             /\ consumer' = "idle" /\ showReq' = TRUE
             /\ UNCHANGED <<showCh, win>>)

Reopen ==
  WindowStep(/\ win = "none" /\ showReq
             /\ showReq' = FALSE /\ win' = "opening"
             /\ UNCHANGED <<showCh, consumer>>)

Next ==
  \/ \E l \in Launches : \/ Start(l) \/ TryLock(l) \/ Poke(l) \/ Listen(l) \/ Loaded(l)
                         \/ Quit(l) \/ RemoveSocket(l) \/ Exit(l) \/ Crash(l)
  \/ Saves \/ Works
  \/ TrayShow \/ Open \/ Close \/ Destroyed \/ Consume \/ Unblock \/ Reopen

Spec == Init /\ [][Next]_vars

\* Goroutines run; nobody has to click, quit or crash.
Fairness ==
  /\ WF_vars(Open) /\ WF_vars(Destroyed) /\ WF_vars(Consume) /\ WF_vars(Unblock)
  /\ WF_vars(Reopen)

FairSpec == Spec /\ Fairness

-----------------------------------------------------------------------------

\* A launch that finds the lock taken can reach the instance: from the time it
\* loads until it shuts down the name leads to it, whatever instances crashed or
\* are leaving beside it (main.go:66, singleinstance_unix.go:56).
Reachable ==
  \A l \in Launches : proc[l] \in {"load", "up", "stopping"} => socket = l

\* A request made in tray mode brings a window (main.go:143).
ShowFromTray == (showCh /\ win = "none" /\ Up) ~> (win = "alive" \/ ~Up)
=============================================================================
