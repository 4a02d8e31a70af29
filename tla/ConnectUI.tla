------------------------------ MODULE ConnectUI ------------------------------
(***************************************************************************)
(* The part of src/ui.go that connects, and the goroutines that connect    *)
(* beside it: autoConnect and the tray of src/main.go.  One UI thread runs *)
(* frames: it drains uiCmdQ, handles at most one click, paints.  Handlers  *)
(* hand everything slow to goroutines, the jobs, which answer through      *)
(* uiCmdQ or directly through setTestResult.                               *)
(*                                                                         *)
(* The manager is TunnelSlot; `held` is the configuration its tunnel was   *)
(* given.  A configuration is a model value: what the fields say matters   *)
(* to nobody here.  Whether a port is in use, a kill or a save succeeds or *)
(* a host answers is a free choice; reading a status and the Disconnect    *)
(* that answers it are one step.  Texts are left out: of setTestResult     *)
(* remains that it ends the test in progress.                              *)
(***************************************************************************)
EXTENDS Naturals, Sequences, TunnelSlot

CONSTANTS
  Jobs,     \* goroutines that exist at one time
  Configs,  \* forward configurations
  MaxCmds   \* bound: no click in the tray and no failure of the tunnel while
            \* this many closures are queued

ASSUME JobsAssumption == Configs # {} /\ MaxCmds \in Nat

VARIABLES
  held,     \* SSHConn.Config of the tracked connection
  cfg,      \* ConfigManager.state.Forward
  disk,     \* the same in config.json
  ui,       \* fields of UI, and where the UI thread is
  testing,  \* UI.testing
  uiCmds,   \* UI.uiCmdQ
  job       \* the goroutines

vars == <<status, final, held, cfg, disk, ui, testing, uiCmds, job>>
store == <<cfg, disk>>

Kinds == {"connect", "restart", "kill", "change", "auto", "tray", "test"}
NoJob == [kind |-> "none", pc |-> "none", cfg |-> CHOOSE c \in Configs : TRUE]
JobRec == [kind : Kinds \cup {"none"}, cfg : Configs,
           pc : {"none", "start", "clear", "kill", "check", "begin", "dialing", "leave",
                 "testing"}]

\* A closure on uiCmdQ: the flags it releases, whether it calls setTestResult,
\* and what it makes of the conflict dialog.
CmdRec == [frees : {"none", "connect", "both"}, tells : BOOLEAN,
           dialog : {"keep", "none", "shown"}]

\* dialog: "entry" once 更换端口 has revealed the input.
UIRec == [pc : {"idle", "events", "saving", "changing"}, prev : Configs,
          connectBusy : BOOLEAN, conflictBusy : BOOLEAN, dialog : {"none", "shown", "entry"}]

TypeOK ==
  /\ SlotTypeOK
  /\ held \in Configs /\ cfg \in Configs /\ disk \in Configs
  /\ ui \in UIRec /\ testing \in BOOLEAN
  /\ uiCmds \in Seq(CmdRec)
  /\ job \in [Jobs -> JobRec]

\* A configured program; its first window has just started autoConnect.
Init ==
  /\ SlotInit
  /\ cfg \in Configs /\ disk = cfg /\ held = cfg
  /\ ui = [pc |-> "idle", prev |-> cfg, connectBusy |-> FALSE, conflictBusy |-> FALSE,
           dialog |-> "none"]
  /\ testing = FALSE /\ uiCmds = <<>>
  /\ \E a \in Jobs : job = [j \in Jobs |-> IF j = a
                              THEN [NoJob EXCEPT !.kind = "auto", !.pc = "start"] ELSE NoJob]

-----------------------------------------------------------------------------
(* Goroutines.                                                             *)

Cmd(frees, tells, dialog) == [frees |-> frees, tells |-> tells, dialog |-> dialog]

Room == Len(uiCmds) < MaxCmds

\* What the end of a job of this kind releases.
Frees(k) == CASE k \in {"connect", "restart"} -> "connect"
              [] k \in {"kill", "change"}     -> "both"
              [] OTHER                        -> "none"

Go(j, k, p, c) == /\ job[j] = NoJob
                  /\ job' = [job EXCEPT ![j] = [kind |-> k, pc |-> p, cfg |-> c]]

At(j, p) == job[j].pc = p
Goes(j, p) == job' = [job EXCEPT ![j].pc = p]

Post(c) == uiCmds' = IF c = Cmd("none", FALSE, "keep") THEN uiCmds ELSE Append(uiCmds, c)

\* The last closure a job queues, and its end.
Release(j, tells, dialog) ==
  /\ Post(Cmd(Frees(job[j].kind), tells, dialog))
  /\ job' = [job EXCEPT ![j] = NoJob]

\* A closure that leaves the release, if there is one, to the next step.
Report(j, tells, dialog) ==
  /\ Post(Cmd("none", tells, dialog))
  /\ job' = [job EXCEPT ![j] = IF Frees(@.kind) = "none" THEN NoJob ELSE [@ EXCEPT !.pc = "leave"]]

Leave(j) ==
  /\ At(j, "leave")
  /\ Release(j, FALSE, "keep")
  /\ UNCHANGED <<status, final, held, store, ui, testing>>

\* Disconnect of whatever is tracked.
Clear == IF status = "not_found" THEN UNCHANGED slotVars ELSE Remove

\* The goroutines of checkPortAndConnect and restartWithConfig report an error
\* directly, the others queue the report.
Fails(j) ==
  \/ /\ job[j].kind \in {"connect", "restart"}
     /\ testing' = FALSE /\ Report(j, FALSE, "keep")
  \/ /\ job[j].kind \notin {"connect", "restart"}
     /\ testing' = testing /\ Report(j, TRUE, "keep")

AutoStart(j) ==
  /\ job[j].kind = "auto" /\ At(j, "start")
  /\ job' = [job EXCEPT ![j] = [kind |-> @.kind, pc |-> "check", cfg |-> cfg]]
  /\ UNCHANGED <<status, final, held, store, ui, testing, uiCmds>>

\* trayConnect takes down a running tunnel, leaves a connecting one alone and
\* clears any other before it connects.
TrayStart(j) ==
  /\ job[j].kind = "tray" /\ At(j, "start")
  /\ \/ status = "connecting" /\ job' = [job EXCEPT ![j] = NoJob] /\ UNCHANGED slotVars
     \/ status = "running"    /\ job' = [job EXCEPT ![j] = NoJob] /\ Remove
     \/ /\ status \notin {"connecting", "running"}
        /\ job' = [job EXCEPT ![j] = [kind |-> @.kind, pc |-> "check", cfg |-> cfg]]
        /\ Clear
  /\ UNCHANGED <<held, store, ui, testing, uiCmds>>

\* restartWithConfig disconnects, then waits for the port.
RestartClear(j) ==
  /\ At(j, "clear") /\ Goes(j, "check")
  /\ Clear
  /\ UNCHANGED <<held, store, ui, testing, uiCmds>>

PortTaken(j) ==
  /\ At(j, "check")
  /\ Report(j, FALSE, "shown")
  /\ UNCHANGED <<status, final, held, store, ui, testing>>

\* The check itself fails; a restart then connects all the same (PortFree).
PortUnknown(j) ==
  /\ At(j, "check") /\ job[j].kind # "restart"
  /\ testing' = (testing /\ job[j].kind # "connect")
  /\ Report(j, FALSE, "keep")
  /\ UNCHANGED <<status, final, held, store, ui>>

PortFree(j) ==
  /\ At(j, "check") /\ Goes(j, "begin")
  /\ UNCHANGED <<status, final, held, store, ui, testing, uiCmds>>

KillFails(j) ==
  /\ At(j, "kill")
  /\ Release(j, TRUE, "keep")
  /\ UNCHANGED <<status, final, held, store, ui, testing>>

\* Mutant: the flags are released before the connect.
KillFreesEarly(j) ==
  /\ At(j, "kill") /\ Goes(j, "begin")
  /\ uiCmds' = Append(uiCmds, Cmd("both", TRUE, "none"))
  /\ UNCHANGED <<status, final, held, store, ui, testing>>

KillDone(j) ==
  /\ At(j, "kill") /\ Goes(j, "begin")
  /\ uiCmds' = Append(uiCmds, Cmd("none", TRUE, "none"))
  /\ UNCHANGED <<status, final, held, store, ui, testing>>

\* Connect: "connection already exists".
ConnectRefused(j) ==
  /\ At(j, "begin") /\ status # "not_found"
  /\ Fails(j)
  /\ UNCHANGED <<status, final, held, store, ui>>

ConnectDial(j) ==
  /\ At(j, "begin") /\ status = "not_found"
  /\ Goes(j, "dialing")
  /\ UNCHANGED <<status, final, held, store, ui, testing, uiCmds>>

\* Mutant: a failed Connect returns without the deferred release.
FailsSilently(j) ==
  /\ At(j, "dialing")
  /\ job' = [job EXCEPT ![j] = NoJob]
  /\ UNCHANGED <<status, final, held, store, ui, testing, uiCmds>>

\* The host does not answer, or another Connect stored first.
ConnectFail(j) ==
  /\ At(j, "dialing")
  /\ Fails(j)
  /\ UNCHANGED <<status, final, held, store, ui>>

ConnectStore(j) ==
  /\ At(j, "dialing")
  /\ Begin /\ held' = job[j].cfg
  /\ Release(j, FALSE, "keep")
  /\ UNCHANGED <<store, ui, testing>>

TestBegin(j) ==
  /\ job[j].kind = "test" /\ At(j, "start")
  /\ testing' = TRUE /\ Goes(j, "testing")
  /\ UNCHANGED <<status, final, held, store, ui, uiCmds>>

\* Mutant: an early return forgets setTestResult.
TestForgets(j) ==
  /\ At(j, "testing")
  /\ job' = [job EXCEPT ![j] = NoJob]
  /\ UNCHANGED <<status, final, held, store, ui, testing, uiCmds>>

TestEnd(j) ==
  /\ At(j, "testing")
  /\ testing' = FALSE /\ job' = [job EXCEPT ![j] = NoJob]
  /\ UNCHANGED <<status, final, held, store, ui, uiCmds>>

JobStep(j) ==
  \/ AutoStart(j) \/ TrayStart(j) \/ RestartClear(j) \/ PortTaken(j) \/ PortUnknown(j)
  \/ PortFree(j) \/ Leave(j) \/ KillFails(j) \/ KillDone(j) \/ ConnectRefused(j) \/ ConnectDial(j) \/ ConnectFail(j)
  \/ ConnectStore(j) \/ TestBegin(j) \/ TestEnd(j)

-----------------------------------------------------------------------------
(* The UI thread.                                                          *)

Freed(flag) == \E i \in DOMAIN uiCmds : uiCmds[i].frees \in flag

\* Mutant: a closure that has nothing to say about the dialog clears it.
LastDialog == IF uiCmds = <<>> THEN ui.dialog ELSE uiCmds[Len(uiCmds)].dialog

\* The last queued closure that touches the dialog decides.
Dialog ==
  IF \E i \in DOMAIN uiCmds : uiCmds[i].dialog # "keep"
  THEN uiCmds[CHOOSE i \in DOMAIN uiCmds :
                /\ uiCmds[i].dialog # "keep"
                /\ \A k \in DOMAIN uiCmds : k > i => uiCmds[k].dialog = "keep"].dialog
  ELSE ui.dialog

\* drainUICmds, at the start of handleEvents.
FrameStart ==
  /\ ui.pc = "idle"
  /\ ui' = [ui EXCEPT !.pc = "events", !.dialog = Dialog,
                      !.connectBusy = @ /\ ~Freed({"connect", "both"}),
                      !.conflictBusy = @ /\ ~Freed({"both"})]
  /\ testing' = (testing /\ ~\E i \in DOMAIN uiCmds : uiCmds[i].tells)
  /\ uiCmds' = <<>>
  /\ UNCHANGED <<status, final, held, store, job>>

Events == ui.pc = "events"

\* No click, one that a flag makes the handler ignore, or invalid input.
FrameEnd ==
  /\ Events /\ ui' = [ui EXCEPT !.pc = "idle"]
  /\ testing' \in {testing, FALSE}
  /\ UNCHANGED <<status, final, held, store, uiCmds, job>>

\* toggleConnection on a running tunnel.
ToggleOff ==
  /\ Events /\ ~ui.connectBusy /\ ~ui.conflictBusy
  /\ status = "running" /\ Remove
  /\ ui' = [ui EXCEPT !.pc = "idle"]
  /\ UNCHANGED <<held, store, testing, uiCmds, job>>

\* toggleConnection otherwise: what is left of an earlier attempt is cleared.
ToggleOn(j) ==
  /\ Events /\ ~ui.connectBusy /\ ~ui.conflictBusy
  /\ status # "running" /\ Clear
  /\ ui' = [ui EXCEPT !.pc = "idle", !.connectBusy = TRUE]
  /\ testing' = FALSE
  /\ Go(j, "connect", "check", cfg)
  /\ UNCHANGED <<held, store, uiCmds>>

TestClick(j) ==
  /\ Events /\ ~testing
  /\ ui' = [ui EXCEPT !.pc = "idle"]
  /\ Go(j, "test", "start", cfg)
  /\ UNCHANGED <<status, final, held, store, testing, uiCmds>>

\* saveSettings: the new forward is in memory, visible to every goroutine,
\* before the file is written.
SaveClick(c) ==
  /\ Events
  /\ ui' = [ui EXCEPT !.pc = "saving", !.prev = cfg]
  /\ cfg' = c
  /\ UNCHANGED <<status, final, held, disk, testing, uiCmds, job>>

SaveFails ==
  /\ ui.pc = "saving"
  /\ cfg' = ui.prev /\ ui' = [ui EXCEPT !.pc = "idle"]
  /\ testing' = FALSE
  /\ UNCHANGED <<status, final, held, disk, uiCmds, job>>

\* Saved; nothing is tracked, or somebody is connecting already.
SaveOnly ==
  /\ ui.pc = "saving"
  /\ status = "not_found" \/ ui.connectBusy
  /\ disk' = cfg /\ ui' = [ui EXCEPT !.pc = "idle"]
  /\ testing' = FALSE
  /\ UNCHANGED <<status, final, held, cfg, uiCmds, job>>

\* Saved; restartWithConfig replaces the tunnel, in whatever state it is.
SaveRestarts(j) ==
  /\ ui.pc = "saving"
  /\ status # "not_found" /\ ~ui.connectBusy
  /\ disk' = cfg /\ ui' = [ui EXCEPT !.pc = "idle", !.connectBusy = TRUE]
  /\ testing' = FALSE
  /\ Go(j, "restart", "clear", cfg)
  /\ UNCHANGED <<status, final, held, cfg, uiCmds>>

\* The buttons of the conflict dialog.
DialogOpen == Events /\ ui.dialog # "none" /\ ~ui.conflictBusy

Dismiss ==
  /\ DialogOpen /\ ui' = [ui EXCEPT !.pc = "idle", !.dialog = "none"]
  /\ UNCHANGED <<status, final, held, store, testing, uiCmds, job>>

Reveal ==
  /\ DialogOpen /\ ui.dialog = "shown" /\ ui' = [ui EXCEPT !.pc = "idle", !.dialog = "entry"]
  /\ UNCHANGED <<status, final, held, store, testing, uiCmds, job>>

KillClick(j) ==
  /\ DialogOpen
  /\ ui' = [ui EXCEPT !.pc = "idle", !.conflictBusy = TRUE, !.connectBusy = TRUE]
  /\ Go(j, "kill", "kill", cfg)
  /\ UNCHANGED <<status, final, held, store, testing, uiCmds>>

\* handleChangePort: memory first, then the file.
ChangeClick(c) ==
  /\ DialogOpen /\ ui.dialog = "entry"
  /\ ui' = [ui EXCEPT !.pc = "changing", !.conflictBusy = TRUE, !.connectBusy = TRUE]
  /\ cfg' = c
  /\ UNCHANGED <<status, final, held, disk, testing, uiCmds, job>>

\* The save fails; the port in memory is not rolled back.
ChangeFails ==
  /\ ui.pc = "changing"
  /\ ui' = [ui EXCEPT !.pc = "idle", !.dialog = "none",
                      !.conflictBusy = FALSE, !.connectBusy = FALSE]
  /\ testing' = FALSE
  /\ UNCHANGED <<status, final, held, store, uiCmds, job>>

ChangeDone(j) ==
  /\ ui.pc = "changing"
  /\ disk' = cfg
  /\ ui' = [ui EXCEPT !.pc = "idle", !.dialog = "none"]
  /\ testing' = FALSE
  /\ Go(j, "change", "begin", cfg)
  /\ UNCHANGED <<status, final, held, cfg, uiCmds>>

-----------------------------------------------------------------------------
(* The tray, and the manager by itself.                                    *)

\* DisconnectAll, when the menu showed a running tunnel.
TrayDisconnect ==
  /\ Remove
  /\ UNCHANGED <<held, store, ui, testing, uiCmds, job>>

TrayConnect(j) ==
  /\ status # "running" /\ Room /\ Go(j, "tray", "start", cfg)
  /\ UNCHANGED <<status, final, held, store, ui, testing, uiCmds>>

TunnelMoves ==
  /\ Up \/ Fall \/ Retry
  /\ UNCHANGED <<held, store, ui, testing, uiCmds, job>>

\* onTerminalFailure queues a banner.
TunnelEnds ==
  /\ Room
  /\ (\E s \in Tracked : Fail(s)) \/ GiveUp
  /\ uiCmds' = Append(uiCmds, Cmd("none", TRUE, "keep"))
  /\ UNCHANGED <<held, store, ui, testing, job>>

UIStep ==
  \/ FrameStart \/ FrameEnd \/ ToggleOff \/ Dismiss \/ Reveal
  \/ SaveFails \/ SaveOnly \/ ChangeFails
  \/ \E c \in Configs : SaveClick(c) \/ ChangeClick(c)
  \/ \E j \in Jobs : \/ ToggleOn(j) \/ TestClick(j) \/ KillClick(j)
                     \/ SaveRestarts(j) \/ ChangeDone(j)

Next ==
  \/ UIStep
  \/ TrayDisconnect \/ TunnelMoves \/ TunnelEnds
  \/ \E j \in Jobs : TrayConnect(j) \/ JobStep(j)

Spec == Init /\ [][Next]_vars

\* The window is open: queueUIFunc asks for a frame and gets one, a frame ends,
\* a write to the disk ends, a goroutine runs and its timeouts expire.
\* (A kill that asks through pkexec goes on when the user answers the prompt.)
Fairness ==
  /\ WF_vars(FrameStart) /\ WF_vars(FrameEnd)
  /\ WF_vars(SaveFails) /\ WF_vars(ChangeFails)
  /\ \A j \in Jobs : WF_vars(JobStep(j))

FairSpec == Spec /\ Fairness

-----------------------------------------------------------------------------

\* A busy flag that disables buttons is owed a release by a goroutine under way
\* or by a closure already queued: none is left set for ever on some error path
\* of the handlers (ui.go:394, 516, 574).
BusyOwned ==
  ui.connectBusy =>
    \/ \E j \in Jobs : Frees(job[j].kind) # "none"
    \/ Freed({"connect", "both"}) \/ ui.pc = "changing"

\* Who runs a section of the conflict dialog, and the releases still queued.
DialogJobs == {j \in Jobs : Frees(job[j].kind) = "both"}
DialogFrees == {i \in DOMAIN uiCmds : uiCmds[i].frees = "both"}

\* conflictBusy covers the whole kill-and-connect or change-and-connect section
\* (ui.go:354): it is set exactly as long as one runs or its release is queued,
\* and there is never a second one, whatever the tray, a save or the main button
\* do meanwhile.
DialogExclusive ==
  /\ ui.conflictBusy <=> ui.pc = "changing" \/ DialogJobs # {} \/ DialogFrees # {}
  /\ ui.pc = "changing" => DialogJobs = {} /\ DialogFrees = {}
  /\ DialogJobs # {} => DialogFrees = {}
  /\ \A j, k \in DialogJobs : j = k
  /\ \A i, k \in DialogFrees : i = k

\* No button stays disabled (ui.go:346, 394, 363).
ButtonsRecover ==
  /\ ui.connectBusy ~> ~ui.connectBusy
  /\ ui.conflictBusy ~> ~ui.conflictBusy
  /\ testing ~> ~testing

\* When nothing is under way any more, the tunnel runs the saved settings: a
\* save restarts "a tunnel for this forward in ANY state" (ui.go:838).
RunsWhatIsSaved ==
  /\ status # "not_found"
  /\ ui.pc \in {"idle", "events"} /\ uiCmds = <<>>
  /\ \A j \in Jobs : job[j] = NoJob
  => held = disk
=============================================================================
