---------------------------- MODULE ConnectUIProofs ----------------------------
(***************************************************************************)
(* Theorems about ConnectUI: a busy flag is always owed a release and the  *)
(* conflict dialog runs one section at a time, for any number of           *)
(* goroutines, queued closures and configurations.                         *)
(***************************************************************************)
EXTENDS ConnectUI, WellFoundedInduction, TLAPS

PCs == {"none", "start", "clear", "kill", "check", "begin", "dialing", "leave", "testing"}

\* What the end of a goroutine releases.
Owes(j) == Frees(job[j].kind)

JobsOK == job \in [Jobs -> JobRec] /\ \A j \in Jobs : job[j].pc = "testing" => Owes(j) = "none"

UIInv == TypeOK /\ JobsOK /\ BusyOwned /\ DialogExclusive

-----------------------------------------------------------------------------
(* What a step does to the releases.                                       *)

\* At most one closure is queued; it releases f.
Said(f) ==
  \/ f = "none" /\ uiCmds' = uiCmds
  \/ \E c \in CmdRec : c.frees = f /\ uiCmds' = Append(uiCmds, c)

\* The goroutines go on owing what they owed ...
JobsKeep == JobsOK' /\ \A k \in Jobs : Owes(k)' = Owes(k)

\* ... except that j ends, or starts.
JobEnds(j) == JobsOK' /\ Owes(j)' = "none" /\ \A k \in Jobs : k # j => Owes(k)' = Owes(k)
JobStarts(j, f) ==
  /\ JobsOK' /\ Owes(j) = "none" /\ Owes(j)' = f
  /\ \A k \in Jobs : k # j => Owes(k)' = Owes(k)

FlagsKeep ==
  /\ ui'.connectBusy = ui.connectBusy /\ ui'.conflictBusy = ui.conflictBusy
  /\ ui'.pc = "changing" <=> ui.pc = "changing"

LEMMA NoJobType == NoJob \in JobRec /\ Frees(NoJob.kind) = "none" /\ NoJob.pc = "none"
<1>1. (CHOOSE c \in Configs : TRUE) \in Configs
  BY JobsAssumption
<1> QED BY <1>1 DEF NoJob, JobRec, Kinds, Frees

LEMMA FreesType == ASSUME NEW k PROVE Frees(k) \in {"none", "connect", "both"}
BY DEF Frees

LEMMA CmdType ==
  ASSUME NEW f \in {"none", "connect", "both"}, NEW t \in BOOLEAN,
         NEW d \in {"keep", "none", "shown"}
  PROVE  Cmd(f, t, d) \in CmdRec /\ Cmd(f, t, d).frees = f
BY DEF Cmd, CmdRec

\* The queue after one more closure: what it releases.
LEMMA SaidQueue ==
  ASSUME uiCmds \in Seq(CmdRec), NEW f, Said(f)
  PROVE  /\ uiCmds' \in Seq(CmdRec)
         /\ \/ f = "none" /\ DOMAIN uiCmds' = DOMAIN uiCmds
               /\ \A i \in DOMAIN uiCmds : uiCmds'[i] = uiCmds[i]
            \/ \E n \in Nat :
                 /\ n \notin DOMAIN uiCmds /\ DOMAIN uiCmds' = DOMAIN uiCmds \cup {n}
                 /\ uiCmds'[n].frees = f
                 /\ \A i \in DOMAIN uiCmds : uiCmds'[i] = uiCmds[i]
<1>1. CASE f = "none" /\ uiCmds' = uiCmds
  BY <1>1
<1>2. ASSUME NEW c \in CmdRec, c.frees = f, uiCmds' = Append(uiCmds, c)
      PROVE  /\ uiCmds' \in Seq(CmdRec)
             /\ \E n \in Nat :
                  /\ n \notin DOMAIN uiCmds /\ DOMAIN uiCmds' = DOMAIN uiCmds \cup {n}
                  /\ uiCmds'[n].frees = f
                  /\ \A i \in DOMAIN uiCmds : uiCmds'[i] = uiCmds[i]
  <2> DEFINE n == Len(uiCmds) + 1
  <2>1. /\ n \in Nat /\ DOMAIN uiCmds = 1..Len(uiCmds) /\ DOMAIN uiCmds' = 1..n
        /\ Len(uiCmds) \in Nat
    BY <1>2
  <2>2. n \notin DOMAIN uiCmds /\ 1..n = 1..Len(uiCmds) \cup {n}
    BY <2>1
  <2>3. uiCmds'[n] = c /\ \A i \in DOMAIN uiCmds : uiCmds'[i] = uiCmds[i]
    BY <1>2, <2>1
  <2>4. uiCmds' \in Seq(CmdRec)
    BY <1>2
  <2> QED BY <1>2, <2>1, <2>2, <2>3, <2>4
<1> QED BY <1>1, <1>2 DEF Said

LEMMA QuietKeeps ==
  ASSUME UIInv, JobsKeep, Said("none"), FlagsKeep
  PROVE  (BusyOwned /\ DialogExclusive)'
<1>1. uiCmds \in Seq(CmdRec)
  BY DEF UIInv, TypeOK
<1>2. DialogJobs' = DialogJobs
  BY DEF JobsKeep, Owes, DialogJobs
<1>3. Freed({"connect", "both"}) => Freed({"connect", "both"})'
  BY <1>1, SaidQueue DEF Freed
<1>4. DialogFrees' = DialogFrees
  BY <1>1, SaidQueue DEF DialogFrees
<1>5. BusyOwned'
  BY <1>3 DEF UIInv, BusyOwned, FlagsKeep, JobsKeep, Owes
<1>6. DialogExclusive'
  BY <1>2, <1>4 DEF UIInv, DialogExclusive, FlagsKeep
<1> QED BY <1>5, <1>6

LEMMA EndsKeeps ==
  ASSUME UIInv, NEW j \in Jobs, JobEnds(j), Said(Owes(j)), FlagsKeep
  PROVE  (BusyOwned /\ DialogExclusive)'
<1>1. uiCmds \in Seq(CmdRec)
  BY DEF UIInv, TypeOK
<1>2. CASE Owes(j) = "none"
  <2>1. JobsKeep
    BY <1>2 DEF JobsKeep, JobEnds
  <2> QED BY <1>2, <2>1, QuietKeeps
<1>3. CASE Owes(j) # "none"
  <2>1. PICK n \in Nat :
          /\ n \notin DOMAIN uiCmds /\ DOMAIN uiCmds' = DOMAIN uiCmds \cup {n}
          /\ uiCmds'[n].frees = Owes(j)
          /\ \A i \in DOMAIN uiCmds : uiCmds'[i] = uiCmds[i]
    BY <1>1, <1>3, SaidQueue
  <2>2. Owes(j) \in {"connect", "both"}
    BY <1>3, FreesType DEF Owes
  <2>3. BusyOwned'
    BY <2>1, <2>2 DEF BusyOwned, Freed
  <2>4. CASE Owes(j) = "connect"
    <3>1. DialogJobs' = DialogJobs
      BY <2>4 DEF JobEnds, Owes, DialogJobs
    <3>2. DialogFrees' = DialogFrees
      BY <2>1, <2>4 DEF DialogFrees
    <3> QED BY <2>3, <3>1, <3>2 DEF UIInv, DialogExclusive, FlagsKeep
  <2>5. CASE Owes(j) = "both"
    <3>1. j \in DialogJobs
      BY <2>5 DEF DialogJobs, Owes
    <3>2. DialogJobs' = {}
      BY <3>1 DEF JobEnds, Owes, DialogJobs, UIInv, DialogExclusive
    <3>3. DialogFrees = {}
      BY <3>1 DEF UIInv, DialogExclusive
    <3>4. DialogFrees' = {n}
      BY <2>1, <2>5, <3>3 DEF DialogFrees
    <3> QED BY <2>3, <3>1, <3>2, <3>4 DEF UIInv, DialogExclusive, FlagsKeep
  <2> QED BY <2>2, <2>4, <2>5
<1> QED BY <1>2, <1>3

-----------------------------------------------------------------------------
(* Goroutines.                                                             *)

LEMMA GoesKeeps ==
  ASSUME JobsOK, NEW j \in Jobs, NEW p \in PCs, Goes(j, p), p # "testing" \/ Owes(j) = "none"
  PROVE  JobsKeep
<1>1. job' \in [Jobs -> JobRec]
  BY DEF JobsOK, Goes, JobRec, PCs
<1>2. /\ job'[j].kind = job[j].kind /\ job'[j].pc = p
      /\ \A k \in Jobs : k # j => job'[k] = job[k]
  BY DEF JobsOK, Goes, JobRec
<1> QED BY <1>1, <1>2 DEF JobsKeep, JobsOK, Owes

LEMMA EndKeeps ==
  ASSUME JobsOK, NEW j \in Jobs, job' = [job EXCEPT ![j] = NoJob]
  PROVE  JobEnds(j)
BY NoJobType DEF JobsOK, JobEnds, Owes

LEMMA PostSays ==
  ASSUME uiCmds \in Seq(CmdRec), NEW f \in {"none", "connect", "both"}, NEW t \in BOOLEAN,
         NEW d \in {"keep", "none", "shown"}, Post(Cmd(f, t, d))
  PROVE  Said(f)
<1>1. CASE Cmd(f, t, d) = Cmd("none", FALSE, "keep")
  <2>1. f = "none"
    BY <1>1 DEF Cmd
  <2> QED BY <1>1, <2>1 DEF Post, Said
<1>2. CASE Cmd(f, t, d) # Cmd("none", FALSE, "keep")
  BY <1>2, CmdType DEF Post, Said
<1> QED BY <1>1, <1>2

\* What JobStep does to the releases.
JobMoves(j) == (JobsKeep /\ Said("none")) \/ (JobEnds(j) /\ Said(Owes(j)))

LEMMA ReleaseMoves ==
  ASSUME JobsOK, uiCmds \in Seq(CmdRec), NEW j \in Jobs, NEW t \in BOOLEAN,
         NEW d \in {"keep", "none", "shown"}, Release(j, t, d)
  PROVE  JobMoves(j)
BY EndKeeps, PostSays, FreesType DEF Release, JobMoves, Owes

LEMMA ReportMoves ==
  ASSUME JobsOK, uiCmds \in Seq(CmdRec), NEW j \in Jobs, NEW t \in BOOLEAN,
         NEW d \in {"keep", "none", "shown"}, Report(j, t, d)
  PROVE  JobMoves(j)
<1>1. Said("none")
  BY PostSays DEF Report
<1>2. CASE Owes(j) = "none"
  <2>1. job' = [job EXCEPT ![j] = NoJob]
    BY <1>2 DEF Report, Owes, JobsOK
  <2> QED BY <1>1, <1>2, <2>1, EndKeeps DEF JobMoves
<1>3. CASE Owes(j) # "none"
  <2>1. Goes(j, "leave")
    BY <1>3 DEF Report, Owes, Goes, JobsOK
  <2> QED BY <1>1, <2>1, GoesKeeps DEF JobMoves, PCs
<1> QED BY <1>2, <1>3

LEMMA StartMoves ==
  ASSUME JobsOK, NEW j \in Jobs, NEW c \in Configs, NEW p \in PCs \ {"testing"},
         job' = [job EXCEPT ![j] = [kind |-> @.kind, pc |-> p, cfg |-> c]]
  PROVE  JobsKeep
<1>1. job'[j] = [kind |-> job[j].kind, pc |-> p, cfg |-> c] /\ \A k \in Jobs : k # j => job'[k] = job[k]
  BY DEF JobsOK
<1>2. job[j] \in JobRec
  BY DEF JobsOK
<1>3. job'[j] \in JobRec
  BY <1>1, <1>2 DEF JobRec, PCs
<1>5. job'[j].kind = job[j].kind /\ job'[j].pc = p
  BY <1>1
<1>4. job' \in [Jobs -> JobRec]
  BY <1>1, <1>3 DEF JobsOK
<1> QED BY <1>1, <1>3, <1>4, <1>5 DEF JobsKeep, JobsOK, Owes

LEMMA JobStepMoves ==
  ASSUME UIInv, NEW j \in Jobs, JobStep(j) PROVE JobMoves(j) /\ UNCHANGED ui
<1> USE DEF UIInv, TypeOK
<1>1. UNCHANGED ui
  BY DEF JobStep, AutoStart, TrayStart, RestartClear, PortTaken, PortUnknown, PortFree, Leave,
         KillFails, KillDone, ConnectRefused, ConnectDial, ConnectFail, ConnectStore, TestBegin, TestEnd
<1>2. CASE AutoStart(j)
  <2>1. job' = [job EXCEPT ![j] = [kind |-> @.kind, pc |-> "check", cfg |-> cfg]] /\ UNCHANGED uiCmds
    BY <1>2 DEF AutoStart
  <2>2. JobsKeep
    <3>1. "check" \in PCs \ {"testing"} /\ cfg \in Configs /\ JobsOK
      BY DEF PCs
    <3> QED BY <2>1, <3>1, StartMoves
  <2> QED BY <1>1, <2>1, <2>2 DEF JobMoves, Said
<1>3. CASE TrayStart(j)
  <2>1. UNCHANGED uiCmds /\ Owes(j) = "none"
    BY <1>3 DEF TrayStart, Owes, Frees
  <2>2. job' = [job EXCEPT ![j] = NoJob] \/ job' = [job EXCEPT ![j] = [kind |-> @.kind, pc |-> "check", cfg |-> cfg]]
    BY <1>3 DEF TrayStart
  <2>3. JobEnds(j) \/ JobsKeep
    <3>1. "check" \in PCs \ {"testing"} /\ cfg \in Configs /\ JobsOK
      BY DEF PCs
    <3> QED BY <2>2, <3>1, StartMoves, EndKeeps
  <2> QED BY <1>1, <2>1, <2>3 DEF JobMoves, Said
<1>4. CASE RestartClear(j) \/ PortFree(j) \/ ConnectDial(j)
  BY <1>4, GoesKeeps DEF RestartClear, PortFree, ConnectDial, JobMoves, Said, PCs
<1>5. CASE PortTaken(j)
  BY <1>5, ReportMoves DEF PortTaken
<1>6. CASE PortUnknown(j)
  BY <1>6, ReportMoves DEF PortUnknown
<1>7. CASE Leave(j)
  BY <1>7, ReleaseMoves DEF Leave
<1>8. CASE KillFails(j)
  BY <1>8, ReleaseMoves DEF KillFails
<1>9. CASE KillDone(j)
  <2>1. Said("none")
    BY <1>9, CmdType DEF KillDone, Said
  <2> QED BY <1>9, <2>1, GoesKeeps DEF KillDone, JobMoves, PCs
<1>10. CASE ConnectRefused(j) \/ ConnectFail(j)
  <2>1. Fails(j)
    BY <1>10 DEF ConnectRefused, ConnectFail
  <2> QED BY <1>1, <2>1, ReportMoves DEF Fails
<1>11. CASE ConnectStore(j)
  BY <1>11, ReleaseMoves DEF ConnectStore
<1>12. CASE TestBegin(j)
  <2>1. Owes(j) = "none"
    BY <1>12 DEF TestBegin, Owes, Frees
  <2> QED BY <1>12, <2>1, GoesKeeps DEF TestBegin, JobMoves, Said, PCs
<1>13. CASE TestEnd(j)
  <2>1. Owes(j) = "none"
    BY <1>13 DEF TestEnd, At, JobsOK
  <2> QED BY <1>13, <2>1, EndKeeps DEF TestEnd, JobMoves, Said
<1> QED BY <1>1, <1>2, <1>3, <1>4, <1>5, <1>6, <1>7, <1>8, <1>9, <1>10, <1>11, <1>12, <1>13 DEF JobStep

LEMMA JobStepKeeps == ASSUME UIInv, NEW j \in Jobs, JobStep(j) PROVE UIInv'
<1>1. JobMoves(j) /\ UNCHANGED ui
  BY JobStepMoves
<1>2. (BusyOwned /\ DialogExclusive)'
  BY <1>1, QuietKeeps, EndsKeeps DEF JobMoves, FlagsKeep
<1>3. JobsOK' /\ uiCmds' \in Seq(CmdRec)
  BY <1>1, SaidQueue DEF JobMoves, JobsKeep, JobEnds, UIInv, TypeOK
<1>4. UNCHANGED store
  BY DEF JobStep, AutoStart, TrayStart, RestartClear, PortTaken, PortUnknown, PortFree, Leave,
         KillFails, KillDone, ConnectRefused, ConnectDial, ConnectFail, ConnectStore, TestBegin, TestEnd
<1>5. SlotTypeOK'
  BY DEF UIInv, TypeOK, SlotTypeOK, Tracked, Clear, Remove, Begin, Moved, slotVars,
         JobStep, AutoStart, TrayStart, RestartClear, PortTaken, PortUnknown, PortFree, Leave,
         KillFails, KillDone, ConnectRefused, ConnectDial, ConnectFail, ConnectStore, TestBegin, TestEnd
<1>6. held' \in Configs
  BY DEF UIInv, TypeOK, JobsOK, JobRec, JobStep, AutoStart, TrayStart, RestartClear, PortTaken,
         PortUnknown, PortFree, Leave, KillFails, KillDone, ConnectRefused, ConnectDial, ConnectFail,
         ConnectStore, TestBegin, TestEnd
<1>7. testing' \in BOOLEAN
  BY DEF UIInv, TypeOK, Fails, JobStep, AutoStart, TrayStart, RestartClear, PortTaken, PortUnknown,
         PortFree, Leave, KillFails, KillDone, ConnectRefused, ConnectDial, ConnectFail, ConnectStore,
         TestBegin, TestEnd
<1> QED BY <1>1, <1>2, <1>3, <1>4, <1>5, <1>6, <1>7 DEF UIInv, TypeOK, JobsOK, store

-----------------------------------------------------------------------------
(* The UI thread.                                                          *)

\* Clicks that neither start a goroutine nor touch a flag.
LEMMA PlainKeeps ==
  ASSUME UIInv, \/ FrameEnd \/ ToggleOff \/ Dismiss \/ Reveal \/ SaveFails \/ SaveOnly
                \/ \E c \in Configs : SaveClick(c)
  PROVE  UIInv'
<1> USE DEF Events, DialogOpen
<1>1. UNCHANGED <<uiCmds, job, held>>
  BY DEF FrameEnd, ToggleOff, Dismiss, Reveal, SaveFails, SaveOnly, SaveClick
<1>2. PICK p \in {"idle", "saving"}, v \in Configs, d \in {"none", "shown", "entry"} :
        ui' = [ui EXCEPT !.pc = p, !.prev = v, !.dialog = d]
  <2>1. ui \in UIRec /\ cfg \in Configs
    BY DEF UIInv, TypeOK
  <2>2. \/ ui' = [ui EXCEPT !.pc = "idle", !.prev = ui.prev, !.dialog = ui.dialog]
        \/ ui' = [ui EXCEPT !.pc = "idle", !.prev = ui.prev, !.dialog = "none"]
        \/ ui' = [ui EXCEPT !.pc = "idle", !.prev = ui.prev, !.dialog = "entry"]
        \/ ui' = [ui EXCEPT !.pc = "saving", !.prev = cfg, !.dialog = ui.dialog]
    BY <2>1 DEF UIRec, FrameEnd, ToggleOff, Dismiss, Reveal, SaveFails, SaveOnly, SaveClick
  <2>3. ui.prev \in Configs /\ ui.dialog \in {"none", "shown", "entry"}
    BY <2>1 DEF UIRec
  <2> QED BY <2>1, <2>2, <2>3
<1>3. ui.pc # "changing"
  BY DEF FrameEnd, ToggleOff, Dismiss, Reveal, SaveFails, SaveOnly, SaveClick
<1>4. ui' \in UIRec /\ FlagsKeep
  BY <1>2, <1>3 DEF UIInv, TypeOK, UIRec, FlagsKeep
<1>5. JobsKeep /\ Said("none")
  BY <1>1 DEF UIInv, JobsKeep, JobsOK, Owes, Said
<1>6. (BusyOwned /\ DialogExclusive)'
  BY <1>4, <1>5, QuietKeeps
<1>7. SlotTypeOK' /\ cfg' \in Configs /\ disk' \in Configs /\ testing' \in BOOLEAN
  BY DEF UIInv, TypeOK, UIRec, SlotTypeOK, Remove, Moved, store, FrameEnd, ToggleOff, Dismiss, Reveal,
         SaveFails, SaveOnly, SaveClick
<1> QED BY <1>1, <1>4, <1>5, <1>6, <1>7 DEF UIInv, TypeOK, JobsKeep

\* Among finitely many positions there is a last one.
LEMMA LastPosition ==
  ASSUME NEW n \in Nat, NEW T \in SUBSET (1..n), T # {}
  PROVE  \E i \in T : \A k \in T : k <= i
<1> DEFINE B == {n - i : i \in T}
<1>1. B \subseteq Nat /\ B # {}
  <2>1. \A i \in T : i \in 1..n /\ n - i \in Nat
    OBVIOUS
  <2> QED BY <2>1
<1>2. PICK b \in B : \A y \in B : ~(<<y, b>> \in OpToRel(<, Nat))
  BY <1>1, NatLessThanWellFounded, WFMin
<1>3. \A y \in B : ~(y < b)
  BY <1>1, <1>2 DEF OpToRel
<1>4. PICK i \in T : b = n - i
  OBVIOUS
<1>5. ASSUME NEW k \in T PROVE k <= i
  <2>1. n - k \in B
    OBVIOUS
  <2> QED BY <1>3, <1>4, <2>1
<1> QED BY <1>5

\* drainUICmds runs every release that is queued.
LEMMA FrameKeeps == ASSUME UIInv, FrameStart PROVE UIInv'
<1>1. ui \in UIRec /\ uiCmds \in Seq(CmdRec)
  BY DEF UIInv, TypeOK
<1>2. Dialog \in {"none", "shown", "entry"}
  <2> DEFINE T == {i \in DOMAIN uiCmds : uiCmds[i].dialog # "keep"}
  <2>1. CASE T # {}
    <3>1. T \in SUBSET (1..Len(uiCmds)) /\ Len(uiCmds) \in Nat
      BY <1>1
    <3>2. PICK i \in T : \A k \in T : k <= i
      BY <2>1, <3>1, LastPosition
    <3>3. \A k \in DOMAIN uiCmds : k > i => uiCmds[k].dialog = "keep"
      BY <3>1, <3>2
    <3>4. \A k \in DOMAIN uiCmds : uiCmds[k].dialog # "keep" => uiCmds[k].dialog \in {"none", "shown"}
      <4>1. \A k \in DOMAIN uiCmds : uiCmds[k] \in CmdRec
        BY <1>1
      <4> QED BY <4>1 DEF CmdRec
    <3> QED BY <3>2, <3>3, <3>4 DEF Dialog
  <2>2. CASE T = {}
    BY <1>1, <2>2 DEF Dialog, UIRec
  <2> QED BY <2>1, <2>2
<1>3. ui.pc = "idle"
  BY DEF FrameStart
<1>4. PICK d \in {"none", "shown", "entry"}, b \in BOOLEAN, c \in BOOLEAN :
        /\ ui' = [ui EXCEPT !.pc = "events", !.dialog = d, !.connectBusy = b, !.conflictBusy = c]
        /\ b <=> ui.connectBusy /\ ~Freed({"connect", "both"})
        /\ c <=> ui.conflictBusy /\ ~Freed({"both"})
  <2>1. (ui.connectBusy /\ ~Freed({"connect", "both"})) \in BOOLEAN
    OBVIOUS
  <2>2. (ui.conflictBusy /\ ~Freed({"both"})) \in BOOLEAN
    OBVIOUS
  <2> QED BY <1>2, <2>1, <2>2, Zenon DEF FrameStart
<1>5. /\ ui' \in UIRec /\ ui'.pc = "events" /\ ui'.connectBusy = b /\ ui'.conflictBusy = c
  BY <1>1, <1>4 DEF UIRec
<1>6. uiCmds' = <<>> /\ UNCHANGED <<job, status, final, held, cfg, disk>> /\ testing' \in BOOLEAN
  BY DEF FrameStart, store
<1>7. DialogJobs' = DialogJobs /\ DialogFrees' = {} /\ (Freed({"both"}) <=> DialogFrees # {})
  BY <1>6 DEF DialogJobs, DialogFrees, Freed
<1>8. BusyOwned'
  BY <1>3, <1>4, <1>5, <1>6 DEF UIInv, BusyOwned, Freed
<1>9. DialogExclusive'
  BY <1>3, <1>4, <1>5, <1>7 DEF UIInv, DialogExclusive
<1>10. TypeOK' /\ JobsOK'
  BY <1>5, <1>6 DEF UIInv, TypeOK, JobsOK, SlotTypeOK, Owes
<1> QED BY <1>8, <1>9, <1>10 DEF UIInv

-----------------------------------------------------------------------------
(* Clicks that start a goroutine, and handleChangePort.                    *)

LEMMA GoStarts ==
  ASSUME JobsOK, NEW j \in Jobs, NEW k \in Kinds, NEW p \in PCs \ {"testing"}, NEW c \in Configs,
         Go(j, k, p, c)
  PROVE  JobStarts(j, Frees(k))
<1>1. [kind |-> k, pc |-> p, cfg |-> c] \in JobRec
  BY DEF JobRec, PCs
<1>2. /\ job' \in [Jobs -> JobRec] /\ job'[j].kind = k /\ job'[j].pc = p
      /\ \A i \in Jobs : i # j => job'[i] = job[i]
  BY <1>1 DEF JobsOK, Go
<1>3. Owes(j) = "none"
  BY NoJobType DEF Go, Owes
<1> QED BY <1>2, <1>3 DEF JobStarts, JobsOK, Owes

LEMMA QuietClick ==
  ASSUME UIInv, NEW j \in Jobs, TestClick(j) \/ TrayConnect(j)
  PROVE  UIInv'
<1>1. PICK k \in Kinds : Frees(k) = "none" /\ Go(j, k, "start", cfg)
  BY DEF TestClick, TrayConnect, Kinds, Frees
<1>2. JobStarts(j, "none")
  BY <1>1, GoStarts DEF UIInv, TypeOK, PCs
<1>3. JobsKeep
  BY <1>2 DEF JobStarts, JobsKeep
<1>4. ui' \in UIRec /\ FlagsKeep
  BY DEF TestClick, TrayConnect, Events, UIInv, TypeOK, UIRec, FlagsKeep
<1>5. UNCHANGED <<status, final, held, cfg, disk, testing, uiCmds>>
  BY DEF TestClick, TrayConnect, store
<1>6. Said("none")
  BY <1>5 DEF Said
<1>7. (BusyOwned /\ DialogExclusive)'
  BY <1>3, <1>4, <1>6, QuietKeeps
<1>8. TypeOK' /\ JobsOK'
  BY <1>3, <1>4, <1>5 DEF UIInv, TypeOK, SlotTypeOK, JobsKeep, JobsOK
<1> QED BY <1>7, <1>8 DEF UIInv

\* A section starts: the button's own, which needs connectBusy ...
LEMMA ConnectClick ==
  ASSUME UIInv, NEW j \in Jobs, ToggleOn(j) \/ SaveRestarts(j)
  PROVE  UIInv'
<1>1. PICK k \in {"connect", "restart"}, p \in {"check", "clear"} : Go(j, k, p, cfg)
  BY DEF ToggleOn, SaveRestarts
<1>2. JobStarts(j, "connect")
  BY <1>1, GoStarts DEF UIInv, TypeOK, PCs, Kinds, Frees
<1>3. ui' \in UIRec /\ ui'.conflictBusy = ui.conflictBusy /\ ui'.pc = "idle" /\ ui.pc # "changing"
  BY DEF ToggleOn, SaveRestarts, Events, UIInv, TypeOK, UIRec
<1>4. UNCHANGED <<held, cfg, uiCmds>> /\ testing' \in BOOLEAN /\ disk' \in Configs
  BY DEF ToggleOn, SaveRestarts, store, UIInv, TypeOK
<1>5. SlotTypeOK'
  BY DEF ToggleOn, SaveRestarts, Clear, Remove, Moved, slotVars, UIInv, TypeOK, SlotTypeOK
<1>6. DialogJobs' = DialogJobs /\ DialogFrees' = DialogFrees
  BY <1>2, <1>4 DEF JobStarts, Owes, DialogJobs, DialogFrees
<1>7. BusyOwned'
  BY <1>2 DEF JobStarts, Owes, BusyOwned
<1>8. DialogExclusive'
  BY <1>3, <1>6 DEF UIInv, DialogExclusive
<1>9. TypeOK' /\ JobsOK'
  BY <1>2, <1>3, <1>4, <1>5 DEF UIInv, TypeOK, JobStarts, JobsOK
<1> QED BY <1>7, <1>8, <1>9 DEF UIInv

\* ... or the conflict dialog's, which starts when nothing of it is left.
LEMMA DialogClick ==
  ASSUME UIInv, NEW j \in Jobs, KillClick(j) \/ ChangeDone(j)
  PROVE  UIInv'
<1>1. PICK k \in {"kill", "change"}, p \in {"kill", "begin"} : Go(j, k, p, cfg)
  BY DEF KillClick, ChangeDone
<1>2. JobStarts(j, "both")
  BY <1>1, GoStarts DEF UIInv, TypeOK, PCs, Kinds, Frees
<1>3. DialogJobs = {} /\ DialogFrees = {}
  BY DEF KillClick, ChangeDone, DialogOpen, UIInv, DialogExclusive
<1>4. ui' \in UIRec /\ ui'.conflictBusy /\ ui'.pc = "idle"
  <2>1. ui.pc = "changing" => ui.conflictBusy
    BY DEF UIInv, DialogExclusive
  <2> QED BY <2>1 DEF KillClick, ChangeDone, DialogOpen, Events, UIInv, TypeOK, UIRec
<1>5. UNCHANGED <<status, final, held, cfg, uiCmds>> /\ testing' \in BOOLEAN /\ disk' \in Configs
  BY DEF KillClick, ChangeDone, store, UIInv, TypeOK
<1>6. DialogJobs' = {j} /\ DialogFrees' = {}
  BY <1>2, <1>3, <1>5 DEF JobStarts, Owes, DialogJobs, DialogFrees
<1>7. BusyOwned'
  BY <1>2 DEF JobStarts, Owes, BusyOwned
<1>8. DialogExclusive'
  BY <1>4, <1>6 DEF DialogExclusive
<1>9. TypeOK' /\ JobsOK'
  BY <1>2, <1>4, <1>5 DEF UIInv, TypeOK, SlotTypeOK, JobStarts, JobsOK
<1> QED BY <1>7, <1>8, <1>9 DEF UIInv

LEMMA ChangeKeeps ==
  ASSUME UIInv, ChangeFails \/ \E c \in Configs : ChangeClick(c)
  PROVE  UIInv'
<1>1. DialogJobs = {} /\ DialogFrees = {}
  BY DEF ChangeFails, ChangeClick, DialogOpen, UIInv, DialogExclusive
<1>2. UNCHANGED <<status, final, held, disk, uiCmds, job>> /\ testing' \in BOOLEAN /\ cfg' \in Configs
  BY DEF ChangeFails, ChangeClick, store, UIInv, TypeOK
<1>3. DialogJobs' = {} /\ DialogFrees' = {}
  BY <1>1, <1>2 DEF DialogJobs, DialogFrees
<1>4. CASE ChangeFails
  <2>1. ui' \in UIRec /\ ~ui'.connectBusy /\ ~ui'.conflictBusy /\ ui'.pc = "idle"
    BY <1>4 DEF ChangeFails, UIInv, TypeOK, UIRec
  <2> QED BY <1>2, <1>3, <2>1 DEF UIInv, TypeOK, SlotTypeOK, JobsOK, Owes, BusyOwned, DialogExclusive
<1>5. CASE \E c \in Configs : ChangeClick(c)
  <2>1. ui' \in UIRec /\ ui'.conflictBusy /\ ui'.pc = "changing"
    BY <1>5 DEF ChangeClick, UIInv, TypeOK, UIRec
  <2> QED BY <1>2, <1>3, <2>1 DEF UIInv, TypeOK, SlotTypeOK, JobsOK, Owes, BusyOwned, DialogExclusive
<1> QED BY <1>4, <1>5

-----------------------------------------------------------------------------
(* The tray and the tunnel.                                                *)

LEMMA TunnelKeeps ==
  ASSUME UIInv, TrayDisconnect \/ TunnelMoves \/ TunnelEnds
  PROVE  UIInv'
<1>1. UNCHANGED <<held, cfg, disk, ui, testing, job>>
  BY DEF TrayDisconnect, TunnelMoves, TunnelEnds, store
<1>2. SlotTypeOK'
  BY DEF TrayDisconnect, TunnelMoves, TunnelEnds, UIInv, TypeOK, SlotTypeOK, Tracked, Remove, Up, Fall,
         Retry, Fail, GiveUp, Moved, Ended
<1>3. Said("none")
  BY CmdType DEF TrayDisconnect, TunnelMoves, TunnelEnds, Said
<1>4. JobsKeep /\ FlagsKeep
  BY <1>1 DEF UIInv, JobsKeep, JobsOK, Owes, FlagsKeep
<1>5. (BusyOwned /\ DialogExclusive)'
  BY <1>3, <1>4, QuietKeeps
<1>6. uiCmds' \in Seq(CmdRec)
  BY <1>3, SaidQueue DEF UIInv, TypeOK
<1> QED BY <1>1, <1>2, <1>4, <1>5, <1>6 DEF UIInv, TypeOK, JobsKeep, JobsOK

-----------------------------------------------------------------------------

LEMMA UIInvInit == Init => UIInv
<1> SUFFICES ASSUME Init PROVE UIInv
    OBVIOUS
<1>1. PICK a \in Jobs : job = [j \in Jobs |-> IF j = a
                          THEN [NoJob EXCEPT !.kind = "auto", !.pc = "start"] ELSE NoJob]
  BY DEF Init
<1>2. LET r == [NoJob EXCEPT !.kind = "auto", !.pc = "start"]
      IN  r \in JobRec /\ r.kind = "auto" /\ r.pc = "start"
  BY NoJobType DEF JobRec, Kinds
<1>3. job \in [Jobs -> JobRec]
  BY <1>1, <1>2, NoJobType
<1>4. \A j \in Jobs : Owes(j) = "none" /\ job[j].pc # "testing"
  BY <1>1, <1>2, NoJobType DEF Owes, Frees
<1>5. /\ ui \in UIRec /\ ~ui.connectBusy /\ ~ui.conflictBusy /\ ui.pc = "idle"
  BY DEF Init, UIRec
<1>6. TypeOK
  <2>1. uiCmds \in Seq(CmdRec)
    BY DEF Init
  <2>2. SlotTypeOK
    BY DEF Init, SlotInit, SlotTypeOK
  <2> QED BY <1>3, <1>5, <2>1, <2>2 DEF Init, TypeOK
<1> QED BY <1>3, <1>4, <1>5, <1>6 DEF Init, UIInv, JobsOK, BusyOwned, DialogExclusive, DialogJobs,
                                      DialogFrees, Owes

LEMMA UIInvStep == UIInv /\ [Next]_vars => UIInv'
<1> SUFFICES ASSUME UIInv, [Next]_vars PROVE UIInv'
    OBVIOUS
<1>1. CASE UNCHANGED vars
  BY <1>1 DEF vars, UIInv, TypeOK, SlotTypeOK, JobsOK, Owes, BusyOwned, Freed, DialogExclusive,
              DialogJobs, DialogFrees
<1>2. CASE UIStep
  BY <1>2, PlainKeeps, FrameKeeps, QuietClick, ConnectClick, DialogClick, ChangeKeeps DEF UIStep
<1> QED BY <1>1, <1>2, JobStepKeeps, QuietClick, TunnelKeeps DEF Next

LEMMA UIInductive == Spec => []UIInv
BY UIInvInit, UIInvStep, PTL DEF Spec

\* Fields, queue and goroutines are of their types (ui.go:34).
THEOREM UITypes == Spec => []TypeOK
BY UIInductive, PTL DEF UIInv

\* A set busy flag is always owed a release, for any number of goroutines and
\* queued closures (ui.go:394).
THEOREM FlagsOwed == Spec => []BusyOwned
BY UIInductive, PTL DEF UIInv

\* The conflict dialog has one section at a time and conflictBusy says when, for
\* any number of goroutines (ui.go:354).
THEOREM OneSection == Spec => []DialogExclusive
BY UIInductive, PTL DEF UIInv
===============================================================================
