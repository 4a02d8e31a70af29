----------------------------- MODULE ZoneForward -----------------------------
(***************************************************************************)
(* 域名解析优化: a drop-in that routes the forward's zone to its            *)
(* authoritative servers (src/zone_forward.go), the settings row that shows*)
(* whether it is installed, and the button beside it (src/ui.go).  Both    *)
(* work in goroutines that look at the disk and at the network and answer  *)
(* through uiCmdQ.  The content of a drop-in is the zone it was made for.  *)
(***************************************************************************)
CONSTANTS
  Zones,      \* registrable domains a forward's host may lie in
  NoZone,
  Refreshers  \* goroutines of refreshZoneForwardStatusAsync at one time

ASSUME ZoneAssumption == NoZone \notin Zones /\ Zones # {}

VARIABLES
  domain,   \* the zone of the configured forward
  dropIn,   \* the zone of the installed drop-in
  newest,   \* who claimed zoneRefreshGen last
  refresh,  \* the refreshes
  row,      \* zoneStatusText; it determines zonePending
  action    \* the goroutine of the button; zoneBusy is set until it is applied

zoneVars == <<domain, dropIn, newest, refresh, row, action>>

Texts == {"blank", "failed", "off", "outdated", "on"}
Waiting == [pc |-> "idle", zone |-> NoZone, text |-> "blank"]
Resting == [pc |-> "idle", does |-> "none", zone |-> NoZone]

RefreshRec == [pc : {"idle", "lookup", "queued"}, zone : Zones \cup {NoZone}, text : Texts]
ActionRec == [pc : {"idle", "started", "asking", "queued"},
              does : {"none", "install", "remove"}, zone : Zones \cup {NoZone}]

ZoneTypeOK ==
  /\ domain \in Zones /\ dropIn \in Zones \cup {NoZone}
  /\ newest \in Refreshers
  /\ refresh \in [Refreshers -> RefreshRec]
  /\ row \in Texts /\ action \in ActionRec

\* runAppLoop starts the first refresh.
ZoneInit ==
  /\ domain \in Zones /\ dropIn \in Zones \cup {NoZone}
  /\ newest \in Refreshers
  /\ refresh = [r \in Refreshers |-> IF r = newest
                  THEN [Waiting EXCEPT !.pc = "lookup", !.zone = domain] ELSE Waiting]
  /\ row = "blank" /\ action = Resting

\* refreshZoneForwardStatusAsync, for a forward in zone z.
Refresh(r, z) ==
  /\ refresh[r].pc = "idle"
  /\ newest' = r
  /\ refresh' = [refresh EXCEPT ![r] = [Waiting EXCEPT !.pc = "lookup", !.zone = z]]

\* zoneForwardStatus against the content expected for z.
Status(z) == CASE dropIn = NoZone -> "off"
               [] dropIn = z      -> "on"
               [] OTHER           -> "outdated"

Pending == CASE row \in {"off", "outdated"} -> "install"
             [] row = "on"                  -> "remove"
             [] OTHER                       -> "none"

\* saveSettings succeeds with a host in zone z.
SaveDomain(r, z) ==
  /\ domain' = z /\ Refresh(r, z)
  /\ UNCHANGED <<dropIn, row, action>>

\* The NS lookup fails, or the drop-in is compared.
Judge(r) ==
  /\ refresh[r].pc = "lookup"
  /\ \E t \in {"failed", Status(refresh[r].zone)} :
       refresh' = [refresh EXCEPT ![r] = [Waiting EXCEPT !.pc = "queued", !.text = t]]
  /\ UNCHANGED <<domain, dropIn, newest, row, action>>

\* On the UI thread: a result superseded by a newer refresh is dropped.
Apply(r) ==
  /\ refresh[r].pc = "queued"
  /\ refresh' = [refresh EXCEPT ![r] = Waiting]
  /\ row' = IF newest = r THEN refresh[r].text ELSE row
  /\ UNCHANGED <<domain, dropIn, newest, action>>

Click ==
  /\ action.pc = "idle" /\ Pending # "none"
  /\ action' = [Resting EXCEPT !.pc = "started", !.does = Pending]
  /\ UNCHANGED <<domain, dropIn, newest, refresh, row>>

\* The goroutine reads the configuration when it runs, and looks the servers up.
Prepare ==
  /\ action.pc = "started"
  /\ \/ action' = [Resting EXCEPT !.pc = "asking",
                                  !.zone = IF action.does = "remove" THEN NoZone ELSE domain]
     \/ action.does = "install" /\ action' = [Resting EXCEPT !.pc = "queued"]
  /\ UNCHANGED <<domain, dropIn, newest, refresh, row>>

\* pkexec, up to five minutes later: the script runs, or is refused.
Authorised ==
  /\ action.pc = "asking"
  /\ dropIn' \in {action.zone, dropIn}
  /\ action' = [Resting EXCEPT !.pc = "queued"]
  /\ UNCHANGED <<domain, newest, refresh, row>>

\* Mutant: the row is left as it was.
FinishQuietly(r) ==
  /\ action.pc = "queued" /\ refresh[r].pc = "idle"
  /\ action' = Resting
  /\ UNCHANGED <<domain, dropIn, newest, refresh, row>>

\* On the UI thread: zoneBusy is released and the row recomputed.
Finish(r) ==
  /\ action.pc = "queued"
  /\ action' = Resting
  /\ Refresh(r, domain)
  /\ UNCHANGED <<domain, dropIn, row>>

ZoneNext ==
  \/ Click \/ Prepare \/ Authorised
  \/ \E r \in Refreshers : \/ Judge(r) \/ Apply(r) \/ Finish(r)
                           \/ \E z \in Zones : SaveDomain(r, z)

ZoneSpec == ZoneInit /\ [][ZoneNext]_zoneVars

-----------------------------------------------------------------------------

\* The settled row tells the truth about the present domain and the installed
\* drop-in, or admits that it could not find out: whatever refreshes overlapped
\* with each other, with saves and with the button's action (ui.go:937, 1025).
RowIsCurrent ==
  (\A r \in Refreshers : refresh[r].pc = "idle") /\ action.pc # "queued"
    => row \in {"failed", Status(domain)}
=============================================================================
