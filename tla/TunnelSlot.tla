------------------------------ MODULE TunnelSlot ------------------------------
(***************************************************************************)
(* What the SSHManager of src/ssh.go is to the rest of the program: the    *)
(* status GetStatus reports for the one forward, whether the last          *)
(* transition was announced as a terminal one, and the ways the two change.*)
(* TunnelManager implements it (TunnelPaced), ConnectUI stands on it.      *)
(***************************************************************************)
CONSTANT AutoReconnect   \* ForwardConfig.AutoReconnect

ASSUME ReconnectAssumption == AutoReconnect \in BOOLEAN

VARIABLES
  status,   \* GetStatus(id)
  final     \* the last transition was announced by onTerminalFailure

slotVars == <<status, final>>

Tracked == {"connecting", "running", "disconnected", "auth_failed"}

SlotTypeOK == status \in Tracked \cup {"not_found"} /\ final \in BOOLEAN

SlotInit == status = "not_found" /\ final = FALSE

Moved(s) == status' = s /\ final' = FALSE
Ended(s) == status' = s /\ final' = TRUE

\* Connect stores a connection.
Begin == status = "not_found" /\ Moved("connecting")

\* The child behind it is up or coming up.  "disconnected" may be a late verdict
\* on another connection: an autoReconnect that spends its last attempt marks
\* whatever the map holds (the run `exhaust`), the tunnel notwithstanding.
MayLive == \/ status \in {"connecting", "running"}
           \/ AutoReconnect /\ status = "disconnected"

\* The confirmation window closes on a living child.
Up == MayLive /\ status # "running" /\ Moved("running")

\* The child exits and a reconnect follows, ...
Fall == AutoReconnect /\ MayLive /\ Moved("disconnected")

\* ... or nothing follows.
Fail(s) == /\ MayLive
           /\ s \in {"disconnected", "auth_failed"}
           /\ s = "disconnected" => ~AutoReconnect
           /\ Ended(s)

\* autoReconnect published a new child, ...
Retry == AutoReconnect /\ status = "disconnected" /\ Moved("connecting")

\* ... or spent its attempts.
GiveUp == AutoReconnect /\ status \in Tracked /\ Ended("disconnected")

\* Disconnect.
Remove == status # "not_found" /\ Moved("not_found")

SlotNext == Begin \/ Up \/ Fall \/ (\E s \in Tracked : Fail(s)) \/ Retry \/ GiveUp \/ Remove

SlotSpec == SlotInit /\ [][SlotNext]_slotVars
===============================================================================
