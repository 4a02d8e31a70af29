--------------------------- MODULE DnsSourcesProofs ---------------------------
(***************************************************************************)
(* Theorems about ZoneForward and DnsSources: the settled row is true, for *)
(* any number of refreshes and zones; paging overlooks nothing, for any    *)
(* page size, number of pages and zone.                                    *)
(***************************************************************************)
EXTENDS DnsSources, TLAPS

-----------------------------------------------------------------------------
(* The row.                                                                *)

\* What the newest refresh knows, unless the button's action is about to start
\* another one.  Older refreshes may know anything.
NewestKnows ==
  LET n == refresh[newest] IN
  action.pc # "queued" =>
    /\ n.pc = "lookup" => n.zone = domain
    /\ n.pc = "queued" => n.text \in {"failed", Status(domain)}
    /\ n.pc = "idle"   => row \in {"failed", Status(domain)}

ZInv == ZoneTypeOK /\ NewestKnows

LEMMA StatusIsText == ASSUME NEW z PROVE Status(z) \in Texts
BY DEF Status, Texts

LEMMA Idles == Waiting \in RefreshRec /\ Resting \in ActionRec
BY DEF Waiting, Resting, RefreshRec, ActionRec, Texts

LEMMA ZoneTypeInit == ZoneInit => ZoneTypeOK
<1> SUFFICES ASSUME ZoneInit PROVE ZoneTypeOK
    OBVIOUS
<1>1. [Waiting EXCEPT !.pc = "lookup", !.zone = domain] \in RefreshRec
  BY DEF ZoneInit, Waiting, RefreshRec, Texts
<1>2. refresh \in [Refreshers -> RefreshRec]
  BY <1>1, Idles DEF ZoneInit
<1> QED BY <1>2, Idles DEF ZoneInit, ZoneTypeOK, Texts

LEMMA ZoneTypeStep == ZoneTypeOK /\ [ZoneNext]_zoneVars => ZoneTypeOK'
<1> SUFFICES ASSUME ZoneTypeOK, [ZoneNext]_zoneVars PROVE ZoneTypeOK'
    OBVIOUS
<1> USE DEF ZoneTypeOK
<1>1. CASE Click
  <2>1. Pending \in {"install", "remove", "none"}
    BY DEF Pending
  <2> QED BY <1>1, <2>1 DEF Click, Resting, ActionRec
<1>2. CASE Prepare
  BY <1>2 DEF Prepare, Resting, ActionRec
<1>3. CASE Authorised
  BY <1>3 DEF Authorised, Resting, ActionRec
<1>4. ASSUME NEW r \in Refreshers, Judge(r) PROVE ZoneTypeOK'
  <2>1. PICK t \in {"failed", Status(refresh[r].zone)} :
          refresh' = [refresh EXCEPT ![r] = [Waiting EXCEPT !.pc = "queued", !.text = t]]
    BY <1>4 DEF Judge
  <2>2. t \in Texts
    BY StatusIsText DEF Texts
  <2>3. [Waiting EXCEPT !.pc = "queued", !.text = t] \in RefreshRec
    BY <2>2 DEF Waiting, RefreshRec
  <2> QED BY <1>4, <2>1, <2>3 DEF Judge
<1>5. ASSUME NEW r \in Refreshers, Apply(r) PROVE ZoneTypeOK'
  BY <1>5, Idles DEF Apply, RefreshRec
<1>6. ASSUME NEW r \in Refreshers, Finish(r) PROVE ZoneTypeOK'
  <2>1. [Waiting EXCEPT !.pc = "lookup", !.zone = domain] \in RefreshRec
    BY DEF Waiting, RefreshRec, Texts
  <2> QED BY <1>6, <2>1, Idles DEF Finish, Refresh
<1>7. ASSUME NEW r \in Refreshers, NEW z \in Zones, SaveDomain(r, z) PROVE ZoneTypeOK'
  <2>1. [Waiting EXCEPT !.pc = "lookup", !.zone = z] \in RefreshRec
    BY DEF Waiting, RefreshRec, Texts
  <2> QED BY <1>7, <2>1 DEF SaveDomain, Refresh
<1>8. CASE UNCHANGED zoneVars
  BY <1>8 DEF zoneVars
<1> QED BY <1>1, <1>2, <1>3, <1>4, <1>5, <1>6, <1>7, <1>8 DEF ZoneNext

LEMMA NewestInit == ZoneInit => NewestKnows
BY DEF ZoneInit, NewestKnows, Waiting

\* The domain and the drop-in change only together with a new claim of the
\* generation, or before the action that will make one is applied.
LEMMA NewestStep == ZInv /\ [ZoneNext]_zoneVars => NewestKnows'
<1> SUFFICES ASSUME ZoneTypeOK, NewestKnows, [ZoneNext]_zoneVars PROVE NewestKnows'
    BY DEF ZInv
<1> USE DEF ZoneTypeOK, RefreshRec, ActionRec
<1>1. CASE Click
  BY <1>1 DEF Click, Resting, NewestKnows, Status
<1>2. CASE Prepare
  BY <1>2 DEF Prepare, NewestKnows, Status
<1>3. CASE Authorised
  BY <1>3 DEF Authorised, Resting, NewestKnows
<1>4. ASSUME NEW r \in Refreshers, Judge(r) PROVE NewestKnows'
  BY <1>4 DEF Judge, Waiting, NewestKnows, Status
<1>5. ASSUME NEW r \in Refreshers, Apply(r) PROVE NewestKnows'
  BY <1>5 DEF Apply, Waiting, NewestKnows, Status
<1>6. ASSUME NEW r \in Refreshers, Finish(r) PROVE NewestKnows'
  BY <1>6 DEF Finish, Refresh, Waiting, Resting, NewestKnows
<1>7. ASSUME NEW r \in Refreshers, NEW z \in Zones, SaveDomain(r, z) PROVE NewestKnows'
  BY <1>7 DEF SaveDomain, Refresh, Waiting, NewestKnows
<1>8. CASE UNCHANGED zoneVars
  BY <1>8 DEF zoneVars, NewestKnows, Status
<1> QED BY <1>1, <1>2, <1>3, <1>4, <1>5, <1>6, <1>7, <1>8 DEF ZoneNext

\* Whatever refreshes, saves and actions overlap, a row nobody is about to change
\* is true (ui.go:937).
THEOREM RowTrue == ZoneSpec => []RowIsCurrent
<1>1. ZoneInit => ZInv
  BY ZoneTypeInit, NewestInit DEF ZInv
<1>2. ZInv /\ [ZoneNext]_zoneVars => ZInv'
  BY ZoneTypeStep, NewestStep DEF ZInv
<1>3. ZInv => RowIsCurrent
  BY DEF ZInv, NewestKnows, ZoneTypeOK, RowIsCurrent
<1> QED BY <1>1, <1>2, <1>3, PTL DEF ZoneSpec

\* The lookups only read what belongs to ZoneForward (ssh.go:252).
THEOREM Composition == Spec => ZoneSpec
<1>1. Init => ZoneInit
  BY DEF Init
<1>2. [Next]_vars => [ZoneNext]_zoneVars
  BY DEF Next, vars, dnsVars, zoneVars, DnsNext, Readdress, EditZone, CacheExpires, Connect,
         Disconnect, Dies, Falls, Ask, FetchPage, ApiFails, Resolve, NoAnswer, ComesUp, Unreachable, Confirms, Condemns
<1> QED BY <1>1, <1>2, PTL DEF Spec, ZoneSpec

-----------------------------------------------------------------------------
(* The listing.                                                            *)

\* What the first n pages say.
Listed(n) ==
  IF \E i \in DOMAIN zone : i <= n * PageSize /\ zone[i] = "ours" THEN address ELSE NoIP

\* A lookup that nothing disturbed knows what the pages before its own say.
Scanned ==
  query.pc = "page" =>
    /\ query.page >= 1
    /\ query.sound => query.found = Listed(query.page - 1)

\* An answer is an address.
Answered == query.pc = "answered" => query.found # NoIP

DInv == TypeOK /\ Scanned /\ Answered /\ FoundIfSteady

LEMMA IdleSteady == query.pc = "idle" => Scanned /\ Answered /\ FoundIfSteady
BY DEF Scanned, Answered, FoundIfSteady

\* An edit of the zone changes one record or the length by one.
LEMMA EditType == TypeOK /\ EditZone => zone' \in Seq({"ours", "paused", "other"}) /\ Len(zone') <= MaxRecords
<1> SUFFICES ASSUME TypeOK, EditZone
             PROVE  zone' \in Seq({"ours", "paused", "other"}) /\ Len(zone') <= MaxRecords
    OBVIOUS
<1> DEFINE R == {"ours", "paused", "other"}
<1>1. zone \in Seq(R) /\ Len(zone) <= MaxRecords /\ MaxRecords \in Nat
  BY DnsAssumption DEF TypeOK
<1>2. CASE Len(zone) < MaxRecords /\ zone' = <<"other">> \o zone
  BY <1>1, <1>2
<1>3. CASE Len(zone) < MaxRecords /\ zone' = Append(zone, "other")
  BY <1>1, <1>3
<1>4. ASSUME NEW i \in DOMAIN zone, zone' = Before(i) \o After(i)
      PROVE  zone' \in Seq(R) /\ Len(zone') <= MaxRecords
  <2>1. i \in 1..Len(zone)
    BY <1>1
  <2>2. Before(i) \in Seq(R) /\ Len(Before(i)) = i - 1
    BY <1>1, <2>1 DEF Before
  <2>3. After(i) \in Seq(R) /\ Len(After(i)) = Len(zone) - i
    BY <1>1, <2>1 DEF After
  <2> QED BY <1>1, <1>4, <2>1, <2>2, <2>3
<1>5. ASSUME NEW i \in DOMAIN zone, NEW s \in R, zone' = [zone EXCEPT ![i] = s]
      PROVE  zone' \in Seq(R) /\ Len(zone') <= MaxRecords
  BY <1>1, <1>5
<1> QED BY <1>2, <1>3, <1>4, <1>5 DEF EditZone

LEMMA DnsType == TypeOK /\ [Next]_vars => TypeOK'
<1> SUFFICES ASSUME TypeOK, [Next]_vars PROVE TypeOK'
    OBVIOUS
<1>1. ZoneTypeOK'
  <2>1. [ZoneNext]_zoneVars
    BY DEF Next, vars, dnsVars, zoneVars, DnsNext, Readdress, EditZone, CacheExpires, Connect,
           Disconnect, Dies, Falls, Ask, FetchPage, ApiFails, Resolve, NoAnswer, ComesUp, Unreachable, Confirms, Condemns
  <2> QED BY <2>1, ZoneTypeStep DEF TypeOK
<1>2. Idle \in [pc : {"idle", "page", "resolve", "answered"}, page : 0..MaxPages,
                found : IPs \cup {NoIP}, sound : BOOLEAN]
  BY DnsAssumption DEF Idle
<1>3. Truth \in IPs \cup {NoIP} /\ Fallback \in IPs \cup {NoIP}
  BY DEF TypeOK, Truth, Fallback
<1>4. CASE EditZone
  BY <1>1, <1>4, EditType DEF TypeOK, EditZone, Edited
<1>5. CASE FetchPage
  <2>1. query.page + 1 \in 0..MaxPages \/ LastPage(query.page)
    BY <1>5, DnsAssumption DEF TypeOK, FetchPage, LastPage
  <2>2. PICK found \in IPs \cup {NoIP} :
          query' = IF ~LastPage(query.page)
                   THEN [query EXCEPT !.page = @ + 1, !.found = found]
                   ELSE [query EXCEPT !.page = 0, !.found = found,
                                      !.pc = IF found = NoIP THEN "resolve" ELSE "answered"]
    BY <1>5 DEF TypeOK, FetchPage
  <2>3. query' \in [pc : {"idle", "page", "resolve", "answered"}, page : 0..MaxPages,
                    found : IPs \cup {NoIP}, sound : BOOLEAN]
    <3>1. CASE LastPage(query.page)
      <4>1. PICK q \in {"resolve", "answered"} :
              query' = [query EXCEPT !.page = 0, !.found = found, !.pc = q]
        BY <2>2, <3>1
      <4>2. 0 \in 0..MaxPages
        BY DnsAssumption
      <4>3. query \in [pc : {"idle", "page", "resolve", "answered"}, page : 0..MaxPages,
                       found : IPs \cup {NoIP}, sound : BOOLEAN]
        BY DEF TypeOK
      <4> QED BY <4>1, <4>2, <4>3
    <3>2. CASE ~LastPage(query.page)
      <4>1. PICK p \in 0..MaxPages : p = query.page + 1
        BY <2>1, <3>2
      <4>2. query' = [query EXCEPT !.page = p, !.found = found]
        BY <2>2, <3>2, <4>1
      <4>3. query \in [pc : {"idle", "page", "resolve", "answered"}, page : 0..MaxPages,
                       found : IPs \cup {NoIP}, sound : BOOLEAN]
        BY DEF TypeOK
      <4> QED BY <4>1, <4>2, <4>3
    <3> QED BY <3>1, <3>2
  <2> QED BY <1>1, <1>5, <2>3 DEF TypeOK, FetchPage
<1>6. CASE Readdress \/ CacheExpires \/ Connect \/ Disconnect \/ Dies
  <2>1. CASE Readdress
    BY <1>1, <2>1 DEF TypeOK, Readdress, Edited, Idle
  <2>2. CASE CacheExpires
    BY <1>1, <1>3, <2>2 DEF TypeOK, CacheExpires
  <2>3. CASE Connect
    BY <1>1, <2>3, DnsAssumption DEF TypeOK, Connect
  <2>4. CASE Disconnect \/ Dies
    <3>1. /\ tunnel' = NoIP /\ attempts' \in 0..MaxRetries /\ query' = Idle
          /\ UNCHANGED <<zone, address, cache>>
      BY <2>4, DnsAssumption DEF Disconnect, Dies, Falls
    <3> QED BY <1>1, <1>2, <3>1 DEF TypeOK, Idle
  <2> QED BY <1>6, <2>1, <2>2, <2>3, <2>4
<1>7. CASE Ask \/ ApiFails \/ Resolve
  <2>1. \/ query' = [Idle EXCEPT !.pc = "page", !.page = 1]
        \/ query' = [Idle EXCEPT !.pc = "resolve", !.sound = FALSE]
        \/ query' = [Idle EXCEPT !.pc = "answered", !.found = Fallback, !.sound = FALSE]
    BY <1>7 DEF Ask, ApiFails, Resolve
  <2>2. 1 \in 0..MaxPages /\ 0 \in 0..MaxPages
    BY DnsAssumption
  <2>3. query' \in [pc : {"idle", "page", "resolve", "answered"}, page : 0..MaxPages,
                    found : IPs \cup {NoIP}, sound : BOOLEAN]
    <3>1. CASE query' = [Idle EXCEPT !.pc = "page", !.page = 1]
      BY <2>2, <3>1 DEF Idle
    <3>2. CASE query' = [Idle EXCEPT !.pc = "resolve", !.sound = FALSE]
      BY <2>2, <3>2 DEF Idle
    <3>3. CASE query' = [Idle EXCEPT !.pc = "answered", !.found = Fallback, !.sound = FALSE]
      BY <1>3, <2>2, <3>3 DEF Idle
    <3> QED BY <2>1, <3>1, <3>2, <3>3
  <2>4. UNCHANGED <<zone, address, cache, tunnel, attempts>> /\ (tunnel # NoIP \/ attempts > 0)
    BY <1>7 DEF TypeOK, Ask, ApiFails, Resolve
  <2> QED BY <1>1, <2>3, <2>4 DEF TypeOK
<1>8. CASE NoAnswer \/ ComesUp \/ Unreachable \/ Confirms \/ Condemns
  <2>1. query' = Idle /\ UNCHANGED <<zone, address, cache>>
    BY <1>8 DEF NoAnswer, ComesUp, Unreachable, Confirms, Condemns, Falls
  <2>2. /\ tunnel' \in IPs \cup {NoIP} /\ attempts' \in 0..MaxRetries
        /\ tunnel' # NoIP => attempts' = 0
    BY <1>8, DnsAssumption DEF TypeOK, NoAnswer, ComesUp, Unreachable, Confirms, Condemns, Falls, Spent
  <2> QED BY <1>1, <1>2, <2>1, <2>2 DEF TypeOK, Idle
<1>9. CASE UNCHANGED dnsVars
  BY <1>1, <1>9 DEF TypeOK, dnsVars
<1> QED BY <1>4, <1>5, <1>6, <1>7, <1>8, <1>9 DEF Next, DnsNext, vars

\* One page more.
LEMMA FetchScans == DInv /\ FetchPage => (Scanned /\ Answered /\ FoundIfSteady)'
<1> SUFFICES ASSUME DInv, FetchPage PROVE (Scanned /\ Answered /\ FoundIfSteady)'
    OBVIOUS
<1> PICK n : n = query.page
    OBVIOUS
<1> DEFINE now == IF query.found = NoIP /\ \E i \in Page(n) : zone[i] = "ours"
                  THEN address ELSE query.found
<1>1. /\ n \in Nat /\ n >= 1 /\ n <= MaxPages
      /\ PageSize \in Nat \ {0} /\ MaxPages \in Nat \ {0}
      /\ \A i \in DOMAIN zone : i \in Nat /\ i <= Len(zone)
      /\ Len(zone) \in Nat /\ Len(zone) <= PageSize * MaxPages
      /\ address # NoIP
  <2>1. /\ query.page \in 0..MaxPages /\ query.page >= 1 /\ MaxPages \in Nat
    BY DnsAssumption DEF DInv, TypeOK, Scanned, FetchPage
  <2>2. MaxRecords \in Nat /\ PageSize * MaxPages \in Nat /\ MaxRecords <= PageSize * MaxPages
    BY DnsAssumption
  <2>3. zone \in Seq({"ours", "paused", "other"}) /\ Len(zone) <= MaxRecords
    BY DEF DInv, TypeOK
  <2>4. Len(zone) <= PageSize * MaxPages /\ Len(zone) \in Nat
    BY <2>2, <2>3
  <2>5. \A i \in DOMAIN zone : i \in Nat /\ i <= Len(zone)
    BY <2>3
  <2>6. address # NoIP
    BY DnsAssumption DEF DInv, TypeOK
  <2> QED BY <2>1, <2>4, <2>5, <2>6, DnsAssumption
<1>2. /\ n * PageSize \in Nat /\ (n - 1) * PageSize \in Nat
      /\ n * PageSize = (n - 1) * PageSize + PageSize
  BY <1>1
<1>3. query.sound => now = Listed(n)
  <2>1. query.sound => query.found = Listed(n - 1)
    BY DEF DInv, Scanned, FetchPage
  <2>2. \A i \in DOMAIN zone : i <= n * PageSize <=> i <= (n - 1) * PageSize \/ i \in Page(n)
    BY <1>1, <1>2 DEF Page
  <2>3. (\E i \in DOMAIN zone : i <= n * PageSize /\ zone[i] = "ours")
          <=> \/ \E i \in DOMAIN zone : i <= (n - 1) * PageSize /\ zone[i] = "ours"
              \/ \E i \in Page(n) : zone[i] = "ours"
    BY <2>2 DEF Page
  <2> QED BY <1>1, <2>1, <2>3 DEF Listed
<1>4. CASE ~LastPage(n)
  <2>1. query' = [query EXCEPT !.page = n + 1, !.found = now] /\ zone' = zone /\ address' = address
    BY <1>4 DEF FetchPage
  <2>2. query'.pc = "page" /\ query'.page = n + 1 /\ query'.found = now /\ query'.sound = query.sound
    BY <2>1 DEF DInv, TypeOK, FetchPage
  <2>3. Listed(n)' = Listed(n) /\ (n + 1) - 1 = n
    BY <1>1, <2>1 DEF Listed
  <2> QED BY <1>1, <1>3, <2>1, <2>2, <2>3 DEF Scanned, Answered, FoundIfSteady, Listed
<1>5. CASE LastPage(n)
  <2>1. /\ query' = [query EXCEPT !.page = 0, !.found = now,
                                  !.pc = IF now = NoIP THEN "resolve" ELSE "answered"]
        /\ zone' = zone /\ address' = address
    BY <1>5 DEF FetchPage
  <2>2. /\ query'.pc = IF now = NoIP THEN "resolve" ELSE "answered"
        /\ query'.found = now /\ query'.sound = query.sound
    BY <2>1 DEF DInv, TypeOK
  <2>3. \A i \in DOMAIN zone : i <= n * PageSize
    <3>1. CASE n = MaxPages
      BY <1>1, <1>2, <3>1
    <3>2. CASE Len(zone) < n * PageSize
      BY <1>1, <1>2, <3>2
    <3> QED BY <1>5, <3>1, <3>2 DEF LastPage
  <2>4. Listed(n) = Truth
    BY <2>3 DEF Listed, Truth, Running
  <2>5. Truth' = Truth
    BY <2>1 DEF Truth, Running
  <2> QED BY <1>3, <2>2, <2>4, <2>5 DEF Scanned, Answered, FoundIfSteady
<1> QED BY <1>4, <1>5

LEMMA ScanStep == DInv /\ [Next]_vars => (Scanned /\ Answered /\ FoundIfSteady)'
<1> SUFFICES ASSUME DInv, [Next]_vars PROVE (Scanned /\ Answered /\ FoundIfSteady)'
    OBVIOUS
<1>1. CASE FetchPage
  BY <1>1, FetchScans
<1>2. CASE Readdress \/ EditZone
  <2>1. query.pc # "idle" => query' = [query EXCEPT !.sound = FALSE]
    BY <1>2 DEF Readdress, EditZone, Edited, Idle
  <2>2. query.pc = "idle" => query'.pc = "idle"
    BY <1>2 DEF Readdress, EditZone, Edited, DInv, TypeOK
  <2>3. CASE query.pc = "idle"
    BY <2>2, <2>3 DEF Scanned, Answered, FoundIfSteady
  <2>4. CASE query.pc # "idle"
    <3>1. query'.pc = query.pc /\ query'.page = query.page /\ query'.found = query.found /\ ~query'.sound
      BY <2>1, <2>4 DEF DInv, TypeOK
    <3> QED BY <3>1 DEF DInv, Scanned, Answered, FoundIfSteady
  <2> QED BY <2>3, <2>4
<1>3. CASE CacheExpires \/ Connect \/ UNCHANGED dnsVars
  BY <1>3 DEF CacheExpires, Connect, dnsVars, DInv, Scanned, Answered, FoundIfSteady, Listed, Truth, Running
<1>4. CASE Ask
  <2>1. query'.pc = "page" /\ query'.page = 1 /\ query'.found = NoIP
    BY <1>4 DEF Ask, Idle
  <2>2. zone' = zone /\ zone \in Seq({"ours", "paused", "other"}) /\ 0 * PageSize = 0
    BY <1>4, DnsAssumption DEF Ask, DInv, TypeOK
  <2>3. Listed(0)' = NoIP
    BY <2>2 DEF Listed
  <2> QED BY <2>1, <2>3 DEF Scanned, Answered, FoundIfSteady
<1>5. CASE ApiFails \/ Resolve
  BY <1>5 DEF ApiFails, Resolve, Idle, Scanned, Answered, FoundIfSteady
<1>6. CASE Disconnect \/ Dies \/ NoAnswer \/ ComesUp \/ Unreachable \/ Confirms \/ Condemns
  <2>1. query'.pc = "idle"
    BY <1>6 DEF Disconnect, Dies, Falls, NoAnswer, ComesUp, Unreachable, Confirms, Condemns, Idle
  <2> QED BY <2>1 DEF Scanned, Answered, FoundIfSteady
<1> QED BY <1>1, <1>2, <1>3, <1>4, <1>5, <1>6 DEF Next, DnsNext, vars

LEMMA DnsInductive == Spec => []DInv
<1>1. Init => DInv
  <2> SUFFICES ASSUME Init PROVE DInv
      OBVIOUS
  <2>1. MaxRecords \in Nat /\ MaxRecords >= 1
    BY DnsAssumption
  <2>2. ZoneTypeOK
    BY ZoneTypeInit DEF Init
  <2>3. query.pc = "idle"
    BY DEF Init, Idle
  <2>4. zone \in Seq({"ours", "paused", "other"}) /\ Len(zone) = 1
    BY DEF Init
  <2>5. Idle \in [pc : {"idle", "page", "resolve", "answered"}, page : 0..MaxPages,
                  found : IPs \cup {NoIP}, sound : BOOLEAN]
    BY DnsAssumption DEF Idle
  <2>6. TypeOK
    <3>1. 0 \in 0..MaxRetries
      BY DnsAssumption
    <3> QED BY <2>1, <2>2, <2>3, <2>4, <2>5, <3>1, DnsAssumption DEF Init, TypeOK
  <2> QED BY <2>3, <2>6, IdleSteady DEF DInv
<1>2. DInv /\ [Next]_vars => DInv'
  BY DnsType, ScanStep DEF DInv
<1> QED BY <1>1, <1>2, PTL DEF Spec

\* Lookup, tunnel and zone are of their types (baidu_dns.go:134).
THEOREM DnsTypes == Spec => []TypeOK
BY DnsInductive, PTL DEF DInv

\* The row is as true in the composition: lookups and edits of the zone do not
\* disturb it (ui.go:937).
THEOREM RowTrueBesideLookups == Spec => []RowIsCurrent
BY RowTrue, Composition, PTL

\* Paging overlooks no record, whatever the size of a page, the limit on pages and
\* the zone (baidu_dns.go:134).
THEOREM PagingSound == Spec => []FoundIfSteady
BY DnsInductive, PTL DEF DInv

\* A heartbeat that asked the API condemns no tunnel that is where it should be
\* (ssh.go:884).
THEOREM CondemnsSound == Spec => CondemnsJustly
<1>1. DInv => [Condemns /\ query.sound => tunnel # address]_vars
  <2> SUFFICES ASSUME DInv, Condemns, query.sound PROVE tunnel # address
      OBVIOUS
  <2>1. query.found = Truth /\ query.found # NoIP
    BY DEF DInv, FoundIfSteady, Answered, Condemns
  <2> QED BY <2>1 DEF Condemns, Truth
<1> QED BY <1>1, DnsInductive, PTL DEF CondemnsJustly
===============================================================================
