----------------------------- MODULE DnsSources -----------------------------
(***************************************************************************)
(* Where the tunnel's address comes from: the Baidu API, read page by page *)
(* while the zone is edited (src/baidu_dns.go), the resolver behind it     *)
(* (ResolveHost of src/ssh.go, the system's, whose cache the drop-in of    *)
(* ZoneForward bypasses), and the two who ask: a connect or reconnect      *)
(* (resolveConnectTarget) and the heartbeat (freshIPs), one at a time for  *)
(* one tunnel.  The tunnel is up at an address, down with attempts left to *)
(* bring it up, or down for good; its goroutines are TunnelManager's       *)
(* subject.                                                                *)
(***************************************************************************)
EXTENDS Naturals, Sequences, ZoneForward

CONSTANTS
  IPs, NoIP,
  Host,                 \* the zone of the tunnel's host
  PageSize, MaxPages,   \* listRecords
  MaxRetries,           \* of the forward's configuration
  MaxRecords            \* bound: length of the zone

ASSUME DnsAssumption ==
  /\ NoIP \notin IPs /\ Host \in Zones
  /\ PageSize \in Nat \ {0} /\ MaxPages \in Nat \ {0} /\ MaxRecords \in Nat \ {0}
  /\ MaxRecords <= PageSize * MaxPages /\ MaxRetries \in Nat \ {0}

VARIABLES
  zone,     \* the records in the order of the API: "ours", "paused" (ours, not RUNNING), "other"
  address,  \* what our record says
  cache,    \* what the system resolver answers
  tunnel,   \* the address the tunnel is up at, NoIP when it is down
  attempts, \* left to the connect or reconnect under way
  query     \* the lookup under way

dnsVars == <<zone, address, cache, tunnel, attempts, query>>
vars == <<zoneVars, dnsVars>>

Idle == [pc |-> "idle", page |-> 0, found |-> NoIP, sound |-> TRUE]

\* sound (history): since the lookup began no request has failed and neither the
\* zone nor the address has changed.  A heartbeat asks for a tunnel that is up, an
\* attempt for one that is down.
TypeOK ==
  /\ ZoneTypeOK
  /\ zone \in Seq({"ours", "paused", "other"}) /\ Len(zone) <= MaxRecords
  /\ address \in IPs /\ cache \in IPs \cup {NoIP} /\ tunnel \in IPs \cup {NoIP}
  /\ query \in [pc : {"idle", "page", "resolve", "answered"}, page : 0..MaxPages,
                found : IPs \cup {NoIP}, sound : BOOLEAN]
  /\ attempts \in 0..MaxRetries
  /\ tunnel # NoIP => attempts = 0
  /\ query.pc # "idle" => tunnel # NoIP \/ attempts > 0

Init ==
  /\ ZoneInit
  /\ zone = <<"ours">> /\ address \in IPs /\ cache = address
  /\ tunnel = NoIP /\ attempts = 0 /\ query = Idle

Running == \E i \in DOMAIN zone : zone[i] = "ours"
Truth == IF Running THEN address ELSE NoIP

-----------------------------------------------------------------------------
(* The world.                                                              *)

Edited == query' = IF query = Idle THEN query ELSE [query EXCEPT !.sound = FALSE]

\* The server has a new address.
Readdress ==
  /\ address' \in IPs /\ address' # address
  /\ Edited /\ UNCHANGED <<zoneVars, zone, cache, tunnel, attempts>>

Before(i) == SubSeq(zone, 1, i - 1)
After(i) == SubSeq(zone, i + 1, Len(zone))

\* Somebody adds, removes, pauses or resumes a record of the zone.
EditZone ==
  /\ \/ /\ Len(zone) < MaxRecords
        /\ \/ zone' = <<"other">> \o zone
           \/ zone' = Append(zone, "other")
     \/ \E i \in DOMAIN zone : zone[i] = "other"  /\ zone' = Before(i) \o After(i)
     \/ \E i \in DOMAIN zone : zone[i] = "ours"   /\ zone' = [zone EXCEPT ![i] = "paused"]
     \/ \E i \in DOMAIN zone : zone[i] = "paused" /\ zone' = [zone EXCEPT ![i] = "ours"]
  /\ Edited /\ UNCHANGED <<zoneVars, address, cache, tunnel, attempts>>

\* A record in the cache expires, or FlushDNS succeeds.
CacheExpires ==
  /\ cache # Truth /\ cache' = Truth
  /\ UNCHANGED <<zoneVars, zone, address, tunnel, attempts, query>>

-----------------------------------------------------------------------------
(* The tunnel.                                                             *)

\* The user connects: one attempt.
Connect ==
  /\ tunnel = NoIP /\ attempts = 0 /\ attempts' = 1
  /\ UNCHANGED <<zoneVars, zone, address, cache, tunnel, query>>

Disconnect ==
  /\ tunnel # NoIP \/ attempts > 0
  /\ tunnel' = NoIP /\ attempts' = 0 /\ query' = Idle
  /\ UNCHANGED <<zoneVars, zone, address, cache>>

\* handleProcessExit and autoReconnect: MaxRetries attempts, none after a terminal
\* failure or with AutoReconnect off.  A heartbeat's answer comes too late.
Falls ==
  /\ tunnel' = NoIP /\ attempts' \in {0, MaxRetries} /\ query' = Idle
  /\ UNCHANGED <<zoneVars, zone, address, cache>>

\* The tunnel breaks.
Dies == tunnel # NoIP /\ Falls

-----------------------------------------------------------------------------
(* A lookup.                                                               *)

\* ResolveRealIP begins, for the heartbeat of a tunnel that is up or for an attempt.
Ask ==
  /\ query.pc = "idle" /\ (tunnel # NoIP \/ attempts > 0)
  /\ query' = [Idle EXCEPT !.pc = "page", !.page = 1]
  /\ UNCHANGED <<zoneVars, zone, address, cache, tunnel, attempts>>

\* Positions of the zone on page n.
Page(n) == {i \in DOMAIN zone : (n - 1) * PageSize < i /\ i <= n * PageSize}

\* Mutant: no limit on the pages.
LastShort(n) == Len(zone) < n * PageSize

\* Mutant: a full page is taken for the last one.
LastFull(n) == n >= 1

\* listRecords stops at a page that is not full, and at the limit.
LastPage(n) == n = MaxPages \/ Len(zone) < n * PageSize

\* The first RUNNING record of ours is the answer, wherever it was seen.
FetchPage ==
  LET hit   == \E i \in Page(query.page) : zone[i] = "ours"
      found == IF query.found = NoIP /\ hit THEN address ELSE query.found
  IN
  /\ query.pc = "page"
  /\ query' = IF ~LastPage(query.page)
              THEN [query EXCEPT !.page = @ + 1, !.found = found]
              ELSE [query EXCEPT !.page = 0, !.found = found,
                                 !.pc = IF found = NoIP THEN "resolve" ELSE "answered"]
  /\ UNCHANGED <<zoneVars, zone, address, cache, tunnel, attempts>>

\* No credentials, no answer, an HTTP error: what was listed so far is dropped.
ApiFails ==
  /\ query.pc = "page"
  /\ query' = [Idle EXCEPT !.pc = "resolve", !.sound = FALSE]
  /\ UNCHANGED <<zoneVars, zone, address, cache, tunnel, attempts>>

\* ResolveHost through the system resolver.
Fallback == IF dropIn = Host THEN Truth ELSE cache

Resolve ==
  /\ query.pc = "resolve" /\ Fallback # NoIP
  /\ query' = [Idle EXCEPT !.pc = "answered", !.found = Fallback, !.sound = FALSE]
  /\ UNCHANGED <<zoneVars, zone, address, cache, tunnel, attempts>>

\* An attempt has failed.
Spent == attempts' = (IF tunnel = NoIP THEN attempts - 1 ELSE attempts)

\* No source knows, or the lookup fails: an attempt fails, a beat is skipped.
NoAnswer ==
  /\ query.pc = "resolve"
  /\ query' = Idle /\ Spent
  /\ UNCHANGED <<zoneVars, zone, address, cache, tunnel>>

\* A connect dials first, a reconnect starts ssh at once: both may come up at
\* any address a source gave.
ComesUp ==
  /\ query.pc = "answered" /\ tunnel = NoIP
  /\ tunnel' = query.found /\ attempts' = 0 /\ query' = Idle
  /\ UNCHANGED <<zoneVars, zone, address, cache>>

Unreachable ==
  /\ query.pc = "answered" /\ tunnel = NoIP
  /\ query' = Idle /\ Spent
  /\ UNCHANGED <<zoneVars, zone, address, cache, tunnel>>

\* The heartbeat finds the tunnel where it should be, ...
Confirms ==
  /\ query.pc = "answered" /\ tunnel = query.found
  /\ query' = Idle
  /\ UNCHANGED <<zoneVars, zone, address, cache, tunnel, attempts>>

\* Mutants: it takes down whatever it asked about, or nothing.
CondemnsAny == query.pc = "answered" /\ tunnel # NoIP /\ Falls
Spares ==
  /\ query.pc = "answered" /\ tunnel \notin {NoIP, query.found}
  /\ query' = Idle
  /\ UNCHANGED <<zoneVars, zone, address, cache, tunnel, attempts>>

\* ... or kills its ssh.
Condemns == query.pc = "answered" /\ tunnel \notin {NoIP, query.found} /\ Falls

DnsNext ==
  \/ Readdress \/ EditZone \/ CacheExpires
  \/ Connect \/ Disconnect \/ Dies
  \/ Ask \/ FetchPage \/ ApiFails \/ Resolve \/ NoAnswer
  \/ ComesUp \/ Unreachable \/ Confirms \/ Condemns

Next == (ZoneNext /\ UNCHANGED dnsVars) \/ DnsNext

Spec == Init /\ [][Next]_vars

\* A heartbeat ticks as long as its tunnel is up, an attempt ends one way or the
\* other, a cached record expires, and a resolver that is asked again and again
\* answers now and then.  Nobody has to connect, and no attempt has to succeed.
Fairness ==
  /\ WF_vars(Ask) /\ WF_vars(FetchPage) /\ WF_vars(NoAnswer) /\ WF_vars(CacheExpires)
  /\ SF_vars(Resolve) /\ WF_vars(ComesUp \/ Unreachable)
  /\ WF_vars(Confirms) /\ WF_vars(Condemns)

FairSpec == Spec /\ Fairness

-----------------------------------------------------------------------------

\* The API path overlooks our record only when the zone was edited between two
\* pages or a request failed: paging reaches every record, at every boundary of
\* the page size (baidu_dns.go:134, 195).
FoundIfSteady ==
  query.pc \in {"resolve", "answered"} /\ query.sound => query.found = Truth

\* A heartbeat that asked the API does not take down a tunnel that was at the
\* right address all the while.  (With the answer of a stale resolver it does.)
CondemnsJustly == [][Condemns /\ query.sound => tunnel # address]_vars

\* The purpose of it all: once our record stays as it is and the tunnel neither
\* breaks by itself nor is connected again, no tunnel stays up at another address.
\* The end is the right address or no tunnel: a reconnect stops after MaxRetries
\* attempts (ssh.go:1033) and is not started with AutoReconnect off (ssh.go:981),
\* although the heartbeat takes a stale tunnel down all the same (ssh.go:834).
Settles ==
  <>[][UNCHANGED <<zone, address>> /\ ~Connect /\ (Dies => Condemns \/ Disconnect)]_vars
AtRest == tunnel = address \/ (tunnel = NoIP /\ attempts = 0)
FollowsRecord == Settles /\ <>[]Running => <>[]AtRest
=============================================================================
