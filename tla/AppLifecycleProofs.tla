-------------------------- MODULE AppLifecycleProofs --------------------------
(***************************************************************************)
(* Theorems about ConfigStore and AppLifecycle: no configuration and no    *)
(* key is destroyed whatever operation fails and whatever step a process   *)
(* dies at, and the instance can be reached, for any number of launches.   *)
(***************************************************************************)
EXTENDS AppLifecycle, TLAPS

-----------------------------------------------------------------------------
(* The store.                                                              *)

\* The store works on the key file.
KeyPhase == \/ pc \in {"statKey", "readKey", "generate", "fill"}
            \/ pc \in {"create", "copy", "remove"} /\ mfile = "key"

\* What migrateFile relies on from one operation to the next.
Migrating ==
  /\ pc = "remove" /\ mfile = "config" => home.config \in Config /\ home.config.from = "user"
  /\ pc = "copy"   /\ mfile = "key"    => home.key = Torn
  /\ pc = "create" /\ mfile = "key"    => home.key = Absent
  /\ pc = "remove" /\ mfile = "key"    => home.key = legacy.key

\* A generated key replaces none; a sealed state is sealed with the key at home.
KeyMade ==
  /\ pc = "generate" => home.key = Absent
  /\ pc = "fill"     => home.key = Torn
  /\ pc = "rename"   => seal \notin Keys \/ seal = home.key

\* A state that may be saved: the user's, or the defaults beside a legacy file.
Whole(m) == m.from = "user" \/ (m.from = "defaults" /\ legacy.config \in Config)

\* What is saved is whole.
Descends ==
  /\ legacy.config \in Config => legacy.config.from = "user"
  /\ KeyPhase /\ goal = "load" => home.config \in Config
  /\ KeyPhase /\ goal = "save" => Whole(want) /\ Whole(mem)
  /\ pc = "rename" => Whole(want) /\ Whole(mem)
  /\ pc = "ready"  => readOnly \/ Whole(mem)

StoreInv == StoreTypeOK /\ Migrating /\ KeyMade /\ Descends /\ NothingLost /\ SealHasKey

\* What any step of the program does to the store.
StoreChange ==
  \/ Launch \/ StoreStep \/ (\E typed \in BOOLEAN : Save(typed))
  \/ Off /\ UNCHANGED disk
  \/ UNCHANGED storeVars

USE DEF Files, Keys, Seals, Origins

LEMMA StoreStart == StoreInit => StoreInv
<1> SUFFICES ASSUME StoreInit PROVE StoreInv
    OBVIOUS
<1>1. CASE home = [f \in Files |-> Absent] /\ legacy = home /\ dataDir \in BOOLEAN
  <2>1. home.config = Absent /\ home.key = Absent /\ legacy.config = Absent /\ legacy.key = Absent
    BY <1>1
  <2>2. StoreTypeOK
    BY <1>1, <2>1 DEF StoreInit, StoreTypeOK, Memory, Blank
  <2>3. NothingLost /\ SealHasKey /\ Descends
    BY <2>1, FileAssumption DEF StoreInit, NothingLost, SealHasKey, Descends, KeyPhase
  <2> QED BY <2>2, <2>3 DEF StoreInit, StoreInv, Migrating, KeyMade
<1>2. ASSUME NEW s \in {"none", "plain", "old"}, home = [f \in Files |-> Absent],
             legacy = [config |-> [from |-> "user", seal |-> s],
                       key    |-> IF s = "old" THEN "old" ELSE Absent],
             dataDir \in BOOLEAN
      PROVE  StoreInv
  <2>1. /\ home.config = Absent /\ home.key = Absent /\ DOMAIN home = Files
        /\ legacy.config = [from |-> "user", seal |-> s] /\ DOMAIN legacy = Files
        /\ legacy.key = IF s = "old" THEN "old" ELSE Absent
    BY <1>2
  <2>2. legacy.config \in Config /\ legacy.config.from = "user" /\ legacy.config.seal = s
    BY <2>1 DEF Config
  <2>3. StoreTypeOK
    BY <1>2, <2>1, <2>2 DEF StoreInit, StoreTypeOK, Memory, Blank
  <2>4. NothingLost /\ SealHasKey /\ Descends
    BY <2>1, <2>2, FileAssumption DEF StoreInit, NothingLost, SealHasKey, Descends, KeyPhase
  <2> QED BY <2>3, <2>4 DEF StoreInit, StoreInv, Migrating, KeyMade
<1>3. CASE /\ home = [config |-> [from |-> "user", seal |-> "fresh"], key |-> "fresh"]
           /\ legacy = [f \in Files |-> Absent] /\ dataDir = TRUE
  <2>1. /\ legacy.config = Absent /\ legacy.key = Absent /\ DOMAIN legacy = Files
        /\ home.config = [from |-> "user", seal |-> "fresh"] /\ DOMAIN home = Files
        /\ home.key = "fresh"
    BY <1>3
  <2>2. home.config \in Config /\ home.config.from = "user" /\ home.config.seal = "fresh"
    BY <2>1 DEF Config
  <2>3. StoreTypeOK
    BY <1>3, <2>1, <2>2 DEF StoreInit, StoreTypeOK, Memory, Blank
  <2>4. NothingLost /\ SealHasKey /\ Descends
    BY <2>1, <2>2, FileAssumption DEF StoreInit, NothingLost, SealHasKey, Descends, KeyPhase
  <2> QED BY <2>3, <2>4 DEF StoreInit, StoreInv, Migrating, KeyMade
<1> QED BY <1>1, <1>2, <1>3 DEF StoreInit, Stored

LEMMA MemoryOf ==
  ASSUME NEW c \in Config, NEW k PROVE [from |-> c.from, secret |-> c.seal = k] \in Memory
<1>1. (c.seal = k) \in BOOLEAN /\ c.from \in Origins
  BY DEF Config
<1> QED BY <1>1, Zenon DEF Memory

\* Steps that touch no file but decide what is done next.
LEMMA LooksKeep ==
  ASSUME StoreInv, Launch \/ StatConfig \/ StatKey \/ LoadSealed \/ SaveFails
  PROVE  StoreInv'
<1> USE DEF StoreInv, StoreTypeOK, disk
<1>1. UNCHANGED disk /\ UNCHANGED <<mem, want, seal, readOnly>>
  BY DEF Launch, StatConfig, StatKey, LoadSealed, SaveFails
<1>2. StoreTypeOK'
  BY <1>1 DEF Launch, StatConfig, StatKey, LoadSealed, SaveFails, MissingAtHome
<1>3. (NothingLost /\ SealHasKey)'
  BY <1>1 DEF NothingLost, SealHasKey
<1>4. CASE Launch \/ StatConfig \/ SaveFails
  BY <1>1, <1>2, <1>3, <1>4 DEF Launch, StatConfig, SaveFails, Migrating, KeyMade, Descends, KeyPhase, Whole
<1>5. CASE StatKey
  BY <1>1, <1>2, <1>3, <1>5 DEF StatKey, MissingAtHome, Migrating, KeyMade, Descends, KeyPhase, Whole
<1>6. CASE LoadSealed
  BY <1>1, <1>2, <1>3, <1>6 DEF LoadSealed, Migrating, KeyMade, Descends, KeyPhase, Whole
<1> QED BY <1>4, <1>5, <1>6

LEMMA CreateKeeps == ASSUME StoreInv, MigrateCreate PROVE StoreInv'
<1> USE FileAssumption DEF StoreInv, StoreTypeOK, MigrateCreate, Afterwards
<1>1. StoreTypeOK'
  OBVIOUS
<1>2. (NothingLost /\ SealHasKey)'
  BY DEF NothingLost, SealHasKey, Migrating
<1>3. (Migrating /\ KeyMade /\ Descends)'
  BY DEF Migrating, KeyMade, Descends, KeyPhase, Whole
<1> QED BY <1>1, <1>2, <1>3

LEMMA CopyKeeps == ASSUME StoreInv, MigrateCopy PROVE StoreInv'
<1> USE FileAssumption DEF StoreInv, StoreTypeOK, MigrateCopy, Afterwards
<1>1. StoreTypeOK'
  OBVIOUS
<1>2. (NothingLost /\ SealHasKey)'
  BY DEF NothingLost, SealHasKey, Migrating, Descends
<1>3. (Migrating /\ KeyMade /\ Descends)'
  BY DEF Migrating, KeyMade, Descends, KeyPhase, Whole
<1> QED BY <1>1, <1>2, <1>3

LEMMA RemoveKeeps == ASSUME StoreInv, MigrateRemove PROVE StoreInv'
<1> USE FileAssumption DEF StoreInv, StoreTypeOK, MigrateRemove, Afterwards
<1>1. StoreTypeOK'
  OBVIOUS
<1>2. (NothingLost /\ SealHasKey)'
  BY DEF NothingLost, SealHasKey, Migrating
<1>3. (Migrating /\ KeyMade /\ Descends)'
  BY DEF Migrating, KeyMade, Descends, KeyPhase, Whole
<1> QED BY <1>1, <1>2, <1>3

LEMMA LoadKeeps ==
  ASSUME StoreInv, LoadNothing \/ LoadFails \/ LoadPlain PROVE StoreInv'
<1> USE DEF StoreInv, StoreTypeOK, disk
<1>1. UNCHANGED disk /\ UNCHANGED <<want, seal>> /\ pc' = "ready" /\ (readOnly' \/ Whole(mem)')
  <2>1. CASE LoadNothing
    BY <2>1 DEF LoadNothing, Whole
  <2>2. CASE LoadFails
    BY <2>2 DEF LoadFails
  <2>3. CASE LoadPlain
    <3>1. home.config \in Config /\ UNCHANGED disk /\ mem'.from = home.config.from
      BY <2>3 DEF LoadPlain
    <3>2. home.config.from \in Origins
      BY <3>1 DEF Config
    <3>3. Whole(mem)'
      BY <3>1, <3>2 DEF NothingLost, Whole
    <3> QED BY <2>3, <3>3 DEF LoadPlain
  <2> QED BY <2>1, <2>2, <2>3
<1>2. StoreTypeOK'
  <2>1. mem' \in Memory /\ readOnly' \in BOOLEAN
    <3>1. CASE LoadPlain
      BY <3>1, MemoryOf DEF LoadPlain
    <3>2. CASE LoadNothing
      BY <3>2 DEF LoadNothing, Memory
    <3>3. CASE LoadFails
      <4>1. Blank \in Memory
        BY DEF Blank, Memory
      <4> QED BY <3>3, <4>1 DEF LoadFails
    <3> QED BY <3>1, <3>2, <3>3
  <2> QED BY <1>1, <2>1 DEF LoadNothing, LoadFails, LoadPlain
<1>3. (NothingLost /\ SealHasKey)'
  BY <1>1 DEF NothingLost, SealHasKey
<1> QED BY <1>1, <1>2, <1>3 DEF Migrating, KeyMade, Descends, KeyPhase, Whole

\* loadOrCreateSecretKey ends with the key at home, or fails.
LEMMA KeyKeeps ==
  ASSUME StoreInv, ReadKey \/ Generate \/ Fill PROVE StoreInv'
<1> USE FileAssumption DEF StoreInv, StoreTypeOK
<1>1. mem' \in Memory
  <2>1. goal = "load" => home.config \in Config
    BY DEF ReadKey, Generate, Fill, Descends, KeyPhase
  <2>2. goal = "load" => [from |-> home.config.from, secret |-> FALSE] \in Memory
    BY <2>1 DEF Config, Memory
  <2>3. ASSUME NEW k, KeyIs(k) PROVE mem' \in Memory
    BY <2>1, <2>3, MemoryOf DEF KeyIs, Opened, Sealed
  <2>4. KeyFails => mem' \in Memory
    BY <2>2 DEF KeyFails
  <2> QED BY <2>3, <2>4 DEF ReadKey, Generate, Fill
<1>2. UNCHANGED <<legacy, mfile, goal, want, readOnly>> /\ home'.config = home.config
  BY DEF ReadKey, Generate, Fill, disk
<1>3. StoreTypeOK'
  <2>1. DOMAIN home' = Files /\ home'.key \in Keys \cup {Torn, Absent} /\ dataDir' \in BOOLEAN
    BY DEF ReadKey, Generate, Fill, disk
  <2>2. seal' \in Seals /\ pc' \in {"ready", "rename", "generate", "fill"}
    BY DEF ReadKey, Generate, Fill, KeyIs, Opened, Sealed, KeyFails
  <2> QED BY <1>1, <1>2, <2>1, <2>2
<1>4. NothingLost'
  BY <1>2 DEF NothingLost
<1>5. SealHasKey'
  BY <1>2 DEF ReadKey, Generate, Fill, disk, SealHasKey, KeyMade
<1>6. Descends'
  <2>1. \A m : Whole(m)' <=> Whole(m)
    BY <1>2 DEF Whole
  <2>2. KeyPhase /\ pc # "ready"
    BY DEF KeyPhase, ReadKey, Generate, Fill
  <2>3. /\ goal = "save" => Whole(want) /\ Whole(mem)
        /\ goal = "load" => home.config \in Config /\ (home.config.from # "half")
    BY <2>2 DEF Descends, NothingLost
  <2>4. goal = "save" => mem' = mem
    BY DEF ReadKey, Generate, Fill, KeyIs, Opened, Sealed, KeyFails
  <2>5. goal = "load" /\ home.config \in Config /\ mem'.from = home.config.from => Whole(mem')
    BY <2>3 DEF NothingLost, Whole, Config
  <2>6. /\ goal = "load" => pc' # "rename"
        /\ pc' \in {"generate", "fill", "ready", "rename"}
    BY DEF ReadKey, Generate, Fill, KeyIs, Opened, Sealed, KeyFails
  <2>7. goal = "load" /\ pc' = "ready" => mem'.from = home.config.from
    <3>1. ASSUME NEW k, Opened(k) PROVE mem'.from = home.config.from
      <4>1. mem' = [from |-> home.config.from, secret |-> home.config.seal = k]
        BY <3>1 DEF Opened
      <4> HIDE DEF StoreInv, StoreTypeOK
      <4> QED BY <4>1, Zenon
    <3>2. goal = "load" /\ KeyFails => mem'.from = home.config.from
      BY DEF KeyFails
    <3> QED BY <3>1, <3>2 DEF ReadKey, Generate, Fill, KeyIs, Sealed
  <2> QED BY <1>2, <2>1, <2>3, <2>4, <2>5, <2>6, <2>7 DEF Descends, KeyPhase
<1>7. KeyMade'
  BY <1>2 DEF ReadKey, Generate, Fill, KeyIs, Opened, Sealed, KeyFails, KeyMade, disk
<1>8. Migrating'
  BY DEF ReadKey, Generate, Fill, KeyIs, Opened, Sealed, KeyFails, Migrating
<1> QED BY <1>3, <1>4, <1>5, <1>6, <1>7, <1>8

LEMMA SaveKeeps ==
  ASSUME StoreInv, (\E typed \in BOOLEAN : Save(typed)) \/ Rename PROVE StoreInv'
<1> USE DEF StoreInv, StoreTypeOK, disk
<1>1. CASE \E typed \in BOOLEAN : Save(typed)
  <2>1. PICK typed \in BOOLEAN : Save(typed)
    BY <1>1
  <2>2. want' \in Memory /\ want'.from = mem.from
    BY <2>1 DEF Save, Memory
  <2>3. (NothingLost /\ SealHasKey)'
    BY <2>1 DEF Save, NothingLost, SealHasKey
  <2> QED BY <2>1, <2>2, <2>3 DEF Save, Migrating, KeyMade, Descends, KeyPhase, Whole
<1>2. CASE Rename
  <2>1. home'.config \in Config /\ home'.config = [from |-> want.from, seal |-> seal]
    BY <1>2 DEF Rename, Config, Memory
  <2>2. UNCHANGED <<legacy, seal>> /\ home'.key = home.key /\ DOMAIN home' = Files /\ pc' = "ready"
    BY <1>2 DEF Rename
  <2>3. (NothingLost /\ SealHasKey)'
    <3>1. home'.config.from = want.from /\ home'.config.seal = seal /\ home'.config # Torn
      BY <2>1, FileAssumption
    <3>2. Whole(want) /\ (seal \notin Keys \/ seal = home.key)
      BY <1>2 DEF Rename, KeyMade, Descends
    <3>3. NothingLost'
      BY <2>2, <3>1, <3>2 DEF NothingLost, Whole
    <3>4. SealHasKey'
      BY <2>2, <3>1, <3>2 DEF SealHasKey
    <3> QED BY <3>3, <3>4
  <2>4. StoreTypeOK'
    BY <1>2, <2>1, <2>2 DEF Rename
  <2> QED BY <1>2, <2>2, <2>3, <2>4 DEF Rename, Migrating, KeyMade, Descends, KeyPhase, Whole
<1> QED BY <1>1, <1>2

LEMMA OffKeeps == ASSUME StoreInv, Off, UNCHANGED disk PROVE StoreInv'
BY DEF StoreInv, StoreTypeOK, disk, Off, Blank, Memory, Migrating, KeyMade, Descends, KeyPhase, Whole,
       NothingLost, SealHasKey

LEMMA StoreKeeps == StoreInv /\ StoreChange => StoreInv'
<1> SUFFICES ASSUME StoreInv, StoreChange PROVE StoreInv'
    OBVIOUS
<1>1. CASE UNCHANGED storeVars
  BY <1>1 DEF storeVars, disk, StoreInv, StoreTypeOK, Migrating, KeyMade, Descends, KeyPhase, Whole,
              NothingLost, SealHasKey
<1> QED BY <1>1, LooksKeep, CreateKeeps, CopyKeeps, RemoveKeeps, LoadKeeps, KeyKeeps, SaveKeeps,
           OffKeeps DEF StoreChange, StoreStep

-----------------------------------------------------------------------------
(* The processes.                                                          *)

\* flock: whoever is past the lock holds it.
LockHeld ==
  \A l \in Launches : proc[l] \in {"listen", "load", "up", "stopping", "leaving"} => lock = l

AppTypeOK ==
  /\ proc \in [Launches -> {"none", "start", "poke", "listen", "load", "up", "stopping", "leaving"}]
  /\ lock \in Launches \cup {Nobody}
  /\ socket \in Launches \cup {"none", "stale"}
  /\ showCh \in BOOLEAN /\ showReq \in BOOLEAN
  /\ consumer \in {"idle", "blocked"}
  /\ win \in {"none", "opening", "alive", "closing"}

AppInv == StoreInv /\ AppTypeOK /\ LockHeld /\ Reachable

LEMMA StoreOfNext == [Next]_vars => StoreChange
BY DEF Next, vars, appVars, StoreChange, Start, TryLock, Poke, Listen, Loaded, Quit, RemoveSocket,
       Exit, Crash, Gone, Saves, Works, WindowStep, TrayShow, Open, Close, Destroyed, Consume,
       Unblock, Reopen, storeVars

LEMMA WindowKeeps ==
  ASSUME AppTypeOK, LockHeld, Reachable,
         TrayShow \/ Open \/ Close \/ Destroyed \/ Consume \/ Unblock \/ Reopen
  PROVE  (AppTypeOK /\ LockHeld /\ Reachable)'
<1>1. UNCHANGED <<proc, lock, socket>>
  BY DEF WindowStep, TrayShow, Open, Close, Destroyed, Consume, Unblock, Reopen
<1>2. /\ showCh' \in BOOLEAN /\ showReq' \in BOOLEAN /\ consumer' \in {"idle", "blocked"}
      /\ win' \in {"none", "opening", "alive", "closing"}
  BY DEF AppTypeOK, WindowStep, TrayShow, Open, Close, Destroyed, Consume, Unblock, Reopen
<1> QED BY <1>1, <1>2 DEF AppTypeOK, LockHeld, Reachable

LEMMA GoneKeeps ==
  ASSUME AppTypeOK, LockHeld, Reachable, NEW l \in Launches, Exit(l) \/ Crash(l)
  PROVE  (AppTypeOK /\ LockHeld /\ Reachable)'
<1>1. /\ proc' = [proc EXCEPT ![l] = "none"]
      /\ lock' = IF lock = l THEN Nobody ELSE lock
      /\ socket' = socket \/ (socket = l /\ socket' = "stale")
      /\ showCh' \in BOOLEAN /\ showReq' \in BOOLEAN /\ consumer' \in {"idle", "blocked"}
      /\ win' \in {"none", "opening", "alive", "closing"}
  BY DEF AppTypeOK, Exit, Crash, Gone, Goes
<1>2. AppTypeOK'
  BY <1>1 DEF AppTypeOK
<1>3. \A k \in Launches : k # l => proc'[k] = proc[k]
  BY <1>1 DEF AppTypeOK
<1>4. proc'[l] = "none"
  BY <1>1 DEF AppTypeOK
<1> QED BY <1>1, <1>2, <1>3, <1>4 DEF LockHeld, Reachable

LEMMA LaunchKeeps ==
  ASSUME AppTypeOK, LockHeld, Reachable, NEW l \in Launches,
         \/ Start(l) \/ TryLock(l) \/ Poke(l) \/ Listen(l) \/ Loaded(l) \/ Quit(l) \/ RemoveSocket(l)
  PROVE  (AppTypeOK /\ LockHeld /\ Reachable)'
<1> USE DEF AppTypeOK, LockHeld, Reachable, At, Goes
<1>1. CASE Start(l)
  BY <1>1 DEF Start
<1>2. CASE TryLock(l)
  BY <1>2, LaunchAssumption DEF TryLock
<1>3. CASE Poke(l)
  BY <1>3 DEF Poke
<1>4. CASE Listen(l)
  BY <1>4 DEF Listen
<1>5. CASE Loaded(l)
  BY <1>5 DEF Loaded
<1>6. CASE Quit(l)
  BY <1>6 DEF Quit
<1>7. CASE RemoveSocket(l)
  BY <1>7 DEF RemoveSocket
<1> QED BY <1>1, <1>2, <1>3, <1>4, <1>5, <1>6, <1>7

LEMMA AppInductive == Spec => []AppInv
<1>1. Init => AppInv
  BY StoreStart DEF Init, AppInv, AppTypeOK, LockHeld, Reachable
<1>2. AppInv /\ [Next]_vars => AppInv'
  <2> SUFFICES ASSUME AppInv, [Next]_vars PROVE AppInv'
      OBVIOUS
  <2>1. StoreInv'
    BY StoreOfNext, StoreKeeps DEF AppInv
  <2>2. CASE UNCHANGED appVars
    BY <2>1, <2>2 DEF AppInv, appVars, AppTypeOK, LockHeld, Reachable
  <2>3. CASE UNCHANGED vars
    BY <2>2, <2>3 DEF vars
  <2>4. CASE Saves \/ Works
    BY <2>2, <2>4 DEF Saves, Works
  <2> QED BY <2>1, <2>3, <2>4, WindowKeeps, GoneKeeps, LaunchKeeps DEF Next, AppInv
<1> QED BY <1>1, <1>2, PTL DEF Spec

\* Every variable of the program has its type.
THEOREM LifecycleTypes == Spec => []TypeOK
<1>1. AppInv => TypeOK
  BY DEF AppInv, AppTypeOK, StoreInv, TypeOK
<1> QED BY <1>1, AppInductive, PTL

\* However often instances are launched, whichever operations on files fail and
\* between whichever of them a process dies, the configuration of the user is not
\* destroyed: it is at home, or complete beside the executable (paths.go:117,
\* main.go:113, config.go:144).
THEOREM ConfigSurvives == Spec => []NothingLost
<1>1. AppInv => NothingLost
  BY DEF AppInv, StoreInv
<1> QED BY <1>1, AppInductive, PTL

\* ... and the key of no sealed secret (crypto.go:63).
THEOREM KeySurvives == Spec => []SealHasKey
<1>1. AppInv => SealHasKey
  BY DEF AppInv, StoreInv
<1> QED BY <1>1, AppInductive, PTL

\* Any number of launches, crashes and leaving instances beside it do not take
\* the socket from the instance (singleinstance_unix.go:56).
THEOREM InstanceReachable == Spec => []Reachable
<1>1. AppInv => Reachable
  BY DEF AppInv
<1> QED BY <1>1, AppInductive, PTL
===============================================================================
