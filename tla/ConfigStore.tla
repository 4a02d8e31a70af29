----------------------------- MODULE ConfigStore -----------------------------
(***************************************************************************)
(* The configuration and the key it is encrypted with: src/config.go,      *)
(* src/crypto.go and migrateFile of src/paths.go, one action per operation *)
(* on a file, so that the process can die between any two.                 *)
(*                                                                         *)
(* Each of the two files may exist in the per-user directories (home) and, *)
(* left by an early build, beside the executable (legacy).  Of a           *)
(* configuration remains whom its contents are from and what its secrets,  *)
(* the SSH password and the API key, are sealed with.                      *)
(***************************************************************************)
EXTENDS Naturals

CONSTANTS
  Absent, Torn,   \* no file; a file cut short
  IOErrors        \* files may fail for reasons outside the program: full disk, permissions

Files == {"config", "key"}
Keys == {"old", "fresh"}                     \* the legacy key; a generated one
Seals == Keys \cup {"none", "plain"}         \* no secret stored; stored as plaintext

\* The user's; the defaults, although the user has one beside the executable;
\* the state of a Load that failed.
Origins == {"user", "defaults", "half"}
Config == [from : Origins, seal : Seals]
Memory == [from : Origins, secret : BOOLEAN]

ASSUME FileAssumption == /\ Absent \notin Config \cup Keys /\ Torn \notin Config \cup Keys
                         /\ Absent # Torn /\ IOErrors \in BOOLEAN

VARIABLES
  home,      \* the files under ~/.config and ~/.local/share
  legacy,    \* the files beside the executable
  dataDir,   \* the directory of the key exists
  pc, mfile, \* where the process is; which file it migrates
  goal,      \* what it needs the key for
  mem, want, \* ConfigManager.state; the state being saved
  seal,      \* the key the state being saved is sealed with
  readOnly   \* ConfigManager.readOnly

disk == <<home, legacy, dataDir>>
storeVars == <<disk, pc, mfile, goal, mem, want, seal, readOnly>>

Blank == [from |-> "half", secret |-> FALSE]

StoreTypeOK ==
  /\ home.config \in Config \cup {Absent, Torn} /\ home.key \in Keys \cup {Absent, Torn}
  /\ legacy.config \in Config \cup {Absent}     /\ legacy.key \in Keys \cup {Absent}
  /\ DOMAIN home = Files /\ DOMAIN legacy = Files
  /\ dataDir \in BOOLEAN
  /\ pc \in {"off", "stat", "create", "copy", "remove", "load", "statKey", "readKey",
             "generate", "fill", "ready", "rename"}
  /\ mfile \in Files /\ goal \in {"load", "save"}
  /\ mem \in Memory /\ want \in Memory
  /\ seal \in Seals /\ readOnly \in BOOLEAN
  /\ pc \in {"create", "copy"} => legacy[mfile] # Absent

\* A new user, one of an early build (whose password may be plaintext), one of
\* this build.
Stored ==
  \/ /\ home = [f \in Files |-> Absent] /\ legacy = home
     /\ dataDir \in BOOLEAN
  \/ /\ home = [f \in Files |-> Absent]
     /\ \E s \in {"none", "plain", "old"} :
          legacy = [config |-> [from |-> "user", seal |-> s],
                    key    |-> IF s = "old" THEN "old" ELSE Absent]
     /\ dataDir \in BOOLEAN
  \/ /\ home = [config |-> [from |-> "user", seal |-> "fresh"], key |-> "fresh"]
     /\ legacy = [f \in Files |-> Absent]
     /\ dataDir = TRUE

Off == /\ pc' = "off" /\ mfile' = "config" /\ goal' = "load" /\ mem' = Blank /\ want' = Blank
       /\ seal' = "none" /\ readOnly' = FALSE

StoreInit ==
  /\ Stored
  /\ pc = "off" /\ mfile = "config" /\ goal = "load" /\ mem = Blank /\ want = Blank
  /\ seal = "none" /\ readOnly = FALSE

-----------------------------------------------------------------------------
(* migrateFile, for the configuration and for the key.                     *)

NotAtHome(f) == home[f] = Absent     \* mutant: the source is not looked for
MissingAtHome(f) == home[f] = Absent /\ legacy[f] # Absent

\* Where the caller of migrateFile goes on.
Afterwards == IF mfile = "config" THEN "load" ELSE "readKey"

\* configFile: the first thing main does with the store.
Launch ==
  /\ pc = "off"
  /\ pc' = "stat"
  /\ UNCHANGED <<disk, mfile, goal, mem, want, seal, readOnly>>

StatConfig ==
  /\ pc = "stat"
  /\ pc' = IF MissingAtHome("config") THEN "create" ELSE "load"
  /\ mfile' = "config"
  /\ UNCHANGED <<disk, goal, mem, want, seal, readOnly>>

\* The source is opened, the target created (O_EXCL): configFile has made its
\* directory, nobody that of the key.  After an error both are as they were.
MigrateCreate ==
  /\ pc = "create"
  /\ \/ /\ mfile = "config" \/ dataDir
        /\ home' = [home EXCEPT ![mfile] = Torn] /\ pc' = "copy"
     \/ /\ IOErrors \/ (mfile = "key" /\ ~dataDir)
        /\ home' = home /\ pc' = Afterwards
  /\ UNCHANGED <<legacy, dataDir, mfile, goal, mem, want, seal, readOnly>>

\* Mutant: the error of io.Copy is not looked at.
CopyUnchecked ==
  /\ pc = "copy"
  /\ (IOErrors /\ home' = home) \/ home' = [home EXCEPT ![mfile] = legacy[mfile]]
  /\ pc' = "remove"
  /\ UNCHANGED <<legacy, dataDir, mfile, goal, mem, want, seal, readOnly>>

MigrateCopy ==
  /\ pc = "copy"
  /\ \/ home' = [home EXCEPT ![mfile] = legacy[mfile]] /\ pc' = "remove"
     \/ IOErrors /\ home' = home /\ pc' = Afterwards
  /\ UNCHANGED <<legacy, dataDir, mfile, goal, mem, want, seal, readOnly>>

\* Best effort.
MigrateRemove ==
  /\ pc = "remove"
  /\ legacy' = [legacy EXCEPT ![mfile] = Absent] \/ (IOErrors /\ legacy' = legacy)
  /\ pc' = Afterwards
  /\ UNCHANGED <<home, dataDir, mfile, goal, mem, want, seal, readOnly>>

-----------------------------------------------------------------------------
(* Load, as main calls it.                                                 *)

\* No file: the defaults, which may be saved.  They are what a new user has; an
\* early one has them too when the migration could not create the file.
LoadNothing ==
  /\ pc = "load" /\ home.config = Absent
  /\ pc' = "ready"
  /\ mem' = [from |-> IF legacy.config = Absent THEN "user" ELSE "defaults", secret |-> FALSE]
  /\ UNCHANGED <<disk, mfile, goal, want, seal, readOnly>>

\* The file does not parse or cannot be read: read-only protection.
LoadFails ==
  /\ pc = "load" /\ home.config # Absent
  /\ home.config = Torn \/ IOErrors
  /\ pc' = "ready" /\ mem' = Blank /\ readOnly' = TRUE
  /\ UNCHANGED <<disk, mfile, goal, want, seal>>

\* Nothing to decrypt.
LoadPlain ==
  /\ pc = "load" /\ home.config \in Config /\ home.config.seal \notin Keys
  /\ pc' = "ready"
  /\ mem' = [from |-> home.config.from, secret |-> home.config.seal = "plain"]
  /\ UNCHANGED <<disk, mfile, goal, want, seal, readOnly>>

LoadSealed ==
  /\ pc = "load" /\ home.config \in Config /\ home.config.seal \in Keys
  /\ pc' = "statKey" /\ goal' = "load"
  /\ UNCHANGED <<disk, mfile, mem, want, seal, readOnly>>

-----------------------------------------------------------------------------
(* loadOrCreateSecretKey, for decryptPassword and for encryptPassword.     *)

StatKey ==
  /\ pc = "statKey"
  /\ pc' = IF MissingAtHome("key") THEN "create" ELSE "readKey"
  /\ mfile' = "key"
  /\ UNCHANGED <<disk, goal, mem, want, seal, readOnly>>

\* decryptPassword with key k: a secret sealed with another one is cleared.
Opened(k) ==
  /\ goal = "load" /\ pc' = "ready" /\ seal' = seal
  /\ mem' = [from |-> home.config.from, secret |-> home.config.seal = k]

\* encryptPassword.
Sealed(k) == goal = "save" /\ pc' = "rename" /\ seal' = k /\ mem' = mem

KeyIs(k) == Opened(k) \/ Sealed(k)

\* No key: decrypting clears the field, encrypting fails the save.
KeyFails ==
  /\ pc' = "ready" /\ seal' = seal
  /\ mem' = IF goal = "load" THEN [from |-> home.config.from, secret |-> FALSE] ELSE mem

ReadKey ==
  /\ pc = "readKey"
  /\ \/ home.key \in Keys /\ KeyIs(home.key)
     \/ home.key # Absent /\ (home.key = Torn \/ IOErrors) /\ KeyFails
     \/ home.key = Absent /\ pc' = "generate" /\ UNCHANGED <<seal, mem>>
  /\ UNCHANGED <<disk, mfile, goal, want, readOnly>>

\* MkdirAll; os.WriteFile creates the file and then fills it.
Generate ==
  /\ pc = "generate"
  /\ \/ /\ dataDir' = TRUE /\ home' = [home EXCEPT !.key = Torn]
        /\ pc' = "fill" /\ UNCHANGED <<mem, seal>>
     \/ IOErrors /\ dataDir' \in {dataDir, TRUE} /\ home' = home /\ KeyFails
  /\ UNCHANGED <<legacy, mfile, goal, want, readOnly>>

Fill ==
  /\ pc = "fill"
  /\ \/ home' = [home EXCEPT !.key = "fresh"] /\ KeyIs("fresh")
     \/ IOErrors /\ home' = home /\ KeyFails
  /\ UNCHANGED <<legacy, dataDir, mfile, goal, want, readOnly>>

-----------------------------------------------------------------------------
(* Save.                                                                   *)

\* Mutant: the read-only protection is not asked.
SaveAnyway(typed) ==
  LET w == [mem EXCEPT !.secret = @ \/ typed] IN
  /\ pc = "ready"
  /\ want' = w /\ goal' = "save" /\ seal' = "none"
  /\ pc' = IF w.secret THEN "statKey" ELSE "rename"
  /\ UNCHANGED <<disk, mfile, mem, readOnly>>

\* The user saves, having typed a secret or left the field as it was; an empty
\* field keeps the stored one.  Refused under read-only protection.
Save(typed) ==
  LET w == [mem EXCEPT !.secret = @ \/ typed] IN
  /\ pc = "ready" /\ ~readOnly
  /\ want' = w /\ goal' = "save" /\ seal' = "none"
  /\ pc' = IF w.secret THEN "statKey" ELSE "rename"
  /\ UNCHANGED <<disk, mfile, mem, readOnly>>

\* SaveConfig has written and synced a temporary file: it is renamed.
Rename ==
  /\ pc = "rename"
  /\ home' = [home EXCEPT !.config = [from |-> want.from, seal |-> seal]]
  /\ mem' = want /\ pc' = "ready"
  /\ UNCHANGED <<legacy, dataDir, mfile, goal, want, seal, readOnly>>

\* It could not: the caller restores the state before (RestoreAppState).
SaveFails ==
  /\ pc = "rename" /\ IOErrors
  /\ pc' = "ready"
  /\ UNCHANGED <<disk, mfile, goal, mem, want, seal, readOnly>>

StoreStep ==
  \/ StatConfig \/ MigrateCreate \/ MigrateCopy \/ MigrateRemove
  \/ LoadNothing \/ LoadFails \/ LoadPlain \/ LoadSealed
  \/ StatKey \/ ReadKey \/ Generate \/ Fill \/ Rename \/ SaveFails

Die == pc # "off" /\ Off /\ UNCHANGED disk

StoreNext == Launch \/ StoreStep \/ (\E typed \in BOOLEAN : Save(typed)) \/ Die

StoreSpec == StoreInit /\ [][StoreNext]_storeVars

-----------------------------------------------------------------------------

\* The configuration the user had is never destroyed: nothing half-loaded takes its
\* place, and whenever the file at home is not the user's, because migrateFile was
\* cut short or because the defaults were saved after it could not create the file,
\* the copy beside the executable is still complete.  (That copy is then out of
\* use: configFile looks for it only while there is no file at home.)
\* (paths.go:117, main.go:113, config.go:144)
NothingLost ==
  /\ home.config \in Config => home.config.from # "half"
  /\ home.config = Torn \/ (home.config \in Config /\ home.config.from = "defaults")
       => legacy.config \in Config

\* Whatever step the process dies at, the key of every sealed secret is complete
\* in one of its places (crypto.go:63, paths.go:122).
SealHasKey ==
  \A c \in {home.config, legacy.config} :
    c \in Config /\ c.seal \in Keys => c.seal \in {home.key, legacy.key}

\* Where no file operation fails, a stored secret is there after a load unless the
\* key file itself was cut short: an early user keeps the password, because the key
\* is migrated too and no fresh one takes its place (crypto.go:32).
SecretIsRead ==
  /\ pc = "ready" /\ home.config \in Config
  /\ home.config.seal # "none" /\ home.key # Torn
  => mem.secret
=============================================================================
