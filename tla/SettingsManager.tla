--------------------------- MODULE SettingsManager ---------------------------
(***************************************************************************)
(* The settings: config.Manager (internal/config/manager.go), the rules of *)
(* ApplyPatch and Validate (settings.go), the start of the program with    *)
(* its command line (app.go, cmd/scdn-io-proxy/main.go) and the requests   *)
(* that change settings (handleSettings in internal/admin/server.go).      *)
(*                                                                         *)
(* The settings live twice, as the row of the table `settings` and as the  *)
(* value every goroutine reads.  Update changes first one, then the other, *)
(* under a mutex; the process can die anywhere in between.                 *)
(*                                                                         *)
(* `interval` stands for the fields Validate keeps in a range and          *)
(* ApplyPatch always takes.  A text is Blank or one of a few values.       *)
(***************************************************************************)
EXTENDS Naturals

CONSTANTS Texts,    \* the values of text fields, Blank among them
          Patches,  \* bound: the patches of requests and command lines
          Main,     \* the goroutine of main
          Admins,   \* requests to POST /api/settings
          Absent    \* no row in the table, no settings in memory

Callers  == {Main} \cup Admins
NoCaller == "none"

Blank  == ""
Fields == {"key", "interval", "proxyUser", "proxyPass", "adminUser", "adminPass"}

Settings == [key : Texts, interval : Nat, proxyUser : Texts, proxyPass : Texts,
             adminUser : Texts, adminPass : Texts]

\* A SettingsPatch has some of the fields: DOMAIN p are the pointers not nil.
FieldValues(f) == IF f = "interval" THEN Nat ELSE Texts

ASSUME SettingsAssumption ==
    /\ {Blank, "proxy"} \subseteq Texts
    /\ Main \notin Admins
    /\ NoCaller \notin Callers
    /\ Absent \notin Settings
    /\ \A p \in Patches : /\ DOMAIN p \subseteq Fields
                          /\ \A f \in DOMAIN p : p[f] \in FieldValues(f)

DefaultSettings ==
    [key |-> Blank, interval |-> 60, proxyUser |-> "proxy", proxyPass |-> "proxy",
     adminUser |-> Blank, adminPass |-> Blank]

Valid(s) == /\ s.interval >= 1
            /\ s.proxyUser # Blank
            /\ s.proxyPass # Blank

\* Without the rule for the API key.
KeptWhenBlankNoKey == {"proxyUser", "proxyPass", "adminPass"}

\* A blank value in one of these fields of a patch means "leave it".
KeptWhenBlank == {"key", "proxyUser", "proxyPass", "adminPass"}

ApplyPatch(s, p) ==
    [f \in Fields |-> IF f \in DOMAIN p /\ (f \in KeptWhenBlank => p[f] # Blank)
                      THEN p[f] ELSE s[f]]

\* ParseAppConfig: the flags given on the command line on top of the defaults.
\* The same flags are also the patch `overrides`.
InitialSettings(flags) ==
    [f \in Fields |-> IF f \in DOMAIN flags THEN flags[f] ELSE DefaultSettings[f]]

\* The account of the admin pages.
AdminCreds(s) == IF s.adminUser = Blank
                 THEN [user |-> s.proxyUser, pass |-> s.proxyPass]
                 ELSE [user |-> s.adminUser, pass |-> s.adminPass]

VARIABLES phase,  \* main: "down", "starting", "overriding" or "serving"
          flags,  \* its command line
          disk,   \* the row of the table `settings`
          mem,    \* Manager.v
          mu,     \* the caller that holds Manager.mu, or NoCaller
          call,   \* call[c]: how far c is in a call of Update
          patch,  \* patch[c]: the argument of the call
          next,   \* next[c]: the settings the call has computed
          doubt   \* an Update failed and SQLite may have written nonetheless

requestVars  == <<mu, call, patch, next>>
settingsVars == <<phase, flags, disk, mem, requestVars, doubt>>

NoPatch  == [f \in {} |-> Blank]

SettingsTypeOK == /\ phase \in {"down", "starting", "overriding", "serving"}
                  /\ flags \in Patches \cup {NoPatch}
                  /\ disk \in Settings \cup {Absent}
                  /\ mem \in Settings \cup {Absent}
                  /\ mu \in Callers \cup {NoCaller}
                  /\ call \in [Callers -> {"out", "waiting", "checked", "persisted"}]
                  /\ patch \in [Callers -> Patches \cup {NoPatch}]
                  /\ next \in [Callers -> Settings \cup {Absent}]
                  /\ doubt \in BOOLEAN

SettingsInit == /\ phase = "down"
                /\ flags = NoPatch
                /\ disk = Absent
                /\ mem = Absent
                /\ mu = NoCaller
                /\ call = [c \in Callers |-> "out"]
                /\ patch = [c \in Callers |-> NoPatch]
                /\ next = [c \in Callers |-> Absent]
                /\ doubt = FALSE

-----------------------------------------------------------------------------
(***************************************************************************)
(* The start of the program                                                *)
(***************************************************************************)
Start(given) == /\ phase = "down"
                /\ phase' = "starting"
                /\ flags' = given
                /\ UNCHANGED <<disk, mem, requestVars, doubt>>

CallUpdate(c, p) == /\ call[c] = "out"
                    /\ call' = [call EXCEPT ![c] = "waiting"]
                    /\ patch' = [patch EXCEPT ![c] = p]
                    /\ UNCHANGED <<mu, next>>

\* NewManager loads the row, or writes the first one; main goes on to apply
\* the flags to it, if any were given.
NewManager ==
    /\ phase = "starting"
    /\ Valid(InitialSettings(flags))
    /\ disk # Absent => Valid(disk)
    /\ disk' = IF disk = Absent THEN InitialSettings(flags) ELSE disk
    /\ mem' = disk'
    /\ \/ /\ DOMAIN flags = {}
          /\ phase' = "serving"
          /\ UNCHANGED requestVars
       \/ /\ DOMAIN flags # {}
          /\ phase' = "overriding"
          /\ CallUpdate(Main, flags)
    /\ UNCHANGED <<flags, doubt>>

\* The process ends: a crash, a signal, or an os.Exit of main.  The table stays.
Down == /\ phase' = "down"
        /\ flags' = NoPatch
        /\ mem' = Absent
        /\ mu' = NoCaller
        /\ call' = [c \in Callers |-> "out"]
        /\ patch' = [c \in Callers |-> NoPatch]
        /\ next' = [c \in Callers |-> Absent]
        /\ doubt' = FALSE

Die == phase # "down" /\ Down /\ UNCHANGED disk

-----------------------------------------------------------------------------
(***************************************************************************)
(* Manager.Update                                                          *)
(***************************************************************************)
PostSettings(a) == /\ phase = "serving"
                   /\ \E p \in Patches : CallUpdate(a, p)
                   /\ UNCHANGED <<phase, flags, disk, mem, doubt>>

\* Three faulty ways into Update: without the mutex, without Validate, and with
\* the patch itself where the patched settings belong.
CheckPatchUnlocked(c) ==
    /\ call[c] = "waiting"
    /\ Valid(ApplyPatch(mem, patch[c]))
    /\ mu' = c
    /\ next' = [next EXCEPT ![c] = ApplyPatch(mem, patch[c])]
    /\ call' = [call EXCEPT ![c] = "checked"]
    /\ UNCHANGED <<phase, flags, disk, mem, patch, doubt>>

CheckPatchAny(c) ==
    /\ call[c] = "waiting"
    /\ mu = NoCaller
    /\ mu' = c
    /\ next' = [next EXCEPT ![c] = ApplyPatch(mem, patch[c])]
    /\ call' = [call EXCEPT ![c] = "checked"]
    /\ UNCHANGED <<phase, flags, disk, mem, patch, doubt>>

CheckPatchAlone(c) ==
    /\ call[c] = "waiting"
    /\ mu = NoCaller
    /\ Valid(ApplyPatch(mem, patch[c]))
    /\ mu' = c
    /\ next' = [next EXCEPT ![c] = patch[c]]
    /\ call' = [call EXCEPT ![c] = "checked"]
    /\ UNCHANGED <<phase, flags, disk, mem, patch, doubt>>

\* m.mu.Lock, ApplyPatch and Validate: the patch is good.
CheckPatch(c) ==
    /\ call[c] = "waiting"
    /\ mu = NoCaller
    /\ Valid(ApplyPatch(mem, patch[c]))
    /\ mu' = c
    /\ next' = [next EXCEPT ![c] = ApplyPatch(mem, patch[c])]
    /\ call' = [call EXCEPT ![c] = "checked"]
    /\ UNCHANGED <<phase, flags, disk, mem, patch, doubt>>

\* Update returns: mu is free again.
ReturnUpdate(c) == /\ mu' = NoCaller
                   /\ call' = [call EXCEPT ![c] = "out"]
                   /\ patch' = [patch EXCEPT ![c] = NoPatch]
                   /\ next' = [next EXCEPT ![c] = Absent]

\* A rejection that forgets the mutex.
RejectPatchLocked(c) ==
    /\ call[c] = "waiting"
    /\ mu = NoCaller
    /\ ~ Valid(ApplyPatch(mem, patch[c]))
    /\ mu' = c
    /\ call' = [call EXCEPT ![c] = "out"]
    /\ UNCHANGED <<phase, flags, disk, mem, patch, next, doubt>>

\* The patch is not good: Update returns the error, main gives up.
RejectPatch(c) ==
    /\ call[c] = "waiting"
    /\ mu = NoCaller
    /\ ~ Valid(ApplyPatch(mem, patch[c]))
    /\ \/ /\ c # Main
          /\ ReturnUpdate(c)
          /\ UNCHANGED <<phase, flags, mem, doubt>>
       \/ c = Main /\ Down
    /\ UNCHANGED disk

\* An update that reaches only the memory.
PersistNothing(c) == /\ call[c] = "checked"
                     /\ call' = [call EXCEPT ![c] = "persisted"]
                     /\ UNCHANGED <<phase, flags, disk, mem, mu, patch, next, doubt>>

\* UpsertSettingsJSON.
PersistNext(c) == /\ call[c] = "checked"
                  /\ disk' = next[c]
                  /\ call' = [call EXCEPT ![c] = "persisted"]
                  /\ UNCHANGED <<phase, flags, mem, mu, patch, next, doubt>>

\* UpsertSettingsJSON answers an error, of SQLite or of a context that ended
\* while the statement ran; the row may have been written all the same.
PersistFails(c) ==
    /\ call[c] = "checked"
    /\ disk' \in {disk, next[c]}
    /\ \/ /\ c # Main
          /\ ReturnUpdate(c)
          /\ doubt' = TRUE
          /\ UNCHANGED <<phase, flags, mem>>
       \/ c = Main /\ Down

\* m.v.Store: the new settings are in force and Update returns them.
StoreNext(c) ==
    /\ call[c] = "persisted"
    /\ mem' = next[c]
    /\ ReturnUpdate(c)
    /\ doubt' = FALSE
    /\ phase' = "serving"
    /\ UNCHANGED <<flags, disk>>

-----------------------------------------------------------------------------
UpdateStep(c) == \/ CheckPatch(c)
                 \/ RejectPatch(c)
                 \/ PersistNext(c)
                 \/ PersistFails(c)
                 \/ StoreNext(c)

SettingsNext == \/ \E given \in Patches \cup {NoPatch} : Start(given)
                \/ NewManager
                \/ Die
                \/ \E a \in Admins : PostSettings(a)
                \/ \E c \in Callers : UpdateStep(c)

SettingsSpec == SettingsInit /\ [][SettingsNext]_settingsVars

\* A statement returns and sync.Mutex lets every waiter in.
SettingsFairSpec ==
    /\ SettingsSpec
    /\ \A c \in Callers : SF_settingsVars(UpdateStep(c))

-----------------------------------------------------------------------------
(***************************************************************************)
(* Properties                                                              *)
(***************************************************************************)

\* The settings in force and the row on disk pass Validate, after whatever
\* patches, failures and restarts; otherwise the goroutines would run on them
\* and the next start would end in NewManager's error (manager.go:39).
SettingsStayValid == /\ disk # Absent => Valid(disk)
                     /\ mem # Absent => Valid(mem)

\* A change of the settings in force: one caller's patch on top of them.
OneUpdate == mem # Absent /\ mem' \notin {mem, Absent}
                 => \E c \in Callers : mem' = ApplyPatch(mem, patch[c])

\* No update is lost: every change of the settings in force is one caller's
\* patch applied to the settings in force at that moment, not to older ones
\* (manager.go:70-75).
NoLostUpdate == [][OneUpdate]_settingsVars

\* What a successful Update returned is on disk, and what is on disk is in
\* force, whenever no Update is under way and none has failed since: a crash at
\* such a moment loses nothing of it (manager.go:83-86).  The flags of the next
\* start are applied to what it finds.
InForceIsDurable ==
    phase = "serving" /\ mu = NoCaller /\ ~ doubt => mem = disk

KeyKept == /\ disk # Absent /\ disk.key # Blank
           /\ mem # Absent => mem.key # Blank
           => /\ disk'.key # Blank
              /\ mem' # Absent => mem'.key # Blank

\* An API key in force is never lost to a blank field of a form or a flag, and
\* neither failures nor restarts lose it (settings.go:153).
KeyNeverCleared == [][KeyKept]_settingsVars

\* Every call of Update returns: no path keeps the mutex (manager.go:70-71).
UpdatesReturn == \A c \in Callers : call[c] # "out" ~> call[c] = "out"

\* Once there are settings in the database, a start of the program leaves the
\* API key to them, whatever its command line says (internal/config/app.go:22).
DatabaseKeyWins ==
    [][phase # "serving" /\ disk # Absent => disk'.key = disk.key]_settingsVars

\* With no admin password of its own the admin account has the password of the
\* proxy (internal/config/app.go:35).
AdminPassFallsBack ==
    mem # Absent /\ mem.adminPass = Blank => AdminCreds(mem).pass = mem.proxyPass

=============================================================================
