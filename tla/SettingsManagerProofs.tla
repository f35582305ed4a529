------------------------ MODULE SettingsManagerProofs ------------------------
(***************************************************************************)
(* Theorems about SettingsManager, for all texts, patches and requests.    *)
(* The inductive invariant adds to the properties what the mutex achieves: *)
(* the caller that holds it has computed its next settings from the ones   *)
(* that are still in force, and only it can be ahead of them on disk.      *)
(***************************************************************************)
EXTENDS SettingsManager, TLAPS

\* There are settings in memory exactly while the manager exists, on disk
\* before in memory, and no call of Update without a manager.
Phases == /\ mem # Absent <=> phase \in {"overriding", "serving"}
          /\ mem # Absent => disk # Absent
          /\ \A c \in Callers : call[c] # "out" => mem # Absent

\* Past Validate a caller holds the mutex and its settings are up to date.
Holder == \A c \in Callers : call[c] \in {"checked", "persisted"} =>
              /\ mu = c
              /\ next[c] = ApplyPatch(mem, patch[c])
              /\ Valid(next[c])

\* Disk and memory agree but for the caller between its two writes.
Synced == /\ \A c \in Callers : call[c] = "persisted" => disk = next[c]
          /\ mem # Absent /\ ~ doubt /\ (\A c \in Callers : call[c] # "persisted")
                 => disk = mem

IInv == SettingsTypeOK /\ SettingsStayValid /\ Phases /\ Holder /\ Synced

-----------------------------------------------------------------------------
(***************************************************************************)
(* Patches and defaults                                                    *)
(***************************************************************************)

\* Settings with a patch on top of them are settings.
LEMMA ApplyPatchType ==
    ASSUME NEW s \in Settings, NEW p \in Patches \cup {NoPatch}
    PROVE  ApplyPatch(s, p) \in Settings
  BY SettingsAssumption DEF Settings, Fields, FieldValues, ApplyPatch, NoPatch

\* The defaults with the flags on top of them are settings.
LEMMA InitialSettingsType ==
    ASSUME NEW p \in Patches \cup {NoPatch}
    PROVE  InitialSettings(p) \in Settings
<1>1. DefaultSettings \in Settings
    BY SettingsAssumption DEF Settings, DefaultSettings, Blank
<1> QED
    BY <1>1, SettingsAssumption DEF Settings, Fields, FieldValues, InitialSettings, NoPatch

\* No patch clears the API key.
LEMMA PatchKeepsKey ==
    ASSUME NEW s \in Settings, NEW p, s.key # Blank
    PROVE  ApplyPatch(s, p).key # Blank
  BY DEF Settings, Fields, ApplyPatch, KeptWhenBlank

-----------------------------------------------------------------------------
(***************************************************************************)
(* The inductive invariant                                                 *)
(***************************************************************************)

\* The state before the first start.
LEMMA InitIInv == SettingsInit => IInv
<1> SUFFICES ASSUME SettingsInit PROVE IInv
    OBVIOUS
<1> USE DEF SettingsInit
<1>1. doubt \in BOOLEAN
    OBVIOUS
<1>2. SettingsTypeOK
    BY <1>1 DEF SettingsTypeOK
<1>3. SettingsStayValid /\ Phases /\ Holder /\ Synced
    BY DEF SettingsStayValid, Phases, Holder, Synced
<1> QED
    BY <1>2, <1>3 DEF IInv

\* Whenever the process ends, what remains is the row of the table.
LEMMA DownIInv ==
    ASSUME IInv, Down, disk' \in Settings \cup {Absent}, disk' # Absent => Valid(disk')
    PROVE  IInv'
<1> USE DEF Down
<1>1. doubt' \in BOOLEAN
    OBVIOUS
<1>2. SettingsTypeOK'
    BY <1>1 DEF IInv, SettingsTypeOK
<1>3. (SettingsStayValid /\ Phases /\ Holder /\ Synced)'
    BY DEF SettingsStayValid, Phases, Holder, Synced
<1> QED
    BY <1>2, <1>3 DEF IInv

\* A start that reaches the end of NewManager.
LEMMA NewManagerIInv == ASSUME IInv, NewManager PROVE IInv'
<1> USE DEF IInv
<1>1. disk' \in Settings /\ mem' = disk' /\ Valid(disk') /\ disk' # Absent /\ mem = Absent
    BY InitialSettingsType, SettingsAssumption
       DEF NewManager, SettingsTypeOK, Phases
<1>2. \A c \in Callers : call[c] = "out"
    BY <1>1 DEF Phases
<1>3. CASE UNCHANGED requestVars /\ phase' = "serving"
    <2>1. SettingsTypeOK'
        BY <1>1, <1>3 DEF NewManager, requestVars, SettingsTypeOK
    <2>2. (SettingsStayValid /\ Phases /\ Holder /\ Synced)'
        BY <1>1, <1>2, <1>3
           DEF requestVars, SettingsStayValid, Phases, Holder, Synced
    <2> QED
        BY <2>1, <2>2
<1>4. CASE CallUpdate(Main, flags) /\ phase' = "overriding"
    <2>1. call' = [call EXCEPT ![Main] = "waiting"] /\ UNCHANGED <<mu, next>>
        BY <1>4 DEF CallUpdate
    <2>2. SettingsTypeOK'
        BY <1>1, <1>4 DEF NewManager, CallUpdate, SettingsTypeOK
    <2>3. (SettingsStayValid /\ Phases /\ Holder /\ Synced)'
        BY <1>1, <1>2, <1>4, <2>1
           DEF SettingsTypeOK, SettingsStayValid, Phases, Holder, Synced
    <2> QED
        BY <2>2, <2>3
<1> QED
    BY <1>3, <1>4 DEF NewManager

\* One caller of Update takes a step.
LEMMA UpdateIInv == ASSUME IInv, NEW c \in Callers, UpdateStep(c) PROVE IInv'
<1> USE DEF IInv
<1>1. CASE CheckPatch(c)
    <2>1. mem \in Settings /\ next'[c] = ApplyPatch(mem, patch[c])
        BY <1>1 DEF CheckPatch, Phases, SettingsTypeOK
    <2>2. SettingsTypeOK'
        BY <1>1, <2>1, ApplyPatchType DEF CheckPatch, SettingsTypeOK
    <2>3. \A d \in Callers : call[d] \notin {"checked", "persisted"}
        BY <1>1, SettingsAssumption DEF CheckPatch, Holder
    <2>4. (SettingsStayValid /\ Phases /\ Holder /\ Synced)'
        BY <1>1, <2>1, <2>3
           DEF CheckPatch, SettingsTypeOK, SettingsStayValid, Phases, Holder, Synced
    <2> QED
        BY <2>2, <2>4
\* An admin's call that ends with an error, whatever that left on disk.
<1>2. ASSUME ReturnUpdate(c), c # Main, UNCHANGED <<phase, flags, mem>>,
             disk' \in {disk, next[c]}, mu \in {NoCaller, c},
             disk' # disk => call[c] = "checked",
             call[c] \in {"waiting", "checked"},
             doubt' \in BOOLEAN, (doubt' = doubt /\ disk' = disk) \/ doubt'
      PROVE  IInv'
    <2>1. \A d \in Callers : call[d] \in {"checked", "persisted"} => d = c
        BY <1>2, SettingsAssumption DEF Holder
    <2>2. disk' \in Settings \cup {Absent} /\ (disk' # Absent => Valid(disk'))
        BY <1>2 DEF Holder, SettingsTypeOK, SettingsStayValid
    <2>3. mem # Absent => disk' # Absent
        BY <1>2, ApplyPatchType, SettingsAssumption DEF Holder, Phases, SettingsTypeOK
    <2>4. SettingsTypeOK'
        BY <1>2, <2>2 DEF ReturnUpdate, SettingsTypeOK
    <2>5. (SettingsStayValid /\ Phases /\ Holder)'
        BY <1>2, <2>1, <2>2, <2>3
           DEF ReturnUpdate, SettingsTypeOK, SettingsStayValid, Phases, Holder
    <2>6. Synced'
        BY <1>2, <2>1 DEF ReturnUpdate, SettingsTypeOK, Synced
    <2> QED
        BY <2>4, <2>5, <2>6
<1>3. CASE RejectPatch(c)
    <2>1. doubt' \in BOOLEAN
        BY <1>3 DEF RejectPatch, Down, SettingsTypeOK
    <2> QED
        BY <1>2, <1>3, <2>1, DownIInv DEF RejectPatch, SettingsTypeOK, SettingsStayValid
<1>4. CASE PersistNext(c)
    <2>1. \A d \in Callers : call[d] \in {"checked", "persisted"} => d = c
        BY <1>4 DEF PersistNext, Holder
    <2>2. next[c] \in Settings /\ Valid(next[c])
        BY <1>4, ApplyPatchType DEF PersistNext, Phases, Holder, SettingsTypeOK
    <2>3. SettingsTypeOK'
        BY <1>4, <2>2 DEF PersistNext, SettingsTypeOK
    <2>4. (SettingsStayValid /\ Phases /\ Holder)'
        BY <1>4, <2>1, <2>2, SettingsAssumption
           DEF PersistNext, SettingsTypeOK, SettingsStayValid, Phases, Holder
    <2>5. Synced'
        BY <1>4, <2>1 DEF PersistNext, SettingsTypeOK, Synced
    <2> QED
        BY <2>3, <2>4, <2>5
<1>5. CASE PersistFails(c)
    <2>1. mu = c /\ next[c] \in Settings \cup {Absent} /\ Valid(next[c])
        BY <1>5 DEF PersistFails, Holder, SettingsTypeOK
    <2>2. CASE c # Main /\ ReturnUpdate(c) /\ doubt' = TRUE /\ UNCHANGED <<phase, flags, mem>>
        BY <1>2, <1>5, <2>1, <2>2 DEF PersistFails
    <2>3. CASE c = Main /\ Down
        BY <1>5, <2>1, <2>3, DownIInv DEF PersistFails, SettingsTypeOK, SettingsStayValid
    <2> QED
        BY <1>5, <2>2, <2>3 DEF PersistFails
<1>6. CASE StoreNext(c)
    <2>1. \A d \in Callers : call[d] \in {"checked", "persisted"} => d = c
        BY <1>6 DEF StoreNext, Holder
    <2>2. mem' \in Settings /\ Valid(mem') /\ mem' = next[c] /\ disk' = disk /\ disk = next[c]
        BY <1>6, ApplyPatchType DEF StoreNext, Phases, Holder, Synced, SettingsTypeOK
    <2>3. doubt' \in BOOLEAN
        BY <1>6 DEF StoreNext
    <2>4. SettingsTypeOK'
        BY <1>6, <2>2, <2>3 DEF StoreNext, ReturnUpdate, SettingsTypeOK
    <2>5. (SettingsStayValid /\ Phases /\ Holder /\ Synced)'
        BY <1>6, <2>1, <2>2, SettingsAssumption
           DEF StoreNext, ReturnUpdate, SettingsTypeOK, SettingsStayValid, Phases, Holder, Synced
    <2> QED
        BY <2>4, <2>5
<1> QED
    BY <1>1, <1>3, <1>4, <1>5, <1>6 DEF UpdateStep

\* Every step, and every stutter, keeps it.
LEMMA StepIInv == IInv /\ [SettingsNext]_settingsVars => IInv'
<1> SUFFICES ASSUME IInv, [SettingsNext]_settingsVars PROVE IInv'
    OBVIOUS
<1> USE DEF IInv
<1>1. ASSUME NEW given \in Patches \cup {NoPatch}, Start(given) PROVE IInv'
    <2>1. SettingsTypeOK'
        BY <1>1 DEF Start, requestVars, SettingsTypeOK
    <2>2. (SettingsStayValid /\ Phases /\ Holder /\ Synced)'
        BY <1>1 DEF Start, requestVars, SettingsTypeOK, SettingsStayValid, Phases, Holder, Synced
    <2> QED
        BY <2>1, <2>2
<1>2. CASE NewManager
    BY <1>2, NewManagerIInv
<1>3. CASE Die
    BY <1>3, DownIInv DEF Die, SettingsTypeOK, SettingsStayValid
<1>4. ASSUME NEW a \in Admins, PostSettings(a) PROVE IInv'
    <2>1. PICK p \in Patches : CallUpdate(a, p)
        BY <1>4 DEF PostSettings
    <2>2. SettingsTypeOK'
        BY <1>4, <2>1 DEF PostSettings, CallUpdate, SettingsTypeOK, Callers
    <2>3. (SettingsStayValid /\ Phases /\ Holder /\ Synced)'
        BY <1>4, <2>1 DEF PostSettings, CallUpdate, Callers, SettingsTypeOK, SettingsStayValid,
                          Phases, Holder, Synced
    <2> QED
        BY <2>2, <2>3
<1>5. ASSUME NEW c \in Callers, UpdateStep(c) PROVE IInv'
    BY <1>5, UpdateIInv
<1>6. CASE UNCHANGED settingsVars
    BY <1>6 DEF settingsVars, requestVars, SettingsTypeOK, SettingsStayValid, Phases, Holder, Synced
<1> QED
    BY <1>1, <1>2, <1>3, <1>4, <1>5, <1>6 DEF SettingsNext

\* The inductive invariant holds throughout.
THEOREM Invariance == SettingsSpec => []IInv
  BY InitIInv, StepIInv, PTL DEF SettingsSpec

\* The settings of memory, disk and callers keep their types.
THEOREM SettingsTypes == SettingsSpec => []SettingsTypeOK
<1>1. IInv => SettingsTypeOK
    BY DEF IInv
<1> QED
    BY <1>1, Invariance, PTL

\* Settings that are in force or on disk always pass Validate, so that a restart
\* never fails on what an earlier run has written (manager.go:39).
THEOREM ValidThroughout == SettingsSpec => []SettingsStayValid
<1>1. IInv => SettingsStayValid
    BY DEF IInv
<1> QED
    BY <1>1, Invariance, PTL

\* While no Update is under way and none has failed, disk and memory agree, so
\* the settings in force survive a crash (manager.go:83-86).
THEOREM Durability == SettingsSpec => []InForceIsDurable
<1>1. IInv => InForceIsDurable
    BY SettingsAssumption DEF IInv, InForceIsDurable, Phases, Holder, Synced
<1> QED
    BY <1>1, Invariance, PTL

\* Concurrent updates take effect one after the other, none overwrites another
\* with what it had read before (manager.go:70-75).
THEOREM UpdatesSerial == SettingsSpec => NoLostUpdate
<1>1. IInv /\ [SettingsNext]_settingsVars => [OneUpdate]_settingsVars
    <2> SUFFICES ASSUME IInv, SettingsNext, mem # Absent, mem' \notin {mem, Absent}
                 PROVE  \E c \in Callers : mem' = ApplyPatch(mem, patch[c])
        BY DEF OneUpdate
    <2>1. ASSUME NEW c \in Callers, UpdateStep(c)
          PROVE  StoreNext(c)
        BY <2>1 DEF UpdateStep, CheckPatch, RejectPatch, PersistNext, PersistFails, Down
    <2>2. \E c \in Callers : UpdateStep(c)
        BY DEF SettingsNext, Start, NewManager, Die, Down, PostSettings, IInv, Phases
    <2> QED
        BY <2>1, <2>2 DEF StoreNext, IInv, Holder
<1> QED
    BY <1>1, Invariance, PTL DEF SettingsSpec, NoLostUpdate

\* The API key in force stays set, through patches, flags, failures and restarts
\* (settings.go:152-157).
THEOREM KeyStays == SettingsSpec => KeyNeverCleared
<1>1. IInv /\ [SettingsNext]_settingsVars => [KeyKept]_settingsVars
    <2> SUFFICES ASSUME IInv, SettingsNext, disk # Absent, disk.key # Blank,
                        mem # Absent => mem.key # Blank
                 PROVE  disk'.key # Blank /\ (mem' # Absent => mem'.key # Blank)
        BY DEF KeyKept
    <2>1. CASE \E given \in Patches \cup {NoPatch} : Start(given)
        BY <2>1 DEF Start
    <2>2. CASE NewManager
        BY <2>2 DEF NewManager
    <2>3. CASE Die
        BY <2>3 DEF Die, Down
    <2>4. CASE \E a \in Admins : PostSettings(a)
        BY <2>4 DEF PostSettings
    <2>5. ASSUME NEW c \in Callers, UpdateStep(c)
          PROVE  disk'.key # Blank /\ (mem' # Absent => mem'.key # Blank)
        <3>1. call[c] \in {"checked", "persisted"} => next[c].key # Blank
            BY PatchKeepsKey DEF IInv, Holder, Phases, SettingsTypeOK
        <3> QED
            BY <2>5, <3>1
               DEF UpdateStep, CheckPatch, RejectPatch, PersistNext, PersistFails, StoreNext, Down
    <2> QED
        BY <2>1, <2>2, <2>3, <2>4, <2>5 DEF SettingsNext
<1> QED
    BY <1>1, Invariance, PTL DEF SettingsSpec, KeyNeverCleared

=============================================================================
