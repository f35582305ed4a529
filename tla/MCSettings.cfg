CONSTANTS
    Texts <- MCTexts
    Patches <- MCPatches
    Main = Main
    Admins = {a1, a2}
    Absent = Absent
SPECIFICATION SettingsFairSpec
INVARIANTS
    SettingsTypeOK
    SettingsStayValid
    InForceIsDurable
PROPERTIES
    NoLostUpdate
    KeyNeverCleared
    UpdatesReturn
