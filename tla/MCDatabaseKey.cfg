CONSTANTS
    Texts <- MCTexts
    Patches <- MCPatches
    Main = Main
    Admins = {a1}
    Absent = Absent
SPECIFICATION SettingsSpec
PROPERTIES
    DatabaseKeyWins
