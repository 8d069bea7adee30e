SPECIFICATION EditorSpec
CONSTANTS
    Codes <- LetterSpaceXCaret
    Lists <- Words
    MaxLen = 3
    MaxHistory = 2
    MaxHeld = 4
INVARIANTS
    KillsComeBack
    TabsReplace
    NoEmptyHistory
