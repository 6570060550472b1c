SPECIFICATION Spec
CONSTANTS
    Slots = 3
    MaxLen = 2
    Chars <- MCChars
    Blank = " "
    MaxLines = 4
INVARIANTS TypeOK HistoryKept BrowsesWhatRan
PROPERTIES RunsWhatIsShown
