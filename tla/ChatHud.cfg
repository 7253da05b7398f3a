SPECIFICATION ChatSpec
CONSTANTS
    MaxLines = 3
    MaxVisible = 2
    Lifetime = 1
    MaxPosts = 6
    MaxTime = 3
INVARIANTS
    LinesAreTheLatest
PROPERTIES
    FramesShowWhatIsNew
