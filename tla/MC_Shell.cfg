\* Keys enough for cd, cd dev, cd .. and for a command nobody knows.
CONSTANTS
    Char <- SomePieces
    Directories = {"dev"}
    Files = {"tty0"}
    ProcFiles = {}
    Pages = {}
    Reports <- SomeReports
    MaxText = 11
    MaxLine = 3
    Keys = {"cd", " ", "dev"}
    Prompt <- ShortPrompt
SPECIFICATION Spec
INVARIANTS ShellTypeOK EnterRunsWhatIsShown
