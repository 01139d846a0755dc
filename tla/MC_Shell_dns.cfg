\* Keys enough for the command that the page of halden.os recommends.
CONSTANTS
    Char <- SomePieces
    Directories = {"dns"}
    Files = {}
    ProcFiles = {}
    Pages = {"halden.html"}
    Reports <- SomeReports
    MaxText = 14
    MaxLine = 4
    Keys = {"ls", " ", "/", "dns"}
    Prompt <- ShortPrompt
SPECIFICATION Spec
PROPERTY PagesListed
