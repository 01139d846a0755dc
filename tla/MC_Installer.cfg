\* Two Linux slots with three processes in all, one package slot, a list of two
\* programs on a screen on which the second one takes the terminal's entry away, as
\* the sixteenth does on 768 lines.
CONSTANTS
    MaxPorts = 2
    FirstPid = 20
    MaxMappings = 3
    MaxLibs = 3
    default_paths <- TwoPaths
    default_libs <- TwoLibs
    Paths <- SomePaths
    Mappings <- SomeMappings
    MaxPid = 23
    fb_height = 208
    MaxApps = 2
    Names <- SomeNames
    NameSize = 2
    MaxPackages = 1
    SignatureValid <- AlwaysValid
    MaxUptime = 0
    FirstPackagePid = 19
    MaxPackagePid = 21
SPECIFICATION InstallerSpec
INVARIANTS TypeOK MarkExact InstalledIsListed MappingsAreOwn PsNamesOneProcess
           TerminalReachable
PROPERTIES TranslationStable
