\* Two packages, two processes at a time, five in all.
CONSTANTS
    MaxPackages = 2
    FirstPid = 10
    SignatureValid <- AlwaysValid
    MaxUptime = 3
    MaxPid = 15
SPECIFICATION Spec
INVARIANTS BuffersOwned NoDanglingBinary
PROPERTY PidNeverReused
