\* The signature test as it is, for the first five minutes of uptime.
CONSTANTS
    MaxPackages = 2
    FirstPid = 10
    SignatureValid <- verify_signature
    MaxUptime = 300
    MaxPid = 12
SPECIFICATION Spec
PROPERTY InstallWorks
