------------------------------ MODULE HLFSBoot ------------------------------
(***************************************************************************)
(* The tree init_hlfs builds, slot by slot (hlfs/fs.cpp).  The text of a   *)
(* file is abstracted to one value.                                        *)
(***************************************************************************)
EXTENDS Integers, Sequences

CONSTANTS Text, Empty

\* Consecutive create_node calls for nodes of one type in one directory.
Nodes(type, parent, dir, names) ==
    [k \in 1..Len(names) |->
        [path |-> dir \o <<names[k]>>, name |-> <<names[k]>>, type |-> type,
         data |-> IF type \in {"FILE_REGULAR", "FILE_SOURCE"} THEN Text ELSE Empty,
         parent |-> parent]]

Dirs(parent, dir, names) == Nodes("FILE_DIRECTORY", parent, dir, names)
Files(parent, dir, names) == Nodes("FILE_REGULAR", parent, dir, names)
Sources(parent, dir, names) == Nodes("FILE_SOURCE", parent, dir, names)

Root == <<[path |-> <<>>, name |-> <<>>, type |-> "FILE_DIRECTORY",
           data |-> Empty, parent |-> -1]>>

\* Slots 0 to 49.
SystemTree ==
    Root
    \o Dirs(0, <<>>, <<"bin", "boot", "dev", "etc", "home", "lib", "mnt",
            "opt", "proc", "root", "run", "srv", "sys", "tmp", "usr", "var",
            "dns", "hlfs", "halden">>)
    \o Files(1, <<"bin">>, <<"bash", "ls", "cat", "echo", "grep", "ps", "kill">>)
    \o Nodes("FILE_DEVICE", 3, <<"dev">>, <<"tty0", "tty1", "sda", "sda1",
            "null", "zero", "random", "urandom">>)
    \o Files(4, <<"etc">>, <<"passwd", "shadow", "group", "hostname",
            "os-release", "fstab", "hosts", "resolv.conf", "profile", "bashrc",
            "issue", "motd">>)
    \o Files(2, <<"boot">>, <<"haldenos.elf", "limine.cfg", "grub.cfg">>)

\* Slots 50 to 66.
StateTree ==
    Dirs(9, <<"proc">>, <<"sys">>)
    \o Files(9, <<"proc">>, <<"cpuinfo", "meminfo", "uptime", "version", "mounts">>)
    \o Files(50, <<"proc", "sys">>, <<"kernel.hostname">>)
    \o Dirs(16, <<"var">>, <<"log", "tmp">>)
    \o Files(57, <<"var", "log">>, <<"syslog", "boot.log">>)
    \o Dirs(5, <<"home">>, <<"halden">>)
    \o Files(61, <<"home", "halden">>, <<".bashrc", ".profile", "README.txt">>)
    \o Files(10, <<"root">>, <<".bashrc", "README.txt">>)

\* Slots 67 to 95.  /hlfs/src/hlfs/fs.cpp names the system directory as its
\* parent and lies in a directory nothing creates.
SourceTree ==
    Dirs(18, <<"hlfs">>, <<"src">>)
    \o Dirs(67, <<"hlfs", "src">>, <<"system", "apps", "hlpkg", "port">>)
    \o Sources(67, <<"hlfs", "src">>, <<"kernel.cpp">>)
    \o Sources(68, <<"hlfs", "src", "system">>, <<"terminal.cpp",
               "commands.cpp", "network.cpp", "applications.cpp">>)
    \o Sources(68, <<"hlfs", "src", "hlfs">>, <<"fs.cpp">>)
    \o Sources(69, <<"hlfs", "src", "apps">>, <<"browser.cpp", "terminal.cpp",
               "filemanager.cpp">>)
    \o Sources(70, <<"hlfs", "src", "hlpkg">>, <<"hlpkg.cpp">>)
    \o Sources(71, <<"hlfs", "src", "port">>, <<"port.cpp">>)
    \o Dirs(19, <<"halden">>, <<"lib", "bin", "etc", "usr">>)
    \o Files(83, <<"halden", "lib">>, <<"halden_libc.so", "halden_libm.so",
             "halden_pthread.so", "halden_x11.so", "halden_gl.so">>)
    \o Files(19, <<"halden">>, <<"README.md">>)
    \o Files(18, <<"hlfs">>, <<"README.md", "Makefile", "linker.ld">>)

Tree == SystemTree \o StateTree \o SourceTree
=============================================================================
