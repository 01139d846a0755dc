---------------------------- MODULE MC_Installer ----------------------------
(***************************************************************************)
(* A small instance of Installer for TLC: two of the nine default path     *)
(* mappings, one of which is a prefix of a path a caller maps, and two of  *)
(* the eight library names.                                                *)
(***************************************************************************)
EXTENDS Installer

TwoPaths == << << <<"/usr", "/lib">>, <<"/halden", "/usr", "/lib">> >>,
               << <<"/tmp">>, <<"/halden", "/tmp">> >> >>

TwoLibs == << << <<"libc.so.6">>, <<"halden_libc.so">> >>,
              << <<"libm.so.6">>, <<"halden_libm.so">> >> >>

\* Under a default, beside one, and a name that only begins like a default.
SomePaths == { <<"/usr", "/lib", "/x">>, <<"/opt", "/x">>, <<"/tmp", "x">>, <<"/usr">> }

\* A mapping that a default shadows, and one for a library.
SomeMappings == { << <<"/usr", "/lib", "/x">>, <<"/data">> >>,
                  << <<"libc.so.6">>, <<"mine.so">> >> }

\* The package's name, and one that does not fit.
SomeNames == { <<"sample_app">>, <<"long", "name">> }

\* A loader whose signature test passes at every uptime.
AlwaysValid(t) == TRUE
=============================================================================
