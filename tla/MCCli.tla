--------------------------------- MODULE MCCli ---------------------------------
(* Sessions of CliDebugger with two cores.                                   *)
EXTENDS CliDebugger

\* Everything that resumes or stops the CPU, and with one-shot break points.
Resuming == {"cont", "cont_clocks", "next", "quit", "exit"}
Returning == {"cont", "return"}
\* Break points and debugged cores, changed while the CPU runs and stops.
Switching == {"cont", "core_on", "core_off", "break", "delete", "delete_all"}
Muting == {"cont", "core_all_on", "core_all_off"}
\* Steps and continues with changing debugged cores.
Stepping == {"cont", "next", "quit", "core_on", "core_off"}

\* Break points of the user with the one-shot ones of "return".
ReturnBreaks == {{"cont", "return", "break"}}

MCSessions == {Resuming, Returning, Switching, Muting, Stepping}
=============================================================================
