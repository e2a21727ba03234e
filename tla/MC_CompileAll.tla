-------------------------- MODULE MC_CompileAll --------------------------
(* Two TUs compiled in the order a, b by two threads; one header; two     *)
(* possible command lines.  The deps mode only matters when a gnu .d file *)
(* may be missing, so runs without that choice use one mode.               *)
EXTENDS CompileAll

CONSTANTS a, b, h, c1, c2

MCTUOrder == <<a, b>>
MCHeaders == {h}
MCCommands == {c1, c2}
MCDepsModes == {"gnu", "msvc"}
MCGnuOnly   == {"gnu"}
=============================================================================
