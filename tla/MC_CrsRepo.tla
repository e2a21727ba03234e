---------------------------- MODULE MC_CrsRepo ----------------------------
(* Three processes; three packages, one of them with pkg-version 0; two    *)
(* repository names.                                                      *)
EXTENDS CrsRepo, TLC

CONSTANTS q1, q2, q3, p1, p2, p0, n1, n2

MCProcs     == {q1, q2, q3}
MCOneProc   == {q1}
MCPkgs      == {p1, p2, p0}
MCInvalid   == {p0}
MCRepoNames == {n1, n2}
MCAllModes  == {"fail", "ignore", "replace"}
MCNoReplace == {"fail", "ignore"}
MCBothKinds == {"targz", "dir"}
MCTargz     == {"targz"}

(* The processes are interchangeable. *)
MCSymmetry == Permutations(MCProcs)
=============================================================================
