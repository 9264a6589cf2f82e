----------------------------- MODULE MCMountSync ----------------------------
(***************************************************************************)
(* Values for the constants of MountSync: three files of the mount that    *)
(* holds the working directory, in one case with a name that begins with   *)
(* the other's and a blank, or two and a file of another mount.            *)
(***************************************************************************)
EXTENDS MountSync

PlainOrder == <<"a", "b", "c">>
BlankOrder == <<"b", "a", "a b", "c">>
TwoMounts == <<"a", "b", "other">>
FirstMount == {"a", "b", "a b", "c"} \cap Paths
UpToBlank == [p \in Paths |-> IF p = "a b" THEN "a" ELSE p]
LineLengths == [p \in Paths |-> IF p = "a" THEN 2 ELSE 1]

=============================================================================
