------------------------------ MODULE MCFileSys ------------------------------
(* Instances of FileSys for TLC. *)
EXTENDS FileSys, TLC

CONSTANTS A, B, f, g, x, y

MCContent    == <<x>>
MCZeroRdonly == {"posix", "vita", "cellos", "psl1ght"}
MCWideSeek   == {"vita"}
Everywhere   == {"posix", "psp", "vita", "cellos", "psl1ght"}

\* The troubles system calls cope with, for cellos or for psl1ght, which makes the same
\* calls; stdio only with a protected file, where O_RDONLY is not 0, and with a far
\* offset, where there is fseeko.
Borne == ({"cellos"} \X {"disk full", "read only", "stat fails", "far rest"})
           \cup ({"psl1ght"} \X {"shared", "sized", "rest append"})
           \cup {<<"psp", "read only">>, <<"vita", "far rest">>}

\* What the theorems of FileSysProofs assume of an instance.
ASSUME Spared == Bearable /\ BuffersGranted

Symmetry == Permutations(Client) \cup Permutations(Path)

==============================================================================
