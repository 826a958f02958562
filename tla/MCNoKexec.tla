------------------------------ MODULE MCNoKexec ------------------------------
\* NoKexec on two primary images, two ROMs and at most MaxFaults faults.
EXTENDS NoKexec, TLC

\* Images are only compared, so permuting them changes nothing.
Symmetry == Permutations(Primaries) \cup Permutations(Roms)
=============================================================================
