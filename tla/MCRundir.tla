------------------------------- MODULE MCRundir -------------------------------
EXTENDS Rundir

\* vfkit, firecracker, and firecracker on a golden snapshot.
AllRungs == [freezes : {TRUE}, restores : BOOLEAN] \cup [freezes : {FALSE}, restores : {FALSE}]

Firecracker == [freezes : {TRUE}, restores : {FALSE}]
=============================================================================
