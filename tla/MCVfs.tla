-------------------------------- MODULE MCVfs --------------------------------
(* Constant values for the runs of Vfs.                                    *)
EXTENDS Vfs

BootMountPoints == <<"/", "/home", "/tmp">>
=============================================================================
