--------------------------- MODULE MCVirtualMemory ---------------------------
(* Constant values for the runs of VirtualMemory.                          *)
EXTENDS VirtualMemory

(* Six usable pages from 0 on.                                           *)
UsableFromZero == 0 .. 5

(* For a device: present and not cached, and writable but not present.     *)
SmallFlags == {{"PRESENT", "NO_CACHE"}, {"WRITABLE"}}
=============================================================================
