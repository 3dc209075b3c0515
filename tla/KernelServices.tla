--------------------------- MODULE KernelServices ----------------------------
(***************************************************************************)
(* The services of the kernel that keep tables of their own: descriptors   *)
(* and mounts (Vfs), sockets and packets (Net), system calls (Syscall).    *)
(* They do not call each other: the system calls are stubs that reach      *)
(* neither.  A behaviour uses one of them, named by `service', or none.    *)
(***************************************************************************)
EXTENDS Vfs, Net, Syscall

VARIABLE service

serviceVars == <<vfsVars, netVars, sysVars, service>>

ServicesInit ==
  /\ VfsInit /\ NetInit /\ SysInit
  /\ service \in {"files", "mounts", "sockets", "packets", "calls", "none"}

ServicesNext ==
  /\ \/ service = "files"   /\ FileNext   /\ UNCHANGED <<mounts, netVars, sysVars>>
     \/ service = "mounts"  /\ MountNext  /\ UNCHANGED <<fileVars, netVars, sysVars>>
     \/ service = "sockets" /\ SocketNext /\ UNCHANGED <<vfsVars, sysVars>>
     \/ service = "packets" /\ PacketNext /\ UNCHANGED <<vfsVars, sysVars>>
     \/ service = "calls"   /\ SysNext    /\ UNCHANGED <<vfsVars, netVars>>
  /\ UNCHANGED service

ServicesSpec == ServicesInit /\ [][ServicesNext]_serviceVars
=============================================================================
