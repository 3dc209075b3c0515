------------------------------ MODULE FileTable ------------------------------
(***************************************************************************)
(* What the file system promises its callers: a descriptor names one open  *)
(* file from open to close, with the path and the mode it was opened with, *)
(* and never names anything again after that.  A path is mounted as often  *)
(* as it was mounted and not unmounted.                                    *)
(***************************************************************************)
EXTENDS Naturals

CONSTANTS Fds, Descriptors, NoFile, Points

VARIABLES
  open,       \* descriptor -> the file it names, or NoFile
  ever,       \* descriptors that have named a file
  mounted     \* path -> how often it is mounted

tableVars == <<open, ever, mounted>>

Open(fd, file) ==
  /\ fd \notin ever
  /\ open' = [open EXCEPT ![fd] = file]
  /\ ever' = ever \cup {fd}
  /\ UNCHANGED mounted

Close(fd) ==
  /\ open[fd] # NoFile
  /\ open' = [open EXCEPT ![fd] = NoFile]
  /\ UNCHANGED <<ever, mounted>>

Mount(p) == mounted' = [mounted EXCEPT ![p] = @ + 1] /\ UNCHANGED <<open, ever>>

Unmount(p) ==
  /\ mounted[p] > 0
  /\ mounted' = [mounted EXCEPT ![p] = @ - 1]
  /\ UNCHANGED <<open, ever>>

TableInit ==
  /\ open = [fd \in Fds |-> NoFile] /\ ever = {}
  /\ mounted \in [Points -> {0, 1}]

TableNext ==
  \/ \E fd \in Fds : (\E file \in Descriptors : file.fd = fd /\ Open(fd, file)) \/ Close(fd)
  \/ \E p \in Points : Mount(p) \/ Unmount(p)

TableSpec == TableInit /\ [][TableNext]_tableVars
=============================================================================
