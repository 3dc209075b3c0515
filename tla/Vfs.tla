-------------------------------- MODULE Vfs ----------------------------------
(***************************************************************************)
(* The virtual file system: src/zarya-os/kernel/src/fs/mod.rs.  Threads    *)
(* share the statics OPEN_FILES (a spin lock around the table) and NEXT_FD *)
(* (an atomic).  open takes a number and stores the file in two steps;     *)
(* every other operation is one hold of the lock.  One that returns an     *)
(* error, or only reads, changes nothing; what it returns is an operator.  *)
(* The mounts belong to the Vfs object and are no concern of open.         *)
(***************************************************************************)
EXTENDS Naturals, Sequences, FiniteSets

CONSTANTS
  Callers,          \* threads that open files
  MAX_OPEN_FILES,   \* 1024 in the code
  MaxOpens,         \* bound: the highest value of NEXT_FD
  Paths,            \* paths that are opened ...
  Directories,      \* ... and those of them that end with '/'
  Modes,            \* sets of "read" and "write" that files are opened with
  Points,           \* paths that are mounted
  BootMounts,       \* the mounts that init makes, in order
  MaxMounts,        \* bound: mounts at a time
  NoFile            \* None in the table

FIRST_FD == 3       \* 0, 1 and 2 are stdin, stdout and stderr

ASSUME VfsConstants ==
  /\ MAX_OPEN_FILES \in Nat /\ MAX_OPEN_FILES > FIRST_FD
  /\ MaxOpens \in Nat /\ MaxMounts \in Nat
  /\ Directories \subseteq Paths
  /\ \A m \in Modes : m \subseteq {"read", "write"}
  /\ BootMounts \in Seq(Points)
  /\ \A i, j \in DOMAIN BootMounts : BootMounts[i] = BootMounts[j] => i = j

Fds         == 0 .. MAX_OPEN_FILES - 1
FileTypes   == {"Regular", "Directory"}
Descriptors == [fd : Fds, path : Paths, mode : Modes, file_type : FileTypes]
Requests    == [path : Paths, mode : Modes]

ASSUME NoFileIsNoDescriptor == NoFile \notin Descriptors \cup Requests

VARIABLES
  next_fd,       \* NEXT_FD
  open_files,    \* OPEN_FILES: descriptor number -> FileDescriptor or NoFile
  opening,       \* caller -> the FileDescriptor that open is about to store
  ever,          \* descriptors that have been stored (history)
  asked,         \* number -> path and mode that its open was called with, until the
                 \* file is closed, and NoFile otherwise (history)
  mounts         \* Vfs::mounts, the paths

fileVars == <<next_fd, open_files, opening, ever, asked>>
vfsVars  == <<fileVars, mounts>>

-----------------------------------------------------------------------------
(* FileDescriptor::new.  The position stays 0: nothing ever moves it.      *)
FileDescriptor(fd, path, mode) ==
  [fd |-> fd, path |-> path, mode |-> mode,
   file_type |-> IF path \in Directories THEN "Directory" ELSE "Regular"]

Request(path, mode) == [path |-> path, mode |-> mode]

OpenLosesUpdate(c, path, mode) ==
  /\ opening[c] = NoFile /\ next_fd < MaxOpens
  /\ next_fd' \in {next_fd, next_fd + 1}
  /\ IF next_fd >= MAX_OPEN_FILES
       THEN UNCHANGED <<opening, asked>>
       ELSE /\ opening' = [opening EXCEPT ![c] = FileDescriptor(next_fd, path, mode)]
            /\ asked' = [asked EXCEPT ![next_fd] = Request(path, mode)]
  /\ UNCHANGED <<open_files, ever>>

(* open takes the next number; past the table it returns OutOfSpace (and   *)
(* the number is spent all the same).                                      *)
OpenTakeFd(c, path, mode) ==
  /\ opening[c] = NoFile /\ next_fd < MaxOpens
  /\ next_fd' = next_fd + 1
  /\ IF next_fd >= MAX_OPEN_FILES
       THEN UNCHANGED <<opening, asked>>
       ELSE /\ opening' = [opening EXCEPT ![c] = FileDescriptor(next_fd, path, mode)]
            /\ asked' = [asked EXCEPT ![next_fd] = Request(path, mode)]
  /\ UNCHANGED <<open_files, ever>>

(* ... and stores the file under the lock.                                 *)
OpenStore(c) ==
  /\ opening[c] # NoFile
  /\ open_files' = [open_files EXCEPT ![opening[c].fd] = opening[c]]
  /\ ever' = ever \cup {opening[c].fd}
  /\ opening' = [opening EXCEPT ![c] = NoFile]
  /\ UNCHANGED <<next_fd, asked>>

IsOpen(fd) == fd \in Fds /\ open_files[fd] # NoFile

(* close, by anybody who names a descriptor that is open.                  *)
CloseFile(fd) ==
  /\ IsOpen(fd)
  /\ open_files' = [open_files EXCEPT ![fd] = NoFile]
  /\ asked' = [asked EXCEPT ![fd] = NoFile]
  /\ UNCHANGED <<next_fd, opening, ever>>

(* What read (always 0 bytes), write (all of them) and readdir return.     *)
Ok(value)  == <<"Ok", value>>
Err(error) == <<"Err", error>>

ReadIgnoresMode(fd) == IF ~IsOpen(fd) THEN Err("InvalidInput") ELSE Ok(0)

read(fd) ==
  IF ~IsOpen(fd) THEN Err("InvalidInput")
  ELSE IF "read" \notin open_files[fd].mode THEN Err("PermissionDenied") ELSE Ok(0)

write(fd, len) ==
  IF ~IsOpen(fd) THEN Err("InvalidInput")
  ELSE IF "write" \notin open_files[fd].mode THEN Err("PermissionDenied") ELSE Ok(len)

readdir(fd) ==
  IF ~IsOpen(fd) THEN Err("InvalidInput")
  ELSE IF open_files[fd].file_type # "Directory" THEN Err("NotADirectory") ELSE Ok("Entries")

(* mount: always successful, a mounted path included.                      *)
MountPoint(p) ==
  /\ Len(mounts) < MaxMounts
  /\ mounts' = Append(mounts, p)

Positions(p) == {i \in DOMAIN mounts : mounts[i] = p}

(* unmount: the first mount of the path goes.                              *)
UnmountPoint(p) ==
  \E i \in Positions(p) :
    /\ \A j \in Positions(p) : i <= j
    /\ mounts' = SubSeq(mounts, 1, i - 1) \o SubSeq(mounts, i + 1, Len(mounts))

-----------------------------------------------------------------------------
VfsInit ==
  /\ next_fd = FIRST_FD
  /\ open_files = [fd \in Fds |-> NoFile]
  /\ opening = [c \in Callers |-> NoFile]
  /\ ever = {}
  /\ asked = [fd \in Fds |-> NoFile]
  /\ mounts = BootMounts

FileNext ==
  \/ \E c \in Callers : \/ \E path \in Paths, mode \in Modes : OpenTakeFd(c, path, mode)
                        \/ OpenStore(c)
  \/ \E fd \in Fds : CloseFile(fd)

MountNext == \E p \in Points : MountPoint(p) \/ UnmountPoint(p)

VfsNext ==
  \/ FileNext /\ UNCHANGED mounts
  \/ MountNext /\ UNCHANGED fileVars

VfsSpec == VfsInit /\ [][VfsNext]_vfsVars

-----------------------------------------------------------------------------
VfsTypeOK ==
  /\ next_fd \in FIRST_FD .. (IF MaxOpens > FIRST_FD THEN MaxOpens ELSE FIRST_FD)
  /\ open_files \in [Fds -> Descriptors \cup {NoFile}]
  /\ opening \in [Callers -> Descriptors \cup {NoFile}]
  /\ ever \subseteq Fds
  /\ asked \in [Fds -> Requests \cup {NoFile}]
  /\ mounts \in Seq(Points)

Table == INSTANCE FileTable WITH
  open <- open_files, mounted <- [p \in Points |-> Cardinality(Positions(p))]

(* The descriptor table implements FileTable: opens that race for numbers  *)
(* never meet in one entry, no descriptor is used a second time, so that a *)
(* thread that keeps one after another thread closed it gets an error and  *)
(* never another file; and unmount takes away one mount of the path.       *)
VfsRefinement == Table!TableSpec

(* The number of a file that an open in its second step will store.        *)
BeingOpened(fd) == \E c \in Callers : opening[c] # NoFile /\ opening[c].fd = fd

(* MAX_OPEN_FILES is the "maximum number of open files" (fs/mod.rs:13):    *)
(* open is refused only while every number but the standard ones is in use *)
(* by an open file or an open under way.                                   *)
RefusedOnlyWhenFull ==
  [][next_fd' # next_fd /\ opening' = opening =>
       \A fd \in FIRST_FD .. MAX_OPEN_FILES - 1 : IsOpen(fd) \/ BeingOpened(fd)]_vfsVars

(* read, write and readdir of a descriptor go by the mode and the path     *)
(* that the open which returned it was called with, whatever opens and     *)
(* closes race with it; the numbers that no open has returned, of which    *)
(* the standard ones are some, are refused.                                *)
AccessAsOpened ==
  \A fd \in Fds :
    /\ fd \notin ever \/ fd < FIRST_FD =>
         {read(fd), write(fd, 1), readdir(fd)} = {Err("InvalidInput")}
    /\ IsOpen(fd) =>
         /\ fd < next_fd /\ ~BeingOpened(fd)
         /\ asked[fd] # NoFile
         /\ read(fd) = IF "read" \in asked[fd].mode THEN Ok(0) ELSE Err("PermissionDenied")
         /\ write(fd, 1) = IF "write" \in asked[fd].mode THEN Ok(1)
                           ELSE Err("PermissionDenied")
         /\ readdir(fd) = IF asked[fd].path \in Directories THEN Ok("Entries")
                          ELSE Err("NotADirectory")
=============================================================================
