---------------------------- MODULE ServiceProofs ----------------------------
(***************************************************************************)
(* Proofs about the services of the kernel: descriptors and mounts, the    *)
(* sockets and packets of the network stack, and the system call table.    *)
(***************************************************************************)
EXTENDS KernelServices, FiniteSetTheorems, SequenceTheorems, TLAPS

(***************************************************************************)
(* The services share no variable: a behaviour of them all is a behaviour  *)
(* of each, and what is proved of one holds of the composition.            *)
(***************************************************************************)
THEOREM ServicesCompose == ServicesSpec => VfsSpec /\ NetSpec /\ SysSpec
<1>1. ServicesInit => VfsInit /\ NetInit /\ SysInit
  BY DEF ServicesInit
<1>2. [ServicesNext]_serviceVars => [VfsNext]_vfsVars
  BY DEF ServicesNext, serviceVars, VfsNext, vfsVars
<1>3. [ServicesNext]_serviceVars => [NetNext]_netVars
  BY DEF ServicesNext, serviceVars, NetNext
<1>4. [ServicesNext]_serviceVars => [SysNext]_sysVars
  BY DEF ServicesNext, serviceVars
<1> QED
  BY <1>1, <1>2, <1>3, <1>4, PTL DEF ServicesSpec, VfsSpec, NetSpec, SysSpec

-----------------------------------------------------------------------------
(***************************************************************************)
(* Descriptors.  Every number below next_fd that is in use belongs to one  *)
(* open alone: to a file that was stored, or to a caller that will store.  *)
(***************************************************************************)
MayDescribe(file, next) ==
  /\ file \in Descriptors
  /\ file.fd >= FIRST_FD /\ file.fd < next
  /\ file.file_type = "Directory" <=> file.path \in Directories

FileInv ==
  /\ next_fd \in Nat /\ next_fd >= FIRST_FD
  /\ open_files \in [Fds -> Descriptors \cup {NoFile}]
  /\ opening \in [Callers -> Descriptors \cup {NoFile}]
  /\ ever \subseteq Fds
  /\ \A fd \in ever : fd >= FIRST_FD /\ fd < next_fd
  /\ \A fd \in Fds : open_files[fd] # NoFile =>
       MayDescribe(open_files[fd], next_fd) /\ open_files[fd].fd = fd /\ fd \in ever
  /\ \A c \in Callers : opening[c] # NoFile =>
       MayDescribe(opening[c], next_fd) /\ opening[c].fd \notin ever
  /\ \A c, d \in Callers :
       opening[c] # NoFile /\ opening[d] # NoFile /\ opening[c].fd = opening[d].fd => c = d

LEMMA FdRange == /\ FIRST_FD = 3 /\ MAX_OPEN_FILES \in Nat /\ Fds \subseteq Nat
                 /\ NoFile \notin Descriptors
  BY VfsConstants, NoFileIsNoDescriptor DEF FIRST_FD, Fds

LEMMA FileInit == VfsInit => FileInv
<1> SUFFICES ASSUME VfsInit PROVE FileInv
  OBVIOUS
<1>1. /\ next_fd = 3 /\ open_files = [fd \in Fds |-> NoFile]
      /\ opening = [c \in Callers |-> NoFile] /\ ever = {}
  BY DEF VfsInit, FIRST_FD
<1>2. \A fd \in Fds : open_files[fd] = NoFile
  BY <1>1
<1>3. \A c \in Callers : opening[c] = NoFile
  BY <1>1
<1> QED
  BY <1>1, <1>2, <1>3, FdRange DEF FileInv

(* FileDescriptor::new tells a directory by its path.                      *)
LEMMA NewDescriptor ==
  ASSUME NEW fd \in Fds, NEW path \in Paths, NEW mode \in Modes
  PROVE  LET file == FileDescriptor(fd, path, mode)
         IN  /\ file \in Descriptors /\ file.fd = fd
             /\ file.file_type = "Directory" <=> file.path \in Directories
<1> DEFINE type == IF path \in Directories THEN "Directory" ELSE "Regular"
           file == [fd |-> fd, path |-> path, mode |-> mode, file_type |-> type]
<1>1. type \in FileTypes /\ (type = "Directory" <=> path \in Directories)
  BY DEF FileTypes
<1> HIDE DEF type
<1>2. /\ file \in Descriptors /\ file.fd = fd /\ file.path = path /\ file.file_type = type
  BY <1>1 DEF Descriptors
<1>3. FileDescriptor(fd, path, mode) = file
  BY DEF FileDescriptor, type
<1> HIDE DEF file
<1> QED
  BY <1>1, <1>2, <1>3

(* open takes a number that nobody has, or gives up.                       *)
LEMMA TakeFdStep ==
  ASSUME FileInv, NEW c \in Callers, NEW path \in Paths, NEW mode \in Modes,
         OpenTakeFd(c, path, mode)
  PROVE  FileInv'
<1> DEFINE file == FileDescriptor(next_fd, path, mode)
<1>1. /\ opening[c] = NoFile /\ next_fd' = next_fd + 1
      /\ opening' = IF next_fd >= MAX_OPEN_FILES THEN opening ELSE [opening EXCEPT ![c] = file]
      /\ open_files' = open_files /\ ever' = ever
  BY DEF OpenTakeFd
<1>2. /\ next_fd \in Nat /\ next_fd >= 3 /\ open_files \in [Fds -> Descriptors \cup {NoFile}]
      /\ opening \in [Callers -> Descriptors \cup {NoFile}] /\ ever \subseteq Fds
  BY FdRange DEF FileInv
<1>3. \A f : MayDescribe(f, next_fd) => MayDescribe(f, next_fd') /\ f.fd # next_fd
  <2> TAKE f
  <2> HAVE MayDescribe(f, next_fd)
  <2>1. f.fd \in Nat /\ f.fd < next_fd
    BY FdRange DEF MayDescribe, Descriptors
  <2> QED
    BY <1>1, <1>2, <2>1, FdRange DEF MayDescribe
<1>4. CASE next_fd >= MAX_OPEN_FILES
  <2>1. opening' = opening
    BY <1>1, <1>4
  <2>2. next_fd' \in Nat /\ next_fd' >= 3 /\ \A fd \in ever : fd >= 3 /\ fd < next_fd'
    BY <1>1, <1>2, FdRange DEF FileInv
  <2> QED
    BY <1>1, <1>2, <1>3, <2>1, <2>2, FdRange DEF FileInv
<1>5. CASE ~(next_fd >= MAX_OPEN_FILES)
  <2>1. next_fd \in Fds
    BY <1>2, <1>5, FdRange DEF Fds
  <2>2. /\ file \in Descriptors /\ file.fd = next_fd
        /\ file.file_type = "Directory" <=> file.path \in Directories
    BY <2>1, NewDescriptor
  <2> HIDE DEF file
  <2>3. /\ next_fd' \in Nat /\ next_fd' >= 3 /\ next_fd < next_fd'
        /\ \A fd \in ever : fd >= 3 /\ fd < next_fd'
        /\ next_fd \notin ever
    BY <1>1, <1>2, FdRange DEF FileInv
  <2>4. MayDescribe(file, next_fd')
    BY <1>2, <2>2, <2>3, FdRange DEF MayDescribe
  <2>5. /\ opening' \in [Callers -> Descriptors \cup {NoFile}] /\ opening'[c] = file
        /\ \A d \in Callers : d # c => opening'[d] = opening[d]
    BY <1>1, <1>2, <1>5, <2>2
  <2>6. \A d \in Callers : opening'[d] # NoFile =>
           MayDescribe(opening'[d], next_fd') /\ opening'[d].fd \notin ever'
    BY <1>1, <1>3, <2>2, <2>3, <2>4, <2>5 DEF FileInv
  <2>7. \A d, e \in Callers : opening'[d] # NoFile /\ opening'[e] # NoFile
                              /\ opening'[d].fd = opening'[e].fd => d = e
    BY <1>3, <2>2, <2>5 DEF FileInv
  <2>8. \A fd \in Fds : open_files'[fd] # NoFile =>
           MayDescribe(open_files'[fd], next_fd') /\ open_files'[fd].fd = fd /\ fd \in ever'
    BY <1>1, <1>3 DEF FileInv
  <2> QED
    BY <1>1, <1>2, <2>3, <2>5, <2>6, <2>7, <2>8, FdRange DEF FileInv
<1> QED
  BY <1>4, <1>5

(* The store fills an entry that never held a file.                        *)
LEMMA StoreStep ==
  ASSUME FileInv, NEW c \in Callers, OpenStore(c)
  PROVE  /\ FileInv'
         /\ opening[c] \in Descriptors /\ opening[c].fd \in Fds /\ opening[c].fd \notin ever
<1> DEFINE file == opening[c]
           fd == file.fd
<1>1. /\ file # NoFile /\ open_files' = [open_files EXCEPT ![fd] = file]
      /\ ever' = ever \cup {fd} /\ opening' = [opening EXCEPT ![c] = NoFile] /\ next_fd' = next_fd
  BY DEF OpenStore
<1>2. /\ next_fd \in Nat /\ next_fd >= FIRST_FD
      /\ open_files \in [Fds -> Descriptors \cup {NoFile}]
      /\ opening \in [Callers -> Descriptors \cup {NoFile}] /\ ever \subseteq Fds
      /\ \A g \in ever : g >= FIRST_FD /\ g < next_fd
  BY DEF FileInv
<1>3. MayDescribe(file, next_fd) /\ fd \notin ever /\ fd \in Fds /\ file \in Descriptors
  BY <1>1 DEF FileInv, MayDescribe, Descriptors
<1>4. fd >= FIRST_FD /\ fd < next_fd
  BY <1>3 DEF MayDescribe
<1> HIDE DEF file, fd
<1>5. /\ open_files' \in [Fds -> Descriptors \cup {NoFile}] /\ open_files'[fd] = file
      /\ \A g \in Fds : g # fd => open_files'[g] = open_files[g]
  BY <1>1, <1>2, <1>3
<1>6. /\ opening' \in [Callers -> Descriptors \cup {NoFile}] /\ opening'[c] = NoFile
      /\ \A d \in Callers : d # c => opening'[d] = opening[d]
  BY <1>1, <1>2
<1>7. \A g \in Fds : open_files'[g] # NoFile =>
        MayDescribe(open_files'[g], next_fd') /\ open_files'[g].fd = g /\ g \in ever'
  BY <1>1, <1>3, <1>5 DEF FileInv, fd
<1>8. \A d \in Callers : opening'[d] # NoFile =>
        MayDescribe(opening'[d], next_fd') /\ opening'[d].fd \notin ever'
  BY <1>1, <1>6 DEF FileInv, fd, file
<1>9. \A d, e \in Callers : opening'[d] # NoFile /\ opening'[e] # NoFile
                            /\ opening'[d].fd = opening'[e].fd => d = e
  BY <1>6 DEF FileInv
<1>10. ever' \subseteq Fds /\ \A g \in ever' : g >= FIRST_FD /\ g < next_fd'
  BY <1>1, <1>2, <1>3, <1>4
<1>11. FileInv'
  BY <1>1, <1>2, <1>5, <1>6, <1>7, <1>8, <1>9, <1>10 DEF FileInv
<1> QED
  BY <1>3, <1>11 DEF file, fd

LEMMA CloseStep ==
  ASSUME FileInv, NEW fd \in Fds, CloseFile(fd)
  PROVE  FileInv'
<1>1. /\ open_files' = [open_files EXCEPT ![fd] = NoFile]
      /\ next_fd' = next_fd /\ opening' = opening /\ ever' = ever
  BY DEF CloseFile
<1>2. open_files \in [Fds -> Descriptors \cup {NoFile}]
  BY DEF FileInv
<1>3. /\ open_files' \in [Fds -> Descriptors \cup {NoFile}] /\ open_files'[fd] = NoFile
      /\ \A g \in Fds : g # fd => open_files'[g] = open_files[g]
  BY <1>1, <1>2
<1>4. \A g \in Fds : open_files'[g] # NoFile =>
        MayDescribe(open_files'[g], next_fd') /\ open_files'[g].fd = g /\ g \in ever'
  BY <1>1, <1>3 DEF FileInv
<1> QED
  BY <1>1, <1>3, <1>4 DEF FileInv

LEMMA FileStep == FileInv /\ [VfsNext]_vfsVars => FileInv'
<1> SUFFICES ASSUME FileInv, [VfsNext]_vfsVars PROVE FileInv'
  OBVIOUS
<1>1. CASE FileNext
  BY <1>1, TakeFdStep, StoreStep, CloseStep DEF FileNext
<1>2. CASE UNCHANGED fileVars
  BY <1>2 DEF fileVars, FileInv
<1> QED
  BY <1>1, <1>2 DEF VfsNext, vfsVars

(* What a descriptor says of its file is what its open was asked for.      *)
AskedFor(file) == asked[file.fd] = Request(file.path, file.mode)

AskedInv ==
  /\ asked \in [Fds -> Requests \cup {NoFile}]
  /\ \A fd \in Fds : open_files[fd] # NoFile => AskedFor(open_files[fd])
  /\ \A c \in Callers : opening[c] # NoFile => AskedFor(opening[c])

LEMMA AskedInit == VfsInit => AskedInv
<1> SUFFICES ASSUME VfsInit PROVE AskedInv
  OBVIOUS
<1>1. /\ asked = [fd \in Fds |-> NoFile] /\ \A fd \in Fds : open_files[fd] = NoFile
      /\ \A c \in Callers : opening[c] = NoFile
  BY DEF VfsInit
<1> QED
  BY <1>1 DEF AskedInv

(* A number that an open takes or a close gives up is in no other          *)
(* descriptor, so that the others go on saying what was asked.             *)
LEMMA AskedStep == FileInv /\ AskedInv /\ [VfsNext]_vfsVars => AskedInv'
<1> SUFFICES ASSUME FileInv, AskedInv, [VfsNext]_vfsVars PROVE AskedInv'
  OBVIOUS
<1>1. /\ next_fd \in Nat /\ open_files \in [Fds -> Descriptors \cup {NoFile}]
      /\ opening \in [Callers -> Descriptors \cup {NoFile}] /\ ever \subseteq Fds
      /\ asked \in [Fds -> Requests \cup {NoFile}]
  BY DEF FileInv, AskedInv
<1>2. \A fd \in Fds : open_files[fd] # NoFile =>
        /\ AskedFor(open_files[fd]) /\ open_files[fd].fd = fd /\ fd \in ever /\ fd < next_fd
  BY DEF FileInv, AskedInv
<1>3. \A c \in Callers : opening[c] # NoFile =>
        /\ AskedFor(opening[c]) /\ opening[c].fd \in Fds /\ opening[c].fd \notin ever
        /\ opening[c].fd < next_fd
  BY DEF FileInv, AskedInv, MayDescribe, Descriptors
<1>4. ASSUME NEW c \in Callers, NEW path \in Paths, NEW mode \in Modes,
             OpenTakeFd(c, path, mode)
      PROVE  AskedInv'
  <2>1. CASE next_fd >= MAX_OPEN_FILES
    BY <1>4, <2>1 DEF OpenTakeFd, AskedInv, AskedFor
  <2>2. CASE ~(next_fd >= MAX_OPEN_FILES)
    <3> DEFINE request == Request(path, mode)
               file == FileDescriptor(next_fd, path, mode)
    <3>1. /\ next_fd \in Fds /\ request \in Requests
      BY <1>1, <2>2, FdRange DEF Fds, Request, Requests
    <3>2. file.fd = next_fd /\ Request(file.path, file.mode) = request
      BY DEF FileDescriptor, Request
    <3>3. /\ asked' = [asked EXCEPT ![next_fd] = request]
          /\ opening' = [opening EXCEPT ![c] = file] /\ open_files' = open_files
      BY <1>4, <2>2 DEF OpenTakeFd
    <3> HIDE DEF request, file
    <3>4. /\ asked' \in [Fds -> Requests \cup {NoFile}] /\ asked'[next_fd] = request
          /\ \A fd \in Fds : fd # next_fd => asked'[fd] = asked[fd]
      BY <1>1, <3>1, <3>3
    <3>5. /\ opening'[c] = file /\ \A d \in Callers : d # c => opening'[d] = opening[d]
      BY <1>1, <3>3
    <3>6. \A fd \in Fds : fd < next_fd => asked'[fd] = asked[fd]
      BY <1>1, <3>4, FdRange
    <3>7. \A fd \in Fds : open_files'[fd] # NoFile => AskedFor(open_files[fd])'
      BY <1>2, <3>3, <3>6 DEF AskedFor
    <3>8. \A d \in Callers : opening'[d] # NoFile => AskedFor(opening[d])'
      <4>1. ASSUME NEW d \in Callers, d # c, opening[d] # NoFile
            PROVE  asked'[opening[d].fd] = Request(opening[d].path, opening[d].mode)
        <5>1. opening[d].fd \in Fds /\ opening[d].fd < next_fd /\ AskedFor(opening[d])
          BY <1>3, <4>1
        <5> QED
          BY <3>6, <5>1 DEF AskedFor
      <4>2. asked'[file.fd] = Request(file.path, file.mode)
        BY <3>2, <3>4
      <4> QED
        BY <3>5, <4>1, <4>2 DEF AskedFor
    <3> QED
      BY <3>4, <3>7, <3>8 DEF AskedInv
  <2> QED
    BY <2>1, <2>2
<1>5. ASSUME NEW c \in Callers, OpenStore(c) PROVE AskedInv'
  <2> DEFINE file == opening[c]
  <2>1. /\ asked' = asked /\ file # NoFile /\ file.fd \in Fds /\ AskedFor(file)
        /\ open_files' = [open_files EXCEPT ![file.fd] = file]
        /\ opening' = [opening EXCEPT ![c] = NoFile]
    BY <1>3, <1>5 DEF OpenStore
  <2> HIDE DEF file
  <2>2. \A fd \in Fds : open_files'[fd] \in {file, open_files[fd]}
    BY <1>1, <2>1
  <2>3. \A d \in Callers : opening'[d] \in {NoFile, opening[d]}
    BY <1>1, <2>1
  <2> QED
    BY <1>1, <1>2, <1>3, <2>1, <2>2, <2>3 DEF AskedInv, AskedFor
<1>6. ASSUME NEW fd \in Fds, CloseFile(fd) PROVE AskedInv'
  <2>1. /\ asked' = [asked EXCEPT ![fd] = NoFile] /\ opening' = opening
        /\ open_files' = [open_files EXCEPT ![fd] = NoFile] /\ open_files[fd] # NoFile
    BY <1>6 DEF CloseFile, IsOpen
  <2>2. fd \in ever
    BY <1>2, <2>1
  <2>3. /\ asked' \in [Fds -> Requests \cup {NoFile}]
        /\ \A g \in Fds : g # fd => asked'[g] = asked[g] /\ open_files'[g] = open_files[g]
        /\ open_files'[fd] = NoFile
    BY <1>1, <2>1
  <2>4. \A g \in Fds : open_files'[g] # NoFile => AskedFor(open_files[g])'
    BY <1>2, <2>3 DEF AskedFor
  <2>5. \A d \in Callers : opening'[d] # NoFile => AskedFor(opening[d])'
    <3>1. ASSUME NEW d \in Callers, opening[d] # NoFile
          PROVE  asked'[opening[d].fd] = Request(opening[d].path, opening[d].mode)
      <4>1. opening[d].fd \in Fds /\ opening[d].fd # fd /\ AskedFor(opening[d])
        BY <1>3, <2>2, <3>1
      <4> QED
        BY <2>3, <4>1 DEF AskedFor
    <3> QED
      BY <2>1, <3>1 DEF AskedFor
  <2> QED
    BY <2>3, <2>4, <2>5 DEF AskedInv
<1>7. CASE UNCHANGED fileVars
  BY <1>7 DEF fileVars, AskedInv, AskedFor
<1> QED
  BY <1>4, <1>5, <1>6, <1>7 DEF VfsNext, FileNext, vfsVars

(* read, write and readdir of a descriptor go by the mode and the path     *)
(* that the open which returned it was called with, however the steps of   *)
(* any number of opens and closes mix; a number that no open has stored,   *)
(* the standard ones among them, is refused; and an open file's number is  *)
(* no longer in the hands of a caller inside open.                         *)
THEOREM DescriptorsFaithful == VfsSpec => []AccessAsOpened
<1>1. FileInv /\ AskedInv => AccessAsOpened
  <2> SUFFICES ASSUME FileInv, AskedInv, NEW fd \in Fds
               PROVE  /\ fd \notin ever \/ fd < FIRST_FD =>
                           {read(fd), write(fd, 1), readdir(fd)} = {Err("InvalidInput")}
                      /\ IsOpen(fd) =>
                           /\ fd < next_fd /\ ~BeingOpened(fd)
                           /\ asked[fd] # NoFile
                           /\ read(fd) = IF "read" \in asked[fd].mode THEN Ok(0)
                                         ELSE Err("PermissionDenied")
                           /\ write(fd, 1) = IF "write" \in asked[fd].mode THEN Ok(1)
                                             ELSE Err("PermissionDenied")
                           /\ readdir(fd) = IF asked[fd].path \in Directories
                                            THEN Ok("Entries") ELSE Err("NotADirectory")
    BY DEF AccessAsOpened
  <2>1. /\ IsOpen(fd) <=> open_files[fd] # NoFile
        /\ open_files[fd] # NoFile =>
             /\ MayDescribe(open_files[fd], next_fd) /\ open_files[fd].fd = fd /\ fd \in ever
             /\ AskedFor(open_files[fd])
    BY DEF IsOpen, FileInv, AskedInv
  <2>2. ASSUME fd \notin ever \/ fd < FIRST_FD
        PROVE  {read(fd), write(fd, 1), readdir(fd)} = {Err("InvalidInput")}
    <3>1. fd \in Nat /\ \A g \in ever : ~(g < FIRST_FD)
      <4>1. \A g \in ever : g \in Nat /\ g >= 3
        BY FdRange DEF FileInv
      <4> QED
        BY <4>1, FdRange
    <3>2. ~IsOpen(fd)
      BY <2>1, <2>2, <3>1
    <3> QED
      BY <3>2 DEF read, write, readdir
  <2>3. ASSUME IsOpen(fd) PROVE fd < next_fd /\ ~BeingOpened(fd)
    <3>1. fd < next_fd /\ fd \in ever
      BY <2>1, <2>3 DEF MayDescribe
    <3>2. \A c \in Callers : opening[c] # NoFile => opening[c].fd \notin ever
      BY DEF FileInv
    <3> QED
      BY <3>1, <3>2 DEF BeingOpened
  <2>4. ASSUME IsOpen(fd)
        PROVE  /\ asked[fd] # NoFile /\ asked[fd].mode = open_files[fd].mode
               /\ asked[fd].path = open_files[fd].path
    <3>1. open_files[fd] \in Descriptors /\ asked[fd] = Request(open_files[fd].path, open_files[fd].mode)
      BY <2>1, <2>4 DEF AskedFor, MayDescribe
    <3>2. Request(open_files[fd].path, open_files[fd].mode) \in Requests
      BY <3>1 DEF Descriptors, Request, Requests
    <3> QED
      BY <3>1, <3>2, NoFileIsNoDescriptor DEF Request
  <2>5. ASSUME IsOpen(fd)
        PROVE  open_files[fd].file_type # "Directory" <=> asked[fd].path \notin Directories
    BY <2>1, <2>4, <2>5 DEF MayDescribe
  <2>6. ASSUME IsOpen(fd)
        PROVE  /\ read(fd) = IF "read" \in asked[fd].mode THEN Ok(0) ELSE Err("PermissionDenied")
               /\ write(fd, 1) = IF "write" \in asked[fd].mode THEN Ok(1)
                                 ELSE Err("PermissionDenied")
               /\ readdir(fd) = IF asked[fd].path \in Directories THEN Ok("Entries")
                                ELSE Err("NotADirectory")
    BY <2>4, <2>5, <2>6 DEF read, write, readdir
  <2> QED
    BY <2>2, <2>3, <2>4, <2>6
<1> QED
  BY <1>1, FileInit, FileStep, AskedInit, AskedStep, PTL DEF VfsSpec

(* The counter has passed the table and no open is under way.              *)
Exhausted == next_fd >= MAX_OPEN_FILES /\ \A c \in Callers : opening[c] = NoFile

ExhaustedForGood == \A fd \in Fds : [](Exhausted /\ ~IsOpen(fd) => [](~IsOpen(fd)))

(* Descriptor numbers are not given out again: once the counter has passed *)
(* the table and no open is under way, an entry that is empty stays empty. *)
LEMMA EntryStaysEmpty ==
  ASSUME NEW fd \in Fds
  PROVE  VfsSpec => [](Exhausted /\ ~IsOpen(fd) => []~IsOpen(fd))
<1>1. FileInv /\ Exhausted /\ ~IsOpen(fd) /\ [VfsNext]_vfsVars => (Exhausted /\ ~IsOpen(fd))'
  <2> SUFFICES ASSUME FileInv, Exhausted, ~IsOpen(fd), [VfsNext]_vfsVars
               PROVE  Exhausted' /\ ~IsOpen(fd)'
    OBVIOUS
  <2>1. /\ next_fd >= MAX_OPEN_FILES /\ \A c \in Callers : opening[c] = NoFile
        /\ next_fd \in Nat /\ MAX_OPEN_FILES \in Nat /\ open_files[fd] = NoFile
    BY FdRange DEF Exhausted, FileInv, IsOpen
  <2>2. /\ opening' = opening /\ next_fd' \in {next_fd, next_fd + 1}
        /\ open_files' = open_files \/ \E g \in Fds : open_files' = [open_files EXCEPT ![g] = NoFile]
    BY <2>1 DEF VfsNext, FileNext, OpenTakeFd, OpenStore, CloseFile, fileVars, vfsVars
  <2>3. next_fd' >= MAX_OPEN_FILES
    BY <2>1, <2>2
  <2>4. open_files'[fd] = NoFile
    BY <2>1, <2>2 DEF FileInv
  <2> QED
    BY <2>1, <2>2, <2>3, <2>4 DEF Exhausted, IsOpen
<1> QED
  BY <1>1, FileInit, FileStep, PTL DEF VfsSpec

(* A table that has given all the numbers out takes no more files, however *)
(* many are closed: the reason why RefusedOnlyWhenFull does not hold.      *)
THEOREM TableRunsOut == VfsSpec => ExhaustedForGood
  BY EntryStaysEmpty DEF ExhaustedForGood

-----------------------------------------------------------------------------
(***************************************************************************)
(* Vec::remove, of a mount or of a socket: the elements after the removed  *)
(* one move up.                                                            *)
(***************************************************************************)
Without(seq, i) == SubSeq(seq, 1, i - 1) \o SubSeq(seq, i + 1, Len(seq))
After(i, j) == IF j < i THEN j ELSE j + 1

LEMMA WithoutEffect ==
  ASSUME NEW S, NEW seq \in Seq(S), NEW i \in 1 .. Len(seq)
  PROVE  /\ Without(seq, i) \in Seq(S) /\ Len(Without(seq, i)) = Len(seq) - 1
         /\ \A j \in 1 .. Len(seq) - 1 :
              After(i, j) \in 1 .. Len(seq) /\ Without(seq, i)[j] = seq[After(i, j)]
<1> DEFINE n == Len(seq)
           front == SubSeq(seq, 1, i - 1)
           back == SubSeq(seq, i + 1, n)
<1>1. n \in Nat /\ \A k \in 1 .. n : seq[k] \in S
  BY LenProperties, ElementOfSeq
<1>2. /\ front \in Seq(S) /\ Len(front) = i - 1 /\ \A k \in 1 .. i - 1 : front[k] = seq[1 + k - 1]
  <2>1. /\ front \in Seq(S)
        /\ Len(front) = IF 1 <= i - 1 THEN i - 1 - 1 + 1 ELSE 0
        /\ \A k \in 1 .. i - 1 - 1 + 1 : front[k] = seq[1 + k - 1]
    <3>1. \A k \in 1 .. i - 1 : seq[k] \in S
      BY <1>1
    <3> QED
      BY <1>1, <3>1, SubSeqProperties
  <2> QED
    BY <1>1, <2>1
<1>3. /\ back \in Seq(S) /\ Len(back) = n - i /\ \A k \in 1 .. n - i : back[k] = seq[i + 1 + k - 1]
  <2>1. /\ back \in Seq(S)
        /\ Len(back) = IF i + 1 <= n THEN n - (i + 1) + 1 ELSE 0
        /\ \A k \in 1 .. n - (i + 1) + 1 : back[k] = seq[i + 1 + k - 1]
    <3>1. \A k \in i + 1 .. n : seq[k] \in S
      BY <1>1
    <3> QED
      BY <1>1, <3>1, SubSeqProperties
  <2> QED
    BY <1>1, <2>1
<1> HIDE DEF front, back
<1>4. /\ front \o back \in Seq(S) /\ Len(front \o back) = Len(front) + Len(back)
      /\ \A k \in 1 .. Len(front) + Len(back) :
           (front \o back)[k] = IF k <= Len(front) THEN front[k] ELSE back[k - Len(front)]
  BY <1>2, <1>3, ConcatProperties
<1>5. ASSUME NEW j \in 1 .. n - 1
      PROVE  After(i, j) \in 1 .. n /\ (front \o back)[j] = seq[After(i, j)]
  <2>1. (front \o back)[j] = IF j <= i - 1 THEN front[j] ELSE back[j - (i - 1)]
    BY <1>1, <1>2, <1>3, <1>4
  <2>2. CASE j < i
    BY <1>1, <1>2, <2>1, <2>2 DEF After
  <2>3. CASE ~(j < i)
    <3>1. j - (i - 1) \in 1 .. n - i /\ i + 1 + (j - (i - 1)) - 1 = j + 1 /\ ~(j <= i - 1)
      BY <1>1, <2>3
    <3>2. back[j - (i - 1)] = seq[j + 1]
      BY <1>3, <3>1
    <3> QED
      BY <1>1, <2>1, <2>3, <3>1, <3>2 DEF After
  <2> QED
    BY <2>2, <2>3
<1>6. Len(front \o back) = n - 1
  BY <1>1, <1>2, <1>3, <1>4
<1> QED
  BY <1>4, <1>5, <1>6 DEF Without, front, back

(* The places of a value.                                                  *)
Places(seq, p) == {i \in DOMAIN seq : seq[i] = p}

LEMMA PlacesFinite ==
  ASSUME NEW S, NEW seq \in Seq(S), NEW p
  PROVE  /\ DOMAIN seq = 1 .. Len(seq) /\ Len(seq) \in Nat
         /\ IsFiniteSet(Places(seq, p)) /\ Cardinality(Places(seq, p)) \in Nat
<1>1. Len(seq) \in Nat /\ DOMAIN seq = 1 .. Len(seq)
  BY LenProperties
<1>2. Places(seq, p) \in SUBSET (1 .. Len(seq)) /\ IsFiniteSet(1 .. Len(seq))
  BY <1>1, FS_Interval DEF Places
<1> QED
  BY <1>1, <1>2, FS_Subset, FS_CardinalityType

LEMMA PlacesAppend ==
  ASSUME NEW S, NEW seq \in Seq(S), NEW e \in S, NEW p
  PROVE  Cardinality(Places(Append(seq, e), p)) = Cardinality(Places(seq, p)) + (IF p = e THEN 1 ELSE 0)
<1> DEFINE n == Len(seq)
<1>1. /\ DOMAIN seq = 1 .. n /\ n \in Nat
      /\ IsFiniteSet(Places(seq, p)) /\ Cardinality(Places(seq, p)) \in Nat
  BY PlacesFinite
<1>2. /\ DOMAIN Append(seq, e) = 1 .. n + 1 /\ Append(seq, e)[n + 1] = e
      /\ \A i \in 1 .. n : Append(seq, e)[i] = seq[i]
  BY AppendProperties, LenProperties
<1>3. Places(Append(seq, e), p) = Places(seq, p) \cup (IF p = e THEN {n + 1} ELSE {})
  <2>1. \A i : i \in 1 .. n + 1 <=> i \in 1 .. n \/ i = n + 1
    BY <1>1
  <2> QED
    BY <1>1, <1>2, <2>1 DEF Places
<1>4. n + 1 \notin Places(seq, p)
  BY <1>1 DEF Places
<1>5. CASE p = e
  <2>1. Cardinality(Places(seq, p) \cup {n + 1}) = Cardinality(Places(seq, p)) + 1
    BY <1>1, <1>4, FS_AddElement
  <2> QED
    BY <1>3, <1>5, <2>1
<1>6. CASE p # e
  BY <1>1, <1>3, <1>6
<1> QED
  BY <1>5, <1>6

LEMMA PlacesWithout ==
  ASSUME NEW S, NEW seq \in Seq(S), NEW i \in 1 .. Len(seq), NEW p
  PROVE  Cardinality(Places(Without(seq, i), p)) = Cardinality(Places(seq, p)) - (IF p = seq[i] THEN 1 ELSE 0)
<1> DEFINE n == Len(seq)
           t == Without(seq, i)
           f == [j \in Places(t, p) |-> After(i, j)]
<1>1. /\ DOMAIN seq = 1 .. n /\ n \in Nat
      /\ IsFiniteSet(Places(seq, p)) /\ Cardinality(Places(seq, p)) \in Nat
  BY PlacesFinite
<1>2. /\ t \in Seq(S) /\ Len(t) = n - 1
      /\ \A j \in 1 .. n - 1 : After(i, j) \in 1 .. n /\ t[j] = seq[After(i, j)]
  BY WithoutEffect
<1>3. DOMAIN t = 1 .. n - 1 /\ IsFiniteSet(Places(t, p))
  BY <1>2, PlacesFinite
<1> HIDE DEF t, n
<1>4. f \in Bijection(Places(t, p), Places(seq, p) \ {i})
  <2>1. \A j \in 1 .. n - 1 : After(i, j) # i
    BY <1>1 DEF After
  <2>2. \A j, k \in 1 .. n - 1 : After(i, j) = After(i, k) => j = k
    BY <1>1 DEF After
  <2>3. f \in [Places(t, p) -> Places(seq, p) \ {i}]
    BY <1>1, <1>2, <1>3, <2>1 DEF Places
  <2>4. \A j, k \in Places(t, p) : f[j] = f[k] => j = k
    BY <1>3, <2>2 DEF Places
  <2>5. ASSUME NEW k \in Places(seq, p) \ {i} PROVE \E j \in Places(t, p) : f[j] = k
    <3> DEFINE j == IF k < i THEN k ELSE k - 1
    <3>1. k \in 1 .. n /\ k # i /\ i \in 1 .. n /\ seq[k] = p
      BY <1>1, <2>5 DEF Places, n
    <3>2. j \in 1 .. n - 1 /\ After(i, j) = k
      BY <1>1, <3>1 DEF After
    <3> HIDE DEF j
    <3>3. j \in Places(t, p)
      BY <1>2, <1>3, <3>1, <3>2 DEF Places
    <3> QED
      BY <3>2, <3>3
  <2> QED
    BY <2>3, <2>4, <2>5 DEF Bijection, Injection, IsInjective, Surjection
<1>5. Cardinality(Places(seq, p) \ {i}) = Cardinality(Places(t, p))
  BY <1>3, <1>4, FS_Bijection DEF ExistsBijection
<1>6. CASE p = seq[i]
  <2>1. i \in Places(seq, p)
    BY <1>1, <1>6 DEF Places, n
  <2>2. Cardinality(Places(seq, p) \ {i}) = Cardinality(Places(seq, p)) - 1
    BY <1>1, <2>1, FS_RemoveElement
  <2> QED
    BY <1>5, <1>6, <2>2 DEF t
<1>7. CASE p # seq[i]
  <2>1. Places(seq, p) \ {i} = Places(seq, p)
    BY <1>7 DEF Places
  <2>2. Cardinality(Places(Without(seq, i), p)) = Cardinality(Places(seq, p))
    BY <1>5, <2>1 DEF t
  <2> QED
    BY <1>1, <1>7, <2>2
<1> QED
  BY <1>6, <1>7

(***************************************************************************)
(* The file system implements FileTable.                                   *)
(***************************************************************************)
Mounted  == [p \in Points |-> Cardinality(Positions(p))]
MountsOK == mounts \in Seq(Points)

LEMMA TableInitial == VfsInit => Table!TableInit
<1> SUFFICES ASSUME VfsInit PROVE Table!TableInit
  OBVIOUS
<1>1. open_files = [fd \in Fds |-> NoFile] /\ ever = {} /\ mounts = BootMounts
  BY DEF VfsInit
<1>2. ASSUME NEW p \in Points PROVE Cardinality(Positions(p)) \in {0, 1}
  <2>1. \A i, j \in Positions(p) : i = j
    BY <1>1, VfsConstants DEF Positions
  <2>2. CASE Positions(p) = {}
    BY <2>2, FS_EmptySet
  <2>3. CASE Positions(p) # {}
    <3>1. PICK i \in Positions(p) : TRUE
      BY <2>3
    <3>2. Positions(p) = {i}
      BY <2>1, <3>1
    <3> QED
      BY <3>2, FS_Singleton
  <2> QED
    BY <2>2, <2>3
<1>3. Mounted \in [Points -> {0, 1}]
  BY <1>2 DEF Mounted
<1> QED
  BY <1>1, <1>3 DEF Table!TableInit, Mounted

(* A step of the file system is a step of the table or changes nothing of  *)
(* it.                                                                     *)
LEMMA TableStep ==
  FileInv /\ MountsOK /\ [VfsNext]_vfsVars
    => [Table!TableNext]_(Table!tableVars) /\ MountsOK'
<1> SUFFICES ASSUME FileInv, mounts \in Seq(Points), [VfsNext]_vfsVars
             PROVE  [Table!TableNext]_(Table!tableVars) /\ mounts' \in Seq(Points)
  BY DEF MountsOK
<1> DEFINE Goal == [Table!TableNext]_(Table!tableVars) /\ mounts' \in Seq(Points)
<1>0. mounts' = mounts => Mounted' = Mounted
  BY DEF Mounted, Positions
<1>1. ASSUME NEW c \in Callers, NEW path \in Paths, NEW mode \in Modes,
             OpenTakeFd(c, path, mode), UNCHANGED mounts
      PROVE  Goal
  <2>1. open_files' = open_files /\ ever' = ever /\ mounts' = mounts
    BY <1>1 DEF OpenTakeFd
  <2> QED
    BY <1>0, <2>1 DEF Table!tableVars, Mounted
<1>2. ASSUME NEW c \in Callers, OpenStore(c), UNCHANGED mounts PROVE Goal
  <2> DEFINE file == opening[c]
  <2>1. file \in Descriptors /\ file.fd \in Fds /\ file.fd \notin ever
    BY <1>2, StoreStep
  <2>2. /\ open_files' = [open_files EXCEPT ![file.fd] = file] /\ ever' = ever \cup {file.fd}
        /\ mounts' = mounts /\ Mounted' = Mounted
    BY <1>0, <1>2 DEF OpenStore
  <2>3. Table!Open(file.fd, file)
    BY <2>1, <2>2 DEF Table!Open, Mounted
  <2> QED
    BY <2>1, <2>2, <2>3 DEF Table!TableNext
<1>3. ASSUME NEW fd \in Fds, CloseFile(fd), UNCHANGED mounts PROVE Goal
  <2>1. /\ open_files[fd] # NoFile /\ open_files' = [open_files EXCEPT ![fd] = NoFile]
        /\ ever' = ever /\ mounts' = mounts /\ Mounted' = Mounted
    BY <1>0, <1>3 DEF CloseFile, IsOpen
  <2>2. Table!Close(fd)
    BY <2>1 DEF Table!Close, Mounted
  <2> QED
    BY <2>1, <2>2 DEF Table!TableNext
<1>4. ASSUME NEW p \in Points, MountPoint(p), UNCHANGED fileVars PROVE Goal
  <2>1. mounts' = Append(mounts, p) /\ open_files' = open_files /\ ever' = ever
    BY <1>4 DEF MountPoint, fileVars
  <2>2. mounts' \in Seq(Points)
    BY <2>1, AppendProperties
  <2>3. \A q \in Points : /\ Cardinality(Positions(q))' = Cardinality(Positions(q)) + (IF q = p THEN 1 ELSE 0)
                         /\ Cardinality(Positions(q)) \in Nat
    <3> TAKE q \in Points
    <3>1. Positions(q) = Places(mounts, q) /\ Positions(q)' = Places(mounts', q)
      BY DEF Positions, Places
    <3> QED
      BY <2>1, <3>1, PlacesAppend, PlacesFinite
  <2>4. Mounted' = [Mounted EXCEPT ![p] = @ + 1]
    <3>1. \A q \in Points : Mounted[q] \in Nat /\ Mounted'[q] = Mounted[q] + (IF q = p THEN 1 ELSE 0)
      BY <2>3 DEF Mounted
    <3>2. /\ Mounted = [q \in Points |-> Mounted[q]]
          /\ Mounted' = [q \in Points |-> Mounted'[q]]
      BY DEF Mounted
    <3> QED
      BY <3>1, <3>2
  <2>5. Table!Mount(p)
    BY <2>1, <2>4 DEF Table!Mount, Mounted
  <2> QED
    BY <2>2, <2>5 DEF Table!TableNext
<1>5. ASSUME NEW p \in Points, UnmountPoint(p), UNCHANGED fileVars PROVE Goal
  <2>1. PICK i \in Positions(p) : mounts' = Without(mounts, i)
    BY <1>5 DEF UnmountPoint, Without
  <2>2. open_files' = open_files /\ ever' = ever
    BY <1>5 DEF fileVars
  <2>3. i \in 1 .. Len(mounts) /\ mounts[i] = p
    BY <2>1, LenProperties DEF Positions
  <2>4. mounts' \in Seq(Points)
    BY <2>1, <2>3, WithoutEffect
  <2>5. \A q \in Points : /\ Cardinality(Positions(q))' = Cardinality(Positions(q)) - (IF q = p THEN 1 ELSE 0)
                         /\ Cardinality(Positions(q)) \in Nat
    <3> TAKE q \in Points
    <3>1. Positions(q) = Places(mounts, q) /\ Positions(q)' = Places(mounts', q)
      BY DEF Positions, Places
    <3> QED
      BY <2>1, <2>3, <3>1, PlacesWithout, PlacesFinite
  <2>6. Mounted' = [Mounted EXCEPT ![p] = @ - 1]
    <3>1. \A q \in Points : Mounted[q] \in Nat /\ Mounted'[q] = Mounted[q] - (IF q = p THEN 1 ELSE 0)
      BY <2>5 DEF Mounted
    <3>2. /\ Mounted = [q \in Points |-> Mounted[q]]
          /\ Mounted' = [q \in Points |-> Mounted'[q]]
      BY DEF Mounted
    <3> QED
      BY <3>1, <3>2
  <2>7. Mounted[p] > 0
    <3>1. IsFiniteSet(Positions(p))
      <4>1. Positions(p) = Places(mounts, p)
        BY DEF Positions, Places
      <4> QED
        BY <4>1, PlacesFinite
    <3>2. Cardinality(Positions(p)) # 0 /\ Cardinality(Positions(p)) \in Nat
      BY <2>1, <3>1, FS_EmptySet, FS_CardinalityType
    <3> QED
      BY <3>2 DEF Mounted
  <2>8. Table!Unmount(p)
    BY <2>2, <2>6, <2>7 DEF Table!Unmount, Mounted
  <2> QED
    BY <2>4, <2>8 DEF Table!TableNext
<1>6. CASE UNCHANGED vfsVars
  <2>1. open_files' = open_files /\ ever' = ever /\ mounts' = mounts
    BY <1>6 DEF vfsVars, fileVars
  <2> QED
    BY <1>0, <2>1 DEF Table!tableVars, Mounted
<1> QED
  BY <1>1, <1>2, <1>3, <1>4, <1>5, <1>6 DEF VfsNext, FileNext, MountNext

(* Racing opens never meet in one entry, no descriptor names a second file *)
(* after its first was closed, and mount and unmount keep count.           *)
THEOREM VfsImplementsTable == VfsSpec => VfsRefinement
<1>1. VfsInit => MountsOK
  BY VfsConstants DEF VfsInit, MountsOK
<1> QED
  BY <1>1, TableInitial, TableStep, FileInit, FileStep, PTL DEF VfsSpec, VfsRefinement, Table!TableSpec

-----------------------------------------------------------------------------
(***************************************************************************)
(* Packets.                                                                *)
(***************************************************************************)
PacketInv ==
  /\ last.packet \in Packets
  /\ last.outcome = handle_packet(last.packet)
  /\ dead <=> last.outcome = "panic"

(* The kernel panics over a packet only if it announces IPv4 and ends      *)
(* inside the first ten bytes of that header; whole headers are told apart *)
(* by their protocol, and short packets are ignored.                       *)
THEOREM PanicsOnlyOnTruncatedHeader == NetSpec => []OnlyTruncatedHeaderPanics
<1>1. NetInit => PacketInv
  <2> SUFFICES ASSUME NetInit PROVE PacketInv
    OBVIOUS
  <2>1. /\ dead = FALSE /\ last.packet = [len |-> 0, ethertype |-> "other", protocol |-> "other"]
        /\ last.outcome = "ignored"
    BY DEF NetInit, NoPacket
  <2>2. last.packet \in Packets /\ last.packet.len = 0
    BY <2>1, NetConstants DEF Packets, Ethertypes, Protocols
  <2>3. handle_packet(last.packet) = "ignored"
    BY <2>2 DEF handle_packet, ETHERNET_HEADER
  <2> QED
    BY <2>1, <2>2, <2>3 DEF PacketInv
<1>2. PacketInv /\ [NetNext]_netVars => PacketInv'
  <2> SUFFICES ASSUME PacketInv, [NetNext]_netVars PROVE PacketInv'
    OBVIOUS
  <2>1. ASSUME NEW packet \in Packets, Receive(packet) PROVE PacketInv'
    <3>1. /\ last'.packet = packet /\ last'.outcome = handle_packet(packet)
          /\ dead' = (last'.outcome = "panic")
      BY <2>1 DEF Receive
    <3>2. dead' <=> last'.outcome = "panic"
      BY <3>1
    <3> QED
      BY <3>1, <3>2 DEF PacketInv, handle_packet, handle_ipv4
  <2>2. ASSUME SocketNext \/ UNCHANGED netVars PROVE dead' = dead /\ last' = last
    BY <2>2 DEF SocketNext, SocketCall, socket, bind, connect, send, recv, listen, close, Update, netVars
  <2> QED
    BY <2>1, <2>2 DEF NetNext, PacketNext, PacketInv, handle_packet, handle_ipv4
<1>3. PacketInv => OnlyTruncatedHeaderPanics
  <2> SUFFICES ASSUME PacketInv PROVE OnlyTruncatedHeaderPanics
    OBVIOUS
  <2> DEFINE p == last.packet
  <2>1. /\ p.len \in Nat /\ p.ethertype \in {"IPv4", "ARP", "other"}
        /\ p.protocol \in {"ICMP", "TCP", "UDP", "other"}
    BY NetConstants DEF PacketInv, Packets, Ethertypes, Protocols
  <2>2. last.outcome = IF p.len < 14 THEN "ignored"
                       ELSE IF p.ethertype # "IPv4" THEN p.ethertype
                       ELSE IF p.len - 14 = 0 THEN "ignored"
                       ELSE IF 9 >= p.len - 14 THEN "panic" ELSE p.protocol
    BY <2>1 DEF PacketInv, handle_packet, handle_ipv4, ETHERNET_HEADER
  <2>3. dead <=> last.outcome = "panic"
    BY DEF PacketInv
  <2> HIDE DEF p
  <2>4. last.outcome = "panic" <=> p.ethertype = "IPv4" /\ p.len > 14 /\ p.len < 24
    BY <2>1, <2>2
  <2>5. p.ethertype = "IPv4" /\ p.len >= 34 => last.outcome = p.protocol
    BY <2>1, <2>2
  <2>6. p.len < 14 => last.outcome = "ignored"
    BY <2>2
  <2> QED
    BY <2>3, <2>4, <2>5, <2>6 DEF OnlyTruncatedHeaderPanics, ETHERNET_HEADER, p
<1> QED
  BY <1>1, <1>2, <1>3, PTL DEF NetSpec

-----------------------------------------------------------------------------
(***************************************************************************)
(* Sockets.  Identifiers are distinct and below the counter, so a search   *)
(* finds the socket it is for wherever it has moved to.                    *)
(***************************************************************************)
Sound(sock) ==
  /\ sock \in Records
  /\ sock.state = "Established" => sock.remote_addr # NoAddr
  /\ sock.state = "Listen" => sock.sock_type = "Stream"

GoodSockets(seq, next) ==
  /\ seq \in Seq(Records)
  /\ \A i \in DOMAIN seq : Sound(seq[i]) /\ seq[i].id \in 1 .. next - 1
  /\ \A i, j \in DOMAIN seq : seq[i].id = seq[j].id => i = j

SocketInv ==
  /\ next_socket_id \in 1 .. MaxSockets + 1
  /\ GoodSockets(sockets, next_socket_id)

Search(seq, id) ==
  LET matches == {i \in DOMAIN seq : seq[i].id = id}
  IN  IF matches = {} THEN NoSocket
      ELSE seq[CHOOSE i \in matches : \A j \in matches : i <= j]

LEMMA SearchIsLookup ==
  /\ \A id : SocketById(id) = Search(sockets, id)
  /\ \A id : SocketById(id)' = Search(sockets', id)
  BY DEF SocketById, Matches, Found, Search

(* With distinct identifiers, the search finds the one socket there is.    *)
LEMMA SearchFinds ==
  ASSUME NEW next, NEW seq, GoodSockets(seq, next)
  PROVE  /\ DOMAIN seq = 1 .. Len(seq) /\ Len(seq) \in Nat
         /\ \A i \in DOMAIN seq : Search(seq, seq[i].id) = seq[i] /\ seq[i] # NoSocket
         /\ \A id : (\A i \in DOMAIN seq : seq[i].id # id) => Search(seq, id) = NoSocket
<1>1. DOMAIN seq = 1 .. Len(seq) /\ Len(seq) \in Nat
  BY LenProperties DEF GoodSockets
<1>2. ASSUME NEW i \in DOMAIN seq PROVE Search(seq, seq[i].id) = seq[i] /\ seq[i] # NoSocket
  <2> DEFINE matches == {j \in DOMAIN seq : seq[j].id = seq[i].id}
  <2>1. matches = {i}
    BY DEF GoodSockets
  <2>2. i <= i
    BY <1>1, <1>2
  <2>3. (CHOOSE k \in matches : \A j \in matches : k <= j) = i
    BY <2>1, <2>2
  <2>4. seq[i] \in Records
    BY DEF GoodSockets, Sound
  <2> QED
    BY <2>1, <2>3, <2>4, NoSocketIsNoRecord DEF Search
<1>3. \A id : (\A i \in DOMAIN seq : seq[i].id # id) => Search(seq, id) = NoSocket
  BY DEF Search
<1> QED
  BY <1>1, <1>2, <1>3

(* socket: a new identifier, and the others keep their sockets.            *)
LEMMA SocketStep ==
  ASSUME SocketInv, NEW type \in SocketTypes, socket(type)
  PROVE  SocketInv' /\ Sockets!SocketsNext
<1> DEFINE id == next_socket_id
           new == NewSocket(id, type)
           n == Len(sockets)
<1>1. /\ id <= MaxSockets /\ sockets' = Append(sockets, new) /\ next_socket_id' = id + 1
  BY DEF socket
<1>2. id \in 1 .. MaxSockets /\ MaxSockets \in Nat /\ id \in Nat
  BY <1>1, NetConstants DEF SocketInv
<1>3. /\ new \in Records /\ new.id = id /\ new.state = "Closed"
      /\ new.remote_addr = NoAddr /\ new.sent = 0
  BY <1>2 DEF NewSocket, Records, SocketTypes, SocketStates, Peers
<1>4. Sound(new)
  BY <1>3 DEF Sound
<1>5. /\ GoodSockets(sockets, id) /\ sockets \in Seq(Records)
      /\ DOMAIN sockets = 1 .. n /\ n \in Nat
  BY SearchFinds DEF SocketInv, GoodSockets
<1> HIDE DEF new, id
<1>6. /\ sockets' \in Seq(Records) /\ DOMAIN sockets' = 1 .. n + 1
      /\ sockets'[n + 1] = new /\ \A i \in 1 .. n : sockets'[i] = sockets[i]
  BY <1>1, <1>3, <1>5, AppendProperties, LenProperties
<1> HIDE DEF n
<1>7. \A i \in 1 .. n + 1 : i \in 1 .. n \/ i = n + 1
  BY <1>5
<1>8. \A i \in 1 .. n : sockets[i].id \in Nat /\ sockets[i].id < id /\ sockets[i].id \in 1 .. id
  BY <1>2, <1>5 DEF GoodSockets
<1>9. GoodSockets(sockets', id + 1)
  <2>1. id + 1 - 1 = id /\ id \in 1 .. id
    BY <1>2
  <2>2. \A i \in DOMAIN sockets' : Sound(sockets'[i]) /\ sockets'[i].id \in 1 .. id
    BY <1>3, <1>4, <1>5, <1>6, <1>7, <1>8, <2>1 DEF GoodSockets
  <2>3. \A i \in 1 .. n : sockets[i].id # id
    BY <1>2, <1>8
  <2>4. \A i, j \in DOMAIN sockets' : sockets'[i].id = sockets'[j].id => i = j
    BY <1>3, <1>5, <1>6, <1>7, <2>3 DEF GoodSockets
  <2> QED
    BY <1>6, <2>1, <2>2, <2>4 DEF GoodSockets
<1>10. SocketInv'
  BY <1>1, <1>2, <1>9 DEF SocketInv, id
<1>11. Search(sockets', id) = new /\ new # NoSocket
  <2>1. n + 1 \in DOMAIN sockets'
    BY <1>5, <1>6
  <2> QED
    BY <1>3, <1>6, <1>9, <2>1, SearchFinds
<1>12. ASSUME NEW other, other # id PROVE Search(sockets', other) = Search(sockets, other)
  <2>1. CASE \E i \in DOMAIN sockets : sockets[i].id = other
    <3>1. PICK i \in 1 .. n : sockets[i].id = other
      BY <1>5, <2>1
    <3>2. i \in DOMAIN sockets' /\ sockets'[i].id = other
      BY <1>5, <1>6, <3>1
    <3>3. Search(sockets, other) = sockets[i]
      BY <1>2, <1>5, <3>1, SearchFinds
    <3>4. Search(sockets', other) = sockets'[i]
      BY <1>9, <3>2, SearchFinds
    <3> QED
      BY <1>6, <3>1, <3>3, <3>4
  <2>2. CASE \A i \in DOMAIN sockets : sockets[i].id # other
    <3>1. \A i \in DOMAIN sockets' : sockets'[i].id # other
      BY <1>3, <1>5, <1>6, <1>7, <1>12, <2>2
    <3> QED
      BY <1>5, <1>9, <2>2, <3>1, SearchFinds
  <2> QED
    BY <2>1, <2>2
<1>13. 1 .. id + 1 - 1 = (1 .. id - 1) \cup {id} /\ id \notin 1 .. id - 1
  BY <1>2
<1>14. /\ \A x \in 1 .. MaxSockets : SocketById(x) = Search(sockets, x)
       /\ \A x \in 1 .. MaxSockets : SocketById(x)' = Search(sockets', x)
  BY SearchIsLookup
<1>15. Sockets!Create(id)
  BY <1>1, <1>2, <1>3, <1>11, <1>13, <1>14 DEF Sockets!Create, id
<1> QED
  BY <1>2, <1>10, <1>12, <1>14, <1>15 DEF Sockets!SocketsNext

(* A call that gives the socket it names a new value.                      *)
LEMMA UpdateStep ==
  ASSUME SocketInv, NEW id \in 1 .. MaxSockets, NEW new, Update(id, new),
         Sound(new), new.id = id, Sockets!Lawful(SocketById(id), new)
  PROVE  SocketInv' /\ Sockets!SocketsNext
<1>1. /\ Matches(id) # {} /\ sockets' = [sockets EXCEPT ![Found(id)] = new]
      /\ next_socket_id' = next_socket_id
  BY DEF Update
<1>2. /\ GoodSockets(sockets, next_socket_id) /\ sockets \in Seq(Records)
      /\ DOMAIN sockets = 1 .. Len(sockets) /\ Len(sockets) \in Nat
  BY SearchFinds DEF SocketInv, GoodSockets
<1>3. PICK k \in DOMAIN sockets : sockets[k].id = id
  BY <1>1 DEF Matches
<1>4. Found(id) = k
  <2>1. Matches(id) = {k} /\ k <= k
    BY <1>2, <1>3 DEF Matches, GoodSockets
  <2> QED
    BY <2>1 DEF Found
<1>5. new \in Records
  BY DEF Sound
<1>6. /\ sockets' \in Seq(Records) /\ DOMAIN sockets' = DOMAIN sockets
      /\ sockets'[k] = new /\ \A i \in DOMAIN sockets : i # k => sockets'[i] = sockets[i]
  <2>1. sockets' = [sockets EXCEPT ![k] = new]
    BY <1>1, <1>4
  <2>2. sockets' \in Seq(Records)
    BY <1>2, <1>3, <1>5, <2>1, ExceptSeq
  <2> QED
    BY <1>2, <1>3, <2>1, <2>2
<1>7. \A i \in DOMAIN sockets : sockets'[i].id = sockets[i].id
  BY <1>3, <1>6
<1>8. GoodSockets(sockets', next_socket_id)
  <2>1. \A i \in DOMAIN sockets' : Sound(sockets'[i]) /\ sockets'[i].id \in 1 .. next_socket_id - 1
    BY <1>2, <1>6, <1>7 DEF GoodSockets
  <2>2. \A i, j \in DOMAIN sockets' : sockets'[i].id = sockets'[j].id => i = j
    BY <1>2, <1>6, <1>7 DEF GoodSockets
  <2> QED
    BY <1>6, <2>1, <2>2 DEF GoodSockets
<1>9. SocketInv'
  BY <1>1, <1>8 DEF SocketInv
<1>10. /\ Search(sockets, id) = sockets[k] /\ sockets[k] # NoSocket
       /\ Search(sockets', id) = new /\ new # NoSocket
  BY <1>2, <1>3, <1>6, <1>8, SearchFinds
<1>11. ASSUME NEW other, other # id PROVE Search(sockets', other) = Search(sockets, other)
  <2>1. CASE \E i \in DOMAIN sockets : sockets[i].id = other
    <3>1. PICK i \in DOMAIN sockets : sockets[i].id = other
      BY <2>1
    <3>2. i # k /\ sockets'[i] = sockets[i] /\ i \in DOMAIN sockets'
      BY <1>3, <1>6, <1>11, <3>1
    <3> QED
      BY <1>2, <1>8, <3>1, <3>2, SearchFinds
  <2>2. CASE \A i \in DOMAIN sockets : sockets[i].id # other
    <3>1. \A i \in DOMAIN sockets' : sockets'[i].id # other
      BY <1>6, <1>7, <2>2
    <3>2. Search(sockets, other) = NoSocket
      BY <1>2, <2>2, SearchFinds
    <3>3. Search(sockets', other) = NoSocket
      BY <1>8, <3>1, SearchFinds
    <3> QED
      BY <3>2, <3>3
  <2> QED
    BY <2>1, <2>2
<1>12. /\ \A x \in 1 .. MaxSockets : SocketById(x) = Search(sockets, x)
       /\ \A x \in 1 .. MaxSockets : SocketById(x)' = Search(sockets', x)
  BY SearchIsLookup
<1>13. Sockets!Change(id)
  BY <1>1, <1>10, <1>12 DEF Sockets!Change
<1> QED
  BY <1>9, <1>11, <1>12, <1>13 DEF Sockets!SocketsNext

(* The socket that a call finds.                                           *)
LEMMA FoundSocket ==
  ASSUME SocketInv, NEW id, Matches(id) # {}
  PROVE  Sound(SocketById(id)) /\ SocketById(id).id = id
<1>1. GoodSockets(sockets, next_socket_id)
  BY DEF SocketInv
<1>2. PICK k \in DOMAIN sockets : sockets[k].id = id
  BY DEF Matches
<1>3. SocketById(id) = sockets[k]
  BY <1>1, <1>2, SearchFinds, SearchIsLookup
<1> QED
  BY <1>1, <1>2, <1>3 DEF GoodSockets

(* bind, listen, connect, send and recv keep a socket sound and lawful.    *)
LEMMA CallStep ==
  ASSUME SocketInv, NEW id \in 1 .. MaxSockets,
         \/ \E addr \in Addrs : bind(id, addr) \/ connect(id, addr)
         \/ \E m \in 1 .. MaxSent : send(id, m) \/ recv(id, m)
         \/ listen(id)
  PROVE  SocketInv' /\ Sockets!SocketsNext
<1> DEFINE old == SocketById(id)
<1>1. Matches(id) # {}
  BY DEF bind, connect, send, recv, listen, Update
<1>2. Sound(old) /\ old.id = id
  BY <1>1, FoundSocket
<1>3. /\ old \in Records /\ old.received \in Nat /\ old.sent \in Nat
      /\ old.state = "Established" => old.remote_addr # NoAddr
      /\ old.state = "Listen" => old.sock_type = "Stream"
  BY <1>2 DEF Sound, Records
<1> HIDE DEF old
<1>4. ASSUME NEW addr \in Addrs, bind(id, addr) PROVE SocketInv' /\ Sockets!SocketsNext
  <2> DEFINE new == [old EXCEPT !.local_addr = addr]
  <2>1. /\ new \in Records /\ new.id = id /\ new.state = old.state /\ new.sent = old.sent
        /\ new.remote_addr = old.remote_addr /\ new.sock_type = old.sock_type
    BY <1>2, <1>3 DEF Records, Peers
  <2>2. Update(id, new)
    BY <1>4 DEF bind, old
  <2> HIDE DEF new
  <2>3. Sound(new) /\ Sockets!Lawful(old, new)
    BY <1>3, <2>1 DEF Sound, Sockets!Lawful
  <2> QED
    BY <2>1, <2>2, <2>3, UpdateStep DEF old
<1>5. ASSUME NEW addr \in Addrs, connect(id, addr) PROVE SocketInv' /\ Sockets!SocketsNext
  <2> DEFINE new == [old EXCEPT !.remote_addr = addr, !.state = "Established"]
  <2>1. /\ new \in Records /\ new.id = id /\ new.state = "Established" /\ new.sent = old.sent
        /\ new.remote_addr = addr /\ new.sock_type = old.sock_type
    BY <1>2, <1>3 DEF Records, Peers, SocketStates
  <2>2. Update(id, new)
    BY <1>5 DEF connect, old
  <2>3. addr # NoAddr
    BY <1>5, NetConstants
  <2> HIDE DEF new
  <2>4. Sound(new) /\ Sockets!Lawful(old, new)
    BY <1>3, <2>1, <2>3 DEF Sound, Sockets!Lawful
  <2> QED
    BY <2>1, <2>2, <2>4, UpdateStep DEF old
<1>6. ASSUME NEW m \in 1 .. MaxSent, send(id, m) PROVE SocketInv' /\ Sockets!SocketsNext
  <2> DEFINE new == [old EXCEPT !.sent = @ + m]
  <2>0. m \in Nat /\ old.sent + m \in Nat /\ old.sent + m > old.sent
    BY <1>3, <1>6, NetConstants
  <2>1. /\ new \in Records /\ new.id = id /\ new.state = old.state /\ new.sent = old.sent + m
        /\ new.remote_addr = old.remote_addr /\ new.sock_type = old.sock_type
        /\ new = [old EXCEPT !.sent = new.sent]
    BY <1>2, <1>3, <2>0 DEF Records
  <2>2. Update(id, new) /\ old.state = "Established"
    BY <1>6 DEF send, old
  <2> HIDE DEF new
  <2>3. Sound(new) /\ Sockets!Lawful(old, new)
    BY <1>3, <2>0, <2>1, <2>2 DEF Sound, Sockets!Lawful
  <2> QED
    BY <2>1, <2>2, <2>3, UpdateStep DEF old
<1>7. ASSUME NEW m \in 1 .. MaxSent, recv(id, m) PROVE SocketInv' /\ Sockets!SocketsNext
  <2> DEFINE rest == IF old.received < m THEN 0 ELSE old.received - m
             new == [old EXCEPT !.received = rest]
  <2>0. rest \in Nat
    BY <1>3, <1>7, NetConstants
  <2>1. Update(id, new)
    BY <1>7 DEF recv, old
  <2> HIDE DEF rest
  <2>2. /\ new \in Records /\ new.id = id /\ new.state = old.state /\ new.sent = old.sent
        /\ new.remote_addr = old.remote_addr /\ new.sock_type = old.sock_type
    BY <1>2, <1>3, <2>0 DEF Records
  <2> HIDE DEF new
  <2>3. Sound(new) /\ Sockets!Lawful(old, new)
    BY <1>3, <2>2 DEF Sound, Sockets!Lawful
  <2> QED
    BY <2>1, <2>2, <2>3, UpdateStep DEF old
<1>8. CASE listen(id)
  <2> DEFINE new == [old EXCEPT !.state = "Listen"]
  <2>1. /\ new \in Records /\ new.id = id /\ new.state = "Listen" /\ new.sent = old.sent
        /\ new.remote_addr = old.remote_addr /\ new.sock_type = old.sock_type
    BY <1>2, <1>3 DEF Records, SocketStates
  <2>2. Update(id, new) /\ old.sock_type = "Stream"
    BY <1>8 DEF listen, old
  <2> HIDE DEF new
  <2>3. Sound(new) /\ Sockets!Lawful(old, new)
    BY <1>3, <2>1, <2>2 DEF Sound, Sockets!Lawful
  <2> QED
    BY <2>1, <2>2, <2>3, UpdateStep DEF old
<1> QED
  BY <1>4, <1>5, <1>6, <1>7, <1>8

(* close: the others move up and keep their identifiers.                   *)
LEMMA SocketCloseStep ==
  ASSUME SocketInv, NEW id \in 1 .. MaxSockets, close(id)
  PROVE  SocketInv' /\ Sockets!SocketsNext
<1> DEFINE n == Len(sockets)
<1>1. /\ Matches(id) # {} /\ sockets' = Without(sockets, Found(id))
      /\ next_socket_id' = next_socket_id
  BY DEF close, Without
<1>2. /\ GoodSockets(sockets, next_socket_id) /\ sockets \in Seq(Records)
      /\ DOMAIN sockets = 1 .. n /\ n \in Nat
  BY SearchFinds DEF SocketInv, GoodSockets
<1>3. PICK k \in 1 .. n : sockets[k].id = id
  BY <1>1, <1>2 DEF Matches
<1>4. Found(id) = k
  <2>1. Matches(id) = {k} /\ k <= k
    BY <1>2, <1>3 DEF Matches, GoodSockets
  <2> QED
    BY <2>1 DEF Found
<1>5. /\ sockets' \in Seq(Records) /\ DOMAIN sockets' = 1 .. n - 1
      /\ \A j \in 1 .. n - 1 : After(k, j) \in 1 .. n /\ sockets'[j] = sockets[After(k, j)]
  <2>1. /\ Without(sockets, k) \in Seq(Records) /\ Len(Without(sockets, k)) = n - 1
        /\ \A j \in 1 .. n - 1 : After(k, j) \in 1 .. n /\ Without(sockets, k)[j] = sockets[After(k, j)]
    BY <1>2, <1>3, WithoutEffect
  <2>2. DOMAIN Without(sockets, k) = 1 .. n - 1
    BY <2>1, LenProperties
  <2> QED
    BY <1>1, <1>4, <2>1, <2>2
<1> HIDE DEF n
<1>6. /\ \A j \in 1 .. n - 1 : After(k, j) # k
      /\ \A i, j \in 1 .. n - 1 : After(k, i) = After(k, j) => i = j
      /\ \A i \in 1 .. n : i # k => \E j \in 1 .. n - 1 : After(k, j) = i
  <2>1. \A i \in 1 .. n : i # k =>
          LET j == IF i < k THEN i ELSE i - 1 IN j \in 1 .. n - 1 /\ After(k, j) = i
    BY <1>2, <1>3 DEF After
  <2>2. \A i \in 1 .. n : i # k => \E j \in 1 .. n - 1 : After(k, j) = i
    BY <2>1
  <2>3. \A j \in 1 .. n - 1 : After(k, j) # k
    BY <1>2, <1>3 DEF After
  <2>4. \A i, j \in 1 .. n - 1 : After(k, i) = After(k, j) => i = j
    BY <1>2, <1>3 DEF After
  <2> QED
    BY <2>2, <2>3, <2>4
<1>7. GoodSockets(sockets', next_socket_id)
  <2>1. \A i \in DOMAIN sockets' : Sound(sockets'[i]) /\ sockets'[i].id \in 1 .. next_socket_id - 1
    BY <1>2, <1>5 DEF GoodSockets
  <2>2. \A i, j \in DOMAIN sockets' : sockets'[i].id = sockets'[j].id => i = j
    BY <1>2, <1>5, <1>6 DEF GoodSockets
  <2> QED
    BY <1>5, <2>1, <2>2 DEF GoodSockets
<1>8. SocketInv'
  BY <1>1, <1>7 DEF SocketInv
<1>9. Search(sockets, id) # NoSocket /\ Search(sockets', id) = NoSocket
  <2>1. \A j \in DOMAIN sockets' : sockets'[j].id # id
    <3>1. \A i \in 1 .. n : sockets[i].id = id => i = k
      BY <1>2, <1>3 DEF GoodSockets
    <3>2. TAKE j \in DOMAIN sockets'
    <3>3. After(k, j) \in 1 .. n /\ sockets'[j] = sockets[After(k, j)] /\ After(k, j) # k
      BY <1>5, <1>6, <3>2
    <3> QED
      BY <3>1, <3>3
  <2> QED
    BY <1>2, <1>3, <1>7, <2>1, SearchFinds
<1>10. ASSUME NEW other, other # id PROVE Search(sockets', other) = Search(sockets, other)
  <2>1. CASE \E i \in DOMAIN sockets : sockets[i].id = other
    <3>1. PICK i \in 1 .. n : sockets[i].id = other
      BY <1>2, <2>1
    <3>2. i # k
      BY <1>3, <1>10, <3>1
    <3>3. PICK j \in 1 .. n - 1 : After(k, j) = i
      BY <1>6, <3>2
    <3>4. sockets'[j] = sockets[i] /\ j \in DOMAIN sockets'
      BY <1>5, <3>3
    <3> QED
      BY <1>2, <1>7, <3>1, <3>4, SearchFinds
  <2>2. CASE \A i \in DOMAIN sockets : sockets[i].id # other
    <3>1. \A i \in DOMAIN sockets' : sockets'[i].id # other
      BY <1>2, <1>5, <2>2
    <3> QED
      BY <1>2, <1>7, <2>2, <3>1, SearchFinds
  <2> QED
    BY <2>1, <2>2
<1>11. /\ \A x \in 1 .. MaxSockets : SocketById(x) = Search(sockets, x)
       /\ \A x \in 1 .. MaxSockets : SocketById(x)' = Search(sockets', x)
  BY SearchIsLookup
<1>12. Sockets!Destroy(id)
  BY <1>1, <1>9, <1>11 DEF Sockets!Destroy
<1> QED
  BY <1>8, <1>10, <1>11, <1>12 DEF Sockets!SocketsNext

(* A socket identifier names one socket from its creation to its close and *)
(* never another, whatever was removed from the vector in between; calls   *)
(* change only the socket they name and leave no socket established        *)
(* without a peer, listening without being a stream, or with data it took  *)
(* before it was established.                                              *)
THEOREM NetImplementsSockets == NetSpec => NetRefinement
<1>1. NetInit => SocketInv /\ Sockets!SocketsInit
  <2> SUFFICES ASSUME NetInit PROVE SocketInv /\ Sockets!SocketsInit
    OBVIOUS
  <2>1. sockets = <<>> /\ next_socket_id = 1
    BY DEF NetInit
  <2>2. DOMAIN sockets = {} /\ sockets \in Seq(Records)
    BY <2>1
  <2>3. GoodSockets(sockets, next_socket_id)
    BY <2>2 DEF GoodSockets
  <2>4. 1 .. next_socket_id - 1 = {} /\ next_socket_id \in 1 .. MaxSockets + 1
    BY <2>1, NetConstants
  <2>5. \A id \in 1 .. MaxSockets : SocketById(id) = NoSocket
    BY <2>2 DEF SocketById, Matches
  <2> QED
    BY <2>3, <2>4, <2>5 DEF SocketInv, Sockets!SocketsInit
<1>2. SocketInv /\ [NetNext]_netVars => SocketInv' /\ [Sockets!SocketsNext]_(Sockets!socketVars)
  <2> SUFFICES ASSUME SocketInv, [NetNext]_netVars
               PROVE  SocketInv' /\ [Sockets!SocketsNext]_(Sockets!socketVars)
    OBVIOUS
  <2>1. CASE SocketNext
    BY <2>1, SocketStep, CallStep, SocketCloseStep DEF SocketNext, SocketCall
  <2>2. CASE PacketNext \/ UNCHANGED netVars
    <3>1. sockets' = sockets /\ next_socket_id' = next_socket_id
      BY <2>2 DEF PacketNext, Receive, netVars
    <3>2. \A id \in 1 .. MaxSockets : SocketById(id)' = SocketById(id)
      BY <3>1, SearchIsLookup
    <3> QED
      BY <3>1, <3>2 DEF SocketInv, Sockets!socketVars
  <2> QED
    BY <2>1, <2>2 DEF NetNext
<1> QED
  BY <1>1, <1>2, PTL DEF NetSpec, NetRefinement, Sockets!SocketsSpec

-----------------------------------------------------------------------------
(***************************************************************************)
(* System calls.                                                           *)
(***************************************************************************)
Handled == {"EXIT", "GETPID", "WRITE", "READ", "ZARYA_VERSION"}

(* The names of a group.                                                   *)
Group(seq, n) == {seq[i] : i \in 1 .. n}

CallSet == Group(FileCalls, 20) \cup Group(ProcessCalls, 20) \cup Group(MemoryCalls, 10)
             \cup Group(IpcCalls, 10) \cup Group(TimeCalls, 10) \cup Group(ZaryaCalls, 16)

LEMMA GroupIsSeq ==
  ASSUME NEW seq, NEW n \in Nat, seq = [i \in 1 .. n |-> seq[i]], Group(seq, n) \subseteq CallSet
  PROVE  seq \in Seq(CallSet)
<1>1. seq \in [1 .. n -> CallSet]
  BY DEF Group
<1> QED
  BY <1>1, SeqDef

LEMMA Joined ==
  ASSUME NEW S, NEW s \in Seq(S), NEW t \in Seq(S)
  PROVE  /\ s \o t \in Seq(S) /\ Len(s \o t) = Len(s) + Len(t)
         /\ \A i \in 1 .. Len(s) : (s \o t)[i] = s[i]
         /\ \A i \in 1 .. Len(t) : (s \o t)[Len(s) + i] = t[i]
<1> DEFINE m == Len(s)
           n == Len(t)
<1>1. /\ s \o t \in Seq(S) /\ Len(s \o t) = m + n
      /\ \A i \in 1 .. m + n : (s \o t)[i] = IF i <= m THEN s[i] ELSE t[i - m]
  BY ConcatProperties
<1>2. m \in Nat /\ n \in Nat
  BY LenProperties
<1> HIDE DEF m, n
<1>3. \A i \in 1 .. m : i \in 1 .. m + n /\ i <= m
  BY <1>2
<1>5. \A i \in 1 .. m : (s \o t)[i] = s[i]
  BY <1>1, <1>3
<1>6. ASSUME NEW i \in 1 .. n PROVE (s \o t)[m + i] = t[i]
  <2> DEFINE k == m + i
  <2>1. k \in 1 .. m + n /\ ~(k <= m) /\ k - m = i
    BY <1>2
  <2> HIDE DEF k
  <2>2. (s \o t)[k] = IF k <= m THEN s[k] ELSE t[k - m]
    BY <1>1, <2>1
  <2> QED
    BY <2>1, <2>2 DEF k
<1> QED
  BY <1>1, <1>5, <1>6 DEF m, n

LEMMA CallNames ==
  /\ PosixCalls \in Seq(CallSet) /\ Len(PosixCalls) = 70
  /\ ZaryaCalls \in Seq(CallSet) /\ Len(ZaryaCalls) = 16
  /\ PosixCalls[21] = "EXIT" /\ PosixCalls[25] = "GETPID" /\ PosixCalls[4] = "WRITE"
  /\ PosixCalls[3] = "READ" /\ ZaryaCalls[1] = "ZARYA_VERSION"
<1>1. /\ FileCalls \in Seq(CallSet) /\ Len(FileCalls) = 20
      /\ FileCalls[3] = "READ" /\ FileCalls[4] = "WRITE"
  <2>1. FileCalls = [i \in 1 .. 20 |-> FileCalls[i]]
    BY DEF FileCalls
  <2>2. FileCalls \in Seq(CallSet)
    BY <2>1, GroupIsSeq DEF CallSet
  <2> QED
    BY <2>2 DEF FileCalls
<1>2. /\ ProcessCalls \in Seq(CallSet) /\ Len(ProcessCalls) = 20
      /\ ProcessCalls[1] = "EXIT" /\ ProcessCalls[5] = "GETPID"
  <2>1. ProcessCalls = [i \in 1 .. 20 |-> ProcessCalls[i]]
    BY DEF ProcessCalls
  <2>2. ProcessCalls \in Seq(CallSet)
    BY <2>1, GroupIsSeq DEF CallSet
  <2> QED
    BY <2>2 DEF ProcessCalls
<1>3. MemoryCalls \in Seq(CallSet) /\ Len(MemoryCalls) = 10
  <2>1. MemoryCalls = [i \in 1 .. 10 |-> MemoryCalls[i]] /\ Len(MemoryCalls) = 10
    BY DEF MemoryCalls
  <2> QED
    BY <2>1, GroupIsSeq DEF CallSet
<1>4. IpcCalls \in Seq(CallSet) /\ Len(IpcCalls) = 10
  <2>1. IpcCalls = [i \in 1 .. 10 |-> IpcCalls[i]] /\ Len(IpcCalls) = 10
    BY DEF IpcCalls
  <2> QED
    BY <2>1, GroupIsSeq DEF CallSet
<1>5. TimeCalls \in Seq(CallSet) /\ Len(TimeCalls) = 10
  <2>1. TimeCalls = [i \in 1 .. 10 |-> TimeCalls[i]] /\ Len(TimeCalls) = 10
    BY DEF TimeCalls
  <2> QED
    BY <2>1, GroupIsSeq DEF CallSet
<1>6. ZaryaCalls \in Seq(CallSet) /\ Len(ZaryaCalls) = 16 /\ ZaryaCalls[1] = "ZARYA_VERSION"
  <2>1. ZaryaCalls = [i \in 1 .. 16 |-> ZaryaCalls[i]] /\ Len(ZaryaCalls) = 16
    BY DEF ZaryaCalls
  <2>2. ZaryaCalls \in Seq(CallSet)
    BY <2>1, GroupIsSeq DEF CallSet
  <2> QED
    BY <2>1, <2>2 DEF ZaryaCalls
<1> DEFINE two == FileCalls \o ProcessCalls
           three == two \o MemoryCalls
           four == three \o IpcCalls
<1>7. /\ two \in Seq(CallSet) /\ Len(two) = 40 /\ two[3] = "READ" /\ two[4] = "WRITE"
      /\ two[21] = "EXIT" /\ two[25] = "GETPID"
  <2>1. /\ two \in Seq(CallSet) /\ Len(two) = Len(FileCalls) + Len(ProcessCalls)
        /\ \A i \in 1 .. Len(FileCalls) : two[i] = FileCalls[i]
        /\ \A i \in 1 .. Len(ProcessCalls) : two[Len(FileCalls) + i] = ProcessCalls[i]
    <3>1. FileCalls \in Seq(CallSet) /\ ProcessCalls \in Seq(CallSet)
      BY <1>1, <1>2
    <3> QED
      BY <3>1, Joined
  <2> HIDE DEF two
  <2>2. two[20 + 1] = "EXIT" /\ two[20 + 5] = "GETPID"
    BY <1>1, <1>2, <2>1
  <2> QED
    BY <1>1, <1>2, <2>1, <2>2
<1> HIDE DEF two
<1>8. /\ three \in Seq(CallSet) /\ Len(three) = 50 /\ \A i \in 1 .. 40 : three[i] = two[i]
  <2>1. /\ three \in Seq(CallSet) /\ Len(three) = Len(two) + Len(MemoryCalls)
        /\ \A i \in 1 .. Len(two) : three[i] = two[i]
    <3>1. two \in Seq(CallSet) /\ MemoryCalls \in Seq(CallSet)
      BY <1>3, <1>7
    <3> QED
      BY <3>1, Joined
  <2> HIDE DEF three
  <2> QED
    BY <1>3, <1>7, <2>1
<1> HIDE DEF three
<1>9. /\ four \in Seq(CallSet) /\ Len(four) = 60 /\ \A i \in 1 .. 50 : four[i] = three[i]
  <2>1. /\ four \in Seq(CallSet) /\ Len(four) = Len(three) + Len(IpcCalls)
        /\ \A i \in 1 .. Len(three) : four[i] = three[i]
    <3>1. three \in Seq(CallSet) /\ IpcCalls \in Seq(CallSet)
      BY <1>4, <1>8
    <3> QED
      BY <3>1, Joined
  <2> HIDE DEF four
  <2> QED
    BY <1>4, <1>8, <2>1
<1> HIDE DEF four
<1> DEFINE five == four \o TimeCalls
<1>10. /\ five \in Seq(CallSet) /\ Len(five) = 70 /\ \A i \in 1 .. 60 : five[i] = four[i]
  <2>1. /\ five \in Seq(CallSet) /\ Len(five) = Len(four) + Len(TimeCalls)
        /\ \A i \in 1 .. Len(four) : five[i] = four[i]
    <3>1. four \in Seq(CallSet) /\ TimeCalls \in Seq(CallSet)
      BY <1>5, <1>9
    <3> QED
      BY <3>1, Joined
  <2> HIDE DEF five
  <2> QED
    BY <1>5, <1>9, <2>1
<1> HIDE DEF five
<1>11. PosixCalls = five
  BY DEF PosixCalls, two, three, four, five
<1>12. \A i \in 1 .. 40 : PosixCalls[i] = two[i]
  <2>1. \A i \in 1 .. 40 : i \in 1 .. 50 /\ i \in 1 .. 60
    OBVIOUS
  <2> QED
    BY <1>8, <1>9, <1>10, <1>11, <2>1
<1>13. {3, 4, 21, 25} \subseteq 1 .. 40
  OBVIOUS
<1>14. /\ PosixCalls[21] = "EXIT" /\ PosixCalls[25] = "GETPID" /\ PosixCalls[4] = "WRITE"
       /\ PosixCalls[3] = "READ"
  BY <1>7, <1>12, <1>13
<1> QED
  BY <1>6, <1>10, <1>11, <1>14

(* Every call that is handled has a name, and so a number of its own that  *)
(* lies below the end of the last group.                                   *)
LEMMA Numbers ==
  /\ \A name \in Handled : NumberOf(name) \in 0 .. (FIRST_ZARYA + Len(ZaryaCalls)) - 1
  /\ \A a, b \in Handled : NumberOf(a) = NumberOf(b) => a = b
<1> DEFINE place(name) == CHOOSE i \in DOMAIN Names : Names[i] = name
<1>1. /\ Names \in Seq(CallSet) /\ DOMAIN Names = 1 .. 86
      /\ \A i \in 1 .. 70 : Names[i] = PosixCalls[i]
      /\ Names[71] = ZaryaCalls[1]
  <2>1. /\ Names \in Seq(CallSet) /\ Len(Names) = Len(PosixCalls) + Len(ZaryaCalls)
        /\ \A i \in 1 .. Len(PosixCalls) : Names[i] = PosixCalls[i]
        /\ \A i \in 1 .. Len(ZaryaCalls) : Names[Len(PosixCalls) + i] = ZaryaCalls[i]
    <3>1. PosixCalls \in Seq(CallSet) /\ ZaryaCalls \in Seq(CallSet)
      BY CallNames
    <3> QED
      BY <3>1, Joined DEF Names
  <2>2. Names[70 + 1] = ZaryaCalls[1] /\ Len(Names) = 86
    BY <2>1, CallNames
  <2> QED
    BY <2>1, <2>2, CallNames, LenProperties
<1>2. \A name \in Handled : \E i \in 1 .. 86 : Names[i] = name
  <2>1. /\ Names[21] = "EXIT" /\ Names[25] = "GETPID" /\ Names[4] = "WRITE"
        /\ Names[3] = "READ" /\ Names[71] = "ZARYA_VERSION"
    BY <1>1, CallNames
  <2>2. 21 \in 1 .. 86 /\ 25 \in 1 .. 86 /\ 4 \in 1 .. 86 /\ 3 \in 1 .. 86 /\ 71 \in 1 .. 86
    OBVIOUS
  <2> QED
    BY <2>1, <2>2 DEF Handled
<1>3. \A name \in Handled : place(name) \in 1 .. 86 /\ Names[place(name)] = name
  BY <1>1, <1>2
<1>4. \A i \in 1 .. 86 : SYS[i] = IF i <= 70 THEN i - 1 ELSE 100 + i - 70 - 1
  BY <1>1, CallNames DEF SYS, FIRST_ZARYA
<1>5. \A i \in 1 .. 86 : SYS[i] \in 0 .. 115
  BY <1>4
<1>6. \A i, j \in 1 .. 86 : SYS[i] = SYS[j] => i = j
  <2> TAKE i, j \in 1 .. 86
  <2>1. /\ SYS[i] = IF i <= 70 THEN i - 1 ELSE 100 + i - 70 - 1
        /\ SYS[j] = IF j <= 70 THEN j - 1 ELSE 100 + j - 70 - 1
    BY <1>4
  <2> QED
    BY <2>1
<1>7. \A name \in Handled : NumberOf(name) = SYS[place(name)]
  BY DEF NumberOf
<1> HIDE DEF place
<1>8. (FIRST_ZARYA + Len(ZaryaCalls)) - 1 = 115
  BY CallNames DEF FIRST_ZARYA
<1>9. \A name \in Handled : NumberOf(name) \in 0 .. 115
  BY <1>3, <1>5, <1>7
<1>10. \A a, b \in Handled : NumberOf(a) = NumberOf(b) => a = b
  <2> TAKE a, b \in Handled
  <2> HAVE NumberOf(a) = NumberOf(b)
  <2>1. /\ place(a) \in 1 .. 86 /\ Names[place(a)] = a
        /\ place(b) \in 1 .. 86 /\ Names[place(b)] = b
    BY <1>3
  <2>2. SYS[place(a)] = SYS[place(b)]
    BY <1>7
  <2>3. place(a) = place(b)
    BY <1>6, <2>1, <2>2
  <2> QED
    BY <2>1, <2>3
<1> QED
  BY <1>8, <1>9, <1>10

(* While the table is filled, it holds what the match holds, and all that  *)
(* has been registered.                                                    *)
SysInv ==
  /\ registered \in 0 .. 5
  /\ DOMAIN entries = 0 .. TABLE_SIZE - 1
  /\ \A num \in 0 .. TABLE_SIZE - 1 :
       entries[num] # NoHandler => num \in DOMAIN Arms /\ entries[num] = Arms[num]
  /\ \A k \in 1 .. registered : entries[NumberOf(Registrations[k])] = Registrations[k]

LEMMA ArmsAreHandled ==
  /\ DOMAIN Arms = {NumberOf(name) : name \in Handled}
  /\ \A name \in Handled : Arms[NumberOf(name)] = name
<1>1. Arms = [num \in {NumberOf(name) : name \in Handled} |->
                CHOOSE name \in Handled : NumberOf(name) = num]
  BY DEF Arms, Handled
<1>2. ASSUME NEW name \in Handled
      PROVE  (CHOOSE n \in Handled : NumberOf(n) = NumberOf(name)) = name
  BY Numbers
<1> QED
  BY <1>1, <1>2

LEMMA RegistrationsAreHandled ==
  /\ Len(Registrations) = 5
  /\ \A k \in 1 .. 5 : Registrations[k] \in Handled /\ Registrations[k] # NoHandler
  /\ \A name \in Handled : \E k \in 1 .. 5 : Registrations[k] = name
<1>1. Len(Registrations) = 5 /\ Registrations[1] = "EXIT" /\ Registrations[2] = "GETPID"
      /\ Registrations[3] = "WRITE" /\ Registrations[4] = "READ"
      /\ Registrations[5] = "ZARYA_VERSION"
  BY DEF Registrations
<1>2. \A k \in 1 .. 5 : k \in {1, 2, 3, 4, 5}
  OBVIOUS
<1>3. {1, 2, 3, 4, 5} \subseteq 1 .. 5
  OBVIOUS
<1> QED
  BY <1>1, <1>2, <1>3 DEF Handled, NoHandler

(* The table and the match of syscall_handler give the same answer for     *)
(* every number; while init_syscalls is still filling the table it may     *)
(* refuse a call, and never answers for another one.  The hypothesis: the  *)
(* highest number, the last of Zarya's own, lies inside the table.         *)
THEOREM TableMatchesHandler ==
  ASSUME FIRST_ZARYA + Len(ZaryaCalls) <= TABLE_SIZE
  PROVE  SysSpec => []TableAgrees
<1>0. /\ TABLE_SIZE \in Nat
      /\ \A name \in Handled : NumberOf(name) \in 0 .. TABLE_SIZE - 1
  <2> DEFINE top == FIRST_ZARYA + Len(ZaryaCalls)
  <2>1. top = 116 /\ TABLE_SIZE \in Nat /\ top <= TABLE_SIZE
    BY CallNames, SyscallConstants DEF FIRST_ZARYA
  <2>2. \A name \in Handled : NumberOf(name) \in 0 .. top - 1
    BY Numbers
  <2> HIDE DEF top
  <2>3. 0 .. top - 1 \subseteq 0 .. TABLE_SIZE - 1
    BY <2>1
  <2> QED
    BY <2>1, <2>2, <2>3
<1>1. SysInit => SysInv
  <2> SUFFICES ASSUME SysInit PROVE SysInv
    OBVIOUS
  <2>1. registered = 0 /\ entries = [num \in 0 .. TABLE_SIZE - 1 |-> NoHandler]
    BY DEF SysInit
  <2> QED
    BY <2>1 DEF SysInv
<1>2. SysInv /\ [SysNext]_sysVars => SysInv'
  <2> SUFFICES ASSUME SysInv, [SysNext]_sysVars PROVE SysInv'
    OBVIOUS
  <2>1. CASE InitSyscalls
    <3> DEFINE name == Registrations[registered + 1]
               num == NumberOf(name)
    <3>1. registered \in 0 .. 4 /\ registered' = registered + 1 /\ register(num, name)
      BY <2>1, RegistrationsAreHandled DEF InitSyscalls, SysInv
    <3>2. name \in Handled /\ name # NoHandler
      BY <3>1, RegistrationsAreHandled
    <3>3. num \in 0 .. TABLE_SIZE - 1 /\ num < TABLE_SIZE
      BY <1>0, <3>2
    <3>4. entries' = [entries EXCEPT ![num] = name]
      BY <3>1, <3>3 DEF register
    <3>5. num \in DOMAIN Arms /\ Arms[num] = name
      BY <3>2, ArmsAreHandled
    <3>6. \A k \in 1 .. registered :
            /\ NumberOf(Registrations[k]) \in 0 .. TABLE_SIZE - 1
            /\ NumberOf(Registrations[k]) = num => Registrations[k] = name
      <4>1. \A k \in 1 .. registered : Registrations[k] \in Handled
        BY <3>1, RegistrationsAreHandled
      <4> QED
        BY <1>0, <3>2, <4>1, Numbers
    <3>7. \A k \in 1 .. registered + 1 : k \in 1 .. registered \/ k = registered + 1
      BY <3>1
    <3>8. registered + 1 \in 0 .. 5
      BY <3>1
    <3> HIDE DEF num
    <3>9. \A k \in 1 .. registered : entries[NumberOf(Registrations[k])] = Registrations[k]
      BY DEF SysInv
    <3>10. /\ DOMAIN entries' = 0 .. TABLE_SIZE - 1 /\ entries'[num] = name
           /\ \A m \in 0 .. TABLE_SIZE - 1 : m # num => entries'[m] = entries[m]
      BY <3>3, <3>4 DEF SysInv
    <3>11. \A k \in 1 .. registered' : entries'[NumberOf(Registrations[k])] = Registrations[k]
      BY <3>1, <3>6, <3>7, <3>9, <3>10 DEF num
    <3>12. \A m \in 0 .. TABLE_SIZE - 1 :
             entries'[m] # NoHandler => m \in DOMAIN Arms /\ entries'[m] = Arms[m]
      BY <3>5, <3>10 DEF SysInv
    <3> QED
      BY <3>1, <3>8, <3>10, <3>11, <3>12 DEF SysInv
  <2>2. CASE entries' = entries /\ registered' = registered
    BY <2>2 DEF SysInv
  <2> QED
    BY <2>1, <2>2 DEF SysNext, Exit, sysVars
<1>3. SysInv => TableAgrees
  <2> SUFFICES ASSUME SysInv, NEW num \in 0 .. TABLE_SIZE + 1, NEW count \in Args
               PROVE  \/ dispatch(num, count) = syscall_handler(num, count)
                      \/ registered < Len(Registrations) /\ dispatch(num, count) = U64_MAX
    BY DEF TableAgrees
  <2>1. CASE num < TABLE_SIZE /\ entries[num] # NoHandler
    <3>1. num \in 0 .. TABLE_SIZE - 1
      BY <1>0, <2>1
    <3>2. num \in DOMAIN Arms /\ entries[num] = Arms[num]
      BY <2>1, <3>1 DEF SysInv
    <3> QED
      BY <2>1, <3>2 DEF dispatch, syscall_handler
  <2>2. CASE ~(num < TABLE_SIZE /\ entries[num] # NoHandler)
    <3>1. dispatch(num, count) = U64_MAX
      BY <2>2 DEF dispatch
    <3>2. CASE num \notin DOMAIN Arms
      BY <3>1, <3>2 DEF syscall_handler
    <3>3. CASE num \in DOMAIN Arms
      <4>1. PICK name \in Handled : num = NumberOf(name)
        BY <3>3, ArmsAreHandled
      <4>2. PICK k \in 1 .. 5 : Registrations[k] = name
        BY RegistrationsAreHandled
      <4>3. num \in 0 .. TABLE_SIZE - 1 /\ num < TABLE_SIZE
        BY <1>0, <4>1
      <4>4. registered # 5
        <5>1. ASSUME registered = 5 PROVE entries[num] = name
          BY <4>1, <4>2, <5>1 DEF SysInv
        <5>2. name # NoHandler
          BY <4>2, RegistrationsAreHandled
        <5> QED
          BY <2>2, <4>3, <5>1, <5>2
      <4>5. registered < 5
        BY <4>4 DEF SysInv
      <4> QED
        BY <3>1, <4>5, RegistrationsAreHandled
    <3> QED
      BY <3>2, <3>3
  <2> QED
    BY <2>1, <2>2
<1> QED
  BY <1>1, <1>2, <1>3, PTL DEF SysSpec
=============================================================================
