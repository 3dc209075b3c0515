------------------------------- MODULE Syscall -------------------------------
(***************************************************************************)
(* System calls: src/zarya-os/kernel/src/syscall/mod.rs.  There are two    *)
(* ways from a number to a function, the table that init_syscalls fills    *)
(* and the match of syscall_handler, which is the one that is called.      *)
(* sys_exit does not return.  Bodies that only print are left out.         *)
(***************************************************************************)
EXTENDS Naturals, Sequences

CONSTANTS
  TABLE_SIZE,     \* 256 in the code
  U64_MAX,        \* u64::MAX: the answer to an unknown number
  Args,           \* counts that sys_write is called with
  Processes       \* user processes

ASSUME SyscallConstants ==
  TABLE_SIZE \in Nat /\ U64_MAX \in Nat /\ U64_MAX > TABLE_SIZE /\ Args \subseteq 0 .. U64_MAX

VARIABLES
  entries,        \* SyscallTable::entries
  registered,     \* registrations that init_syscalls has made
  exited          \* processes inside the loop of sys_exit

sysVars == <<entries, registered, exited>>

NoHandler == "none"
NoReturn  == U64_MAX + 1    \* no value of a u64: the call does not return

(* syscall_numbers: five groups, numbered on from their first.             *)
FileCalls    == <<"OPEN", "CLOSE", "READ", "WRITE", "STAT", "FSTAT", "LSEEK", "UNLINK",
                  "MKDIR", "RMDIR", "GETDENTS", "ACCESS", "CHMOD", "RENAME", "LINK",
                  "SYMLINK", "READLINK", "TRUNCATE", "FTRUNCATE", "FCNTL">>
ProcessCalls == <<"EXIT", "FORK", "EXECVE", "WAITPID", "GETPID", "GETPPID", "GETUID",
                  "SETUID", "GETGID", "SETGID", "GETEUID", "SETEUID", "GETEGID", "SETEGID",
                  "SETPGID", "GETPGID", "SETSID", "GETSID", "KILL", "SPAWN">>
MemoryCalls  == <<"BRK", "MMAP", "MUNMAP", "MPROTECT", "MADVISE", "MLOCK", "MUNLOCK",
                  "MLOCKALL", "MUNLOCKALL", "MINCORE">>
IpcCalls     == <<"PIPE", "SOCKET", "CONNECT", "ACCEPT", "SEND", "RECV", "BIND", "LISTEN",
                  "SHUTDOWN", "GETSOCKOPT">>
TimeCalls    == <<"TIME", "GETTIMEOFDAY", "NANOSLEEP", "CLOCK_GETTIME", "CLOCK_SETTIME",
                  "ALARM", "SETITIMER", "GETITIMER", "UTIME", "UTIMES">>
ZaryaCalls   == <<"ZARYA_VERSION", "ZARYA_CREATE_PORT", "ZARYA_SEND_MESSAGE",
                  "ZARYA_RECV_MESSAGE", "ZARYA_CREATE_SHARED_MEM", "ZARYA_MAP_SHARED_MEM",
                  "ZARYA_UNMAP_SHARED_MEM", "ZARYA_REQUEST_PERMISSION",
                  "ZARYA_GET_PROCESS_INFO", "ZARYA_SET_THREAD_PRIORITY",
                  "ZARYA_CREATE_WINDOW", "ZARYA_DESTROY_WINDOW", "ZARYA_SHOW_WINDOW",
                  "ZARYA_HIDE_WINDOW", "ZARYA_MOVE_WINDOW", "ZARYA_RESIZE_WINDOW">>
PosixCalls   == FileCalls \o ProcessCalls \o MemoryCalls \o IpcCalls \o TimeCalls
FIRST_ZARYA  == 100

Names        == PosixCalls \o ZaryaCalls
SYS          == [i \in DOMAIN Names |->
                   IF i <= Len(PosixCalls) THEN i - 1 ELSE FIRST_ZARYA + i - Len(PosixCalls) - 1]
NumberOf(name) == SYS[CHOOSE i \in DOMAIN Names : Names[i] = name]

-----------------------------------------------------------------------------
(* The functions themselves, of which only write looks at an argument, its *)
(* count; the version is 0 << 16 | 1.                                      *)
Run(name, count) ==
  CASE name = "EXIT"   -> NoReturn
    [] name = "GETPID" -> 1
    [] name = "WRITE"  -> count
    [] name = "READ"   -> 0
    [] name = "ZARYA_VERSION" -> 1

(* syscall_handler: the match.                                             *)
Arms == [num \in {NumberOf(name) : name \in {"EXIT", "GETPID", "WRITE", "READ", "ZARYA_VERSION"}}
           |-> CHOOSE name \in {"EXIT", "GETPID", "WRITE", "READ", "ZARYA_VERSION"} :
                 NumberOf(name) = num]

syscall_handler(num, count) == IF num \in DOMAIN Arms THEN Run(Arms[num], count) ELSE U64_MAX

(* SyscallTable::dispatch.                                                 *)
dispatch(num, count) ==
  IF num < TABLE_SIZE /\ entries[num] # NoHandler
    THEN Run(entries[num], count)
    ELSE U64_MAX

(* SyscallTable::register: a number past the table is dropped.             *)
register(num, name) ==
  entries' = IF num < TABLE_SIZE THEN [entries EXCEPT ![num] = name] ELSE entries

Registrations == <<"EXIT", "GETPID", "WRITE", "READ", "ZARYA_VERSION">>

InitSyscallsMisnumbers ==
  /\ registered < Len(Registrations)
  /\ register(NumberOf(Registrations[registered + 1]) + (IF registered = 4 THEN 1 ELSE 0),
              Registrations[registered + 1])
  /\ registered' = registered + 1
  /\ UNCHANGED exited

(* init_syscalls, one registration at a time.                              *)
InitSyscalls ==
  /\ registered < Len(Registrations)
  /\ register(NumberOf(Registrations[registered + 1]), Registrations[registered + 1])
  /\ registered' = registered + 1
  /\ UNCHANGED exited

(* A process calls the kernel.  A call that returns changes nothing; exit  *)
(* keeps the process inside for ever.                                      *)
Exit(p, num, count) ==
  /\ p \notin exited
  /\ syscall_handler(num, count) = NoReturn
  /\ exited' = exited \cup {p}
  /\ UNCHANGED <<entries, registered>>

-----------------------------------------------------------------------------
SysInit ==
  /\ entries = [num \in 0 .. TABLE_SIZE - 1 |-> NoHandler]
  /\ registered = 0
  /\ exited = {}

SysNext ==
  \/ InitSyscalls
  \/ \E p \in Processes, num \in DOMAIN Arms, count \in Args : Exit(p, num, count)

SysSpec == SysInit /\ [][SysNext]_sysVars

-----------------------------------------------------------------------------
(* The table and the match agree for every number, those without a call    *)
(* and those past the table included: while the table is being filled it   *)
(* knows fewer calls, but never gives an answer of another call, and in    *)
(* the end it answers like the match.                                      *)
TableAgrees ==
  \A num \in 0 .. TABLE_SIZE + 1, count \in Args :
    \/ dispatch(num, count) = syscall_handler(num, count)
    \/ registered < Len(Registrations) /\ dispatch(num, count) = U64_MAX
=============================================================================
