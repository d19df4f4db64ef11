------------------------------- MODULE Alt_Files -------------------------------
(***************************************************************************)
(* The file descriptors of the board support package, from the start-up    *)
(* code that points them at the JTAG UART to the files the reader program  *)
(* keeps on the host.  The pool is alt_fd_list; the drivers behind it are  *)
(* /dev/null, the UART and the host file system, which asks the debugger   *)
(* on the host.  The host is external: any call of it may fail, and an     *)
(* open that succeeds gives a handle that is not in use.                   *)
(*                                                                         *)
(* The build has one thread and no interrupt routine uses descriptors, so  *)
(* a system call is one step.                                              *)
(***************************************************************************)
EXTENDS Integers, Sequences

CONSTANTS
  ALT_MAX_FD,    \* 32
  Handles,       \* of files open on the host
  Stdio,         \* the device of the three standard descriptors
  Modes,         \* the access flags the program opens with
  Switched,      \* the descriptors it makes blocking or not with fcntl
  None

ASSUME FilesAssumption ==
  /\ ALT_MAX_FD \in Nat /\ ALT_MAX_FD > 3
  /\ None \notin Handles /\ None \notin {"null", "jtag", "hostfs"}
  /\ Stdio \in {"/dev/null", "/dev/JTAG"}
  /\ Modes \subseteq {{}, {"O_WRONLY"}, {"O_RDWR"}}

VARIABLES
  boot,                          \* where alt_main is
  alt_dev_list, alt_fs_list,     \* registered devices and file systems
  files,                         \* the pool: its list, max, and the handles
                                 \* open on the host
  rc                             \* what the last call returned, -1 for every
                                 \* error (errno tells which; not kept)

fileVars == <<boot, alt_dev_list, alt_fs_list, files, rc>>

Fd == 0..(ALT_MAX_FD - 1)
Standard == 0..2
STDIN == 0   STDOUT == 1   STDERR == 2

Error == -1

Access == {"O_WRONLY", "O_RDWR"}
Flag == Access \cup {"O_NONBLOCK", "ALT_FD_EXCL", "ALT_FD_DEV"}
Device == {"null", "jtag", "hostfs"}

\* The driver's functions: an alt_dev holds NULL for the others.
Driver == [null   |-> {"write"},
           jtag   |-> {"close", "read", "write", "ioctl"},
           hostfs |-> {"open", "close", "read", "write", "lseek", "fstat"}]

Name == {"/dev/null", "/dev/JTAG", "/mnt/host", "/mnt/other"}
NameOf == [null |-> "/dev/null", jtag |-> "/dev/JTAG", hostfs |-> "/mnt/host"]

\* A name of a device is taken whole, that of a file system is the first part
\* of the name of a file in it: "/mnt/host" stands for every file below it.
Lookup(name) ==
  LET found == {d \in alt_dev_list \cup alt_fs_list : NameOf[d] = name}
  IN  IF found = {} THEN None ELSE CHOOSE d \in found : TRUE
-----------------------------------------------------------------------------
(* The pool.  A free entry has no dev; its priv is left as it was.         *)

FreeEntry(priv) == [dev |-> None, priv |-> priv, flags |-> {}]
Allocated(f) == {i \in Fd : f.list[i].dev # None}

\* alt_fd_list with its mark alt_max_fd, and what is open on the host.
Entry == [dev : Device \cup {None}, priv : Handles \cup {None}, flags : SUBSET Flag]
Pool == [list : [Fd -> Entry], max : -1..(ALT_MAX_FD - 1), handles : SUBSET Handles]

\* alt_get_fd takes the first free entry.
Unused(f, i) == i \in Fd \ Allocated(f) /\ 0..(i - 1) \subseteq Allocated(f)

Mark(f, i) == IF i > f.max THEN i ELSE f.max

GetFd(f, i, dev, flags) ==
  [f EXCEPT !.list[i] = [dev |-> dev, priv |-> @.priv, flags |-> flags],
            !.max = Mark(f, i)]

\* A mutant of ReleaseFd: the standard descriptors go as well.
ReleaseAny(f, i) ==
  IF i >= 0 THEN [f EXCEPT !.list[i] = FreeEntry(@.priv)] ELSE f

ReleaseFd(f, i) ==
  IF i > 2 THEN [f EXCEPT !.list[i] = FreeEntry(@.priv)] ELSE f

FileLocked(f, i) ==
  \E j \in 0..f.max :
    /\ j # i /\ f.list[j].dev = f.list[i].dev
    /\ "ALT_FD_EXCL" \in f.list[j].flags

\* A mutant of Refused: the entry taken for the open is not given back.
RefusedKept(f, i) == [files |-> f, rc |-> Error]

\* open() fails after the entry was taken.
Refused(f, i) == [files |-> ReleaseFd(f, i), rc |-> Error]

\* A mutant of Granted: the host's answer is taken for a handle unseen.
GrantedAlways(answer) == TRUE

Granted(answer) == answer # None

\* ALT_OPEN; answer is the host's: a new handle, or None for an error.
Open(f, name, flags, answer) ==
  LET dev == Lookup(name)
      user == flags \ {"ALT_FD_EXCL", "ALT_FD_DEV"}
  IN  IF dev = None \/ Allocated(f) = Fd THEN [files |-> f, rc |-> Error]
      ELSE LET i == CHOOSE j \in Fd : Unused(f, j)
               taken == GetFd(f, i, dev,
                              user \cup (IF dev \in alt_dev_list THEN {"ALT_FD_DEV"} ELSE {}))
           IN  IF dev \in alt_dev_list
               THEN IF FileLocked(taken, i) THEN Refused(taken, i)
                    ELSE [files |-> taken, rc |-> i]
               ELSE IF ~Granted(answer) THEN Refused(taken, i)
                    ELSE [files |-> [taken EXCEPT !.list[i].priv = answer,
                                                  !.handles = @ \cup {answer}],
                          rc |-> i]

\* ALT_CLOSE; the driver's close may fail, and the entry is released all the
\* same.  A descriptor that open did not give is turned away.
Close(f, i, fails) ==
  IF i < 0 THEN [files |-> f, rc |-> Error]
  ELSE LET shut == IF f.list[i].dev = "hostfs" /\ ~fails
                   THEN [f EXCEPT !.handles = @ \ {f.list[i].priv}] ELSE f
       IN  [files |-> ReleaseFd(shut, i), rc |-> IF fails THEN Error ELSE 0]

\* A UART that is drained closes; one that may not block may be turned away.
CloseFails(f, i) ==
  {FALSE} \cup (IF f.list[i].dev = "hostfs" \/
                   (f.list[i].dev = "jtag" /\ "O_NONBLOCK" \in f.list[i].flags)
                THEN {TRUE} ELSE {})

Answers == {None} \cup (Handles \ files.handles)
-----------------------------------------------------------------------------
(* The start-up code.                                                      *)

\* alt_irq_init, then alt_sys_init: the drivers enter themselves in the lists.
SysInit ==
  /\ boot = "start" /\ boot' = "stdout"
  /\ alt_dev_list' = {"jtag"} \cup alt_dev_list
  /\ alt_fs_list' = {"hostfs"} \cup alt_fs_list
  /\ UNCHANGED <<files, rc>>

\* A mutant of AltOpenFd: the descriptor the name was opened with stays open.
AltOpenFdKept(fd, name, flags, opened) ==
  IF opened.rc < 0 THEN opened.files
  ELSE [opened.files EXCEPT !.list[fd] = opened.files.list[opened.rc]]

\* alt_open_fd: open the name, copy its entry to fd, release it.
AltOpenFd(fd, name, flags, opened) ==
  IF opened.rc < 0 THEN opened.files
  ELSE ReleaseFd([opened.files EXCEPT !.list[fd] = opened.files.list[opened.rc]], opened.rc)

Redirect(fd, flags, from, to) ==
  /\ boot = from /\ boot' = to
  /\ \E answer \in Answers :
       files' = AltOpenFd(fd, Stdio, flags, Open(files, Stdio, flags, answer))
  /\ UNCHANGED <<alt_dev_list, alt_fs_list, rc>>

AltIoRedirect ==
  \/ Redirect(STDOUT, {"O_WRONLY"}, "stdout", "stdin")
  \/ Redirect(STDIN, {}, "stdin", "stderr")
  \/ Redirect(STDERR, {"O_WRONLY"}, "stderr", "main")

\* main returned: close(STDOUT_FILENO), then exit, which spins.
MainReturns ==
  /\ boot = "main" /\ boot' = "exit"
  /\ \E fails \in CloseFails(files, STDOUT) :
       LET closed == Close(files, STDOUT, fails) IN files' = closed.files /\ rc' = closed.rc
  /\ UNCHANGED <<alt_dev_list, alt_fs_list>>
-----------------------------------------------------------------------------
(* The system calls of the program, on descriptors it has open.            *)

Called(result) ==
  /\ boot = "main"
  /\ files' = result.files /\ rc' = result.rc
  /\ UNCHANGED <<boot, alt_dev_list, alt_fs_list>>

OpenCall ==
  \E name \in Name, mode \in Modes, answer \in Answers :
    Called(Open(files, name, mode, answer))

CloseCall ==
  \E i \in Allocated(files) \cup {-1} :
    \E fails \in (IF i < 0 THEN {FALSE} ELSE CloseFails(files, i)) :
      Called(Close(files, i, fails))

\* stat() is open, fstat and close; what it returns is fstat's.  Only the host
\* fails: asked tells whether its fstat does, fails whether its close does.
StatCall(name, answer, asked, fails) ==
  LET opened == Open(files, name, {}, answer)
      isFile == opened.rc >= 0 /\ opened.files.list[opened.rc].dev = "hostfs"
      closed == Close(opened.files, opened.rc, isFile /\ fails)
  IN  Called([files |-> closed.files,
              rc |-> IF opened.rc < 0 \/ (isFile /\ asked) THEN Error ELSE 0])

\* alt_fd_lock: refused when another descriptor has the device, as far as
\* the loop looks, which is up to but not including alt_max_fd.
FdLock(f, i) ==
  IF \E j \in 0..(f.max - 1) : j # i /\ f.list[j].dev = f.list[i].dev
  THEN [files |-> f, rc |-> Error]
  ELSE [files |-> [f EXCEPT !.list[i].flags = @ \cup {"ALT_FD_EXCL"}], rc |-> 0]

FdUnlock(f, i) ==
  [files |-> [f EXCEPT !.list[i].flags = @ \ {"ALT_FD_EXCL"}], rc |-> 0]

\* ALT_IOCTL: a device is locked and unlocked here, the rest is the driver's.
IoctlResult(i) == IF "ioctl" \in Driver[files.list[i].dev] THEN {0, Error} ELSE {Error}

Ioctl(i, req) == \E n \in IoctlResult(i) :
  Called(CASE "ALT_FD_DEV" \in files.list[i].flags /\ req = "TIOCEXCL" -> FdLock(files, i)
           [] "ALT_FD_DEV" \in files.list[i].flags /\ req = "TIOCNXCL" -> FdUnlock(files, i)
           [] OTHER -> [files |-> files, rc |-> n])

\* ALT_FCNTL(F_SETFL) changes O_NONBLOCK (and O_APPEND, which no driver reads).
Fcntl(i, nonblock) ==
  Called([files |-> [files EXCEPT !.list[i].flags =
            IF nonblock THEN @ \cup {"O_NONBLOCK"} ELSE @ \ {"O_NONBLOCK"}], rc |-> 0])

\* ALT_READ, ALT_WRITE: the access the descriptor was opened with, and a
\* driver that has the function; then the driver's own result, here 0 or -1.
MayRead(i) == "O_WRONLY" \notin files.list[i].flags /\ "read" \in Driver[files.list[i].dev]
MayWrite(i) ==
  Access \cap files.list[i].flags # {} /\ "write" \in Driver[files.list[i].dev]

DriverResult(i) == IF files.list[i].dev = "null" THEN {0} ELSE {0, Error}

Transfer(i, may) ==
  \E n \in (IF may THEN DriverResult(i) ELSE {Error}) :
    Called([files |-> files, rc |-> n])

\* ALT_LSEEK: only a driver that has the function moves the pointer; the host's
\* place in the file and its errors are one result each.
SeekResult(i) == IF "lseek" \in Driver[files.list[i].dev] THEN {0, Error} ELSE {Error}

Lseek(i) == \E n \in SeekResult(i) : Called([files |-> files, rc |-> n])

\* ALT_FSTAT: only the host is asked, a device answers for itself.
StatResult(i) == IF "fstat" \in Driver[files.list[i].dev] THEN {0, Error} ELSE {0}

Fstat(i) == \E n \in StatResult(i) : Called([files |-> files, rc |-> n])

\* ALT_ISATTY: a device without fstat is a terminal.  The result of fstat is
\* not looked at, so that with an error st_mode is what the stack held.
Isatty(i) ==
  \E n \in (IF "fstat" \in Driver[files.list[i].dev] THEN {0, 1} ELSE {1}) :
    Called([files |-> files, rc |-> n])
-----------------------------------------------------------------------------
FilesInit ==
  /\ boot = "start"
  /\ alt_dev_list = {"null"} /\ alt_fs_list = {}
  /\ files = [list |-> [i \in Fd |-> [dev |-> IF i \in Standard THEN "null" ELSE None,
                                      priv |-> None, flags |-> {}]],
              max |-> -1, handles |-> {}]
  /\ rc = 0

FilesNext ==
  \/ SysInit \/ AltIoRedirect \/ MainReturns
  \/ OpenCall \/ CloseCall
  \/ \E name \in Name, answer \in Answers, asked, fails \in BOOLEAN :
       StatCall(name, answer, asked, fails)
  \/ \E i \in Allocated(files) :
       \/ \E req \in {"TIOCEXCL", "TIOCNXCL", "other"} : Ioctl(i, req)
       \/ i \in Switched /\ \E nonblock \in BOOLEAN : Fcntl(i, nonblock)
       \/ Transfer(i, MayRead(i)) \/ Transfer(i, MayWrite(i))
       \/ Lseek(i) \/ Fstat(i) \/ Isatty(i)

FilesSpec == FilesInit /\ [][FilesNext]_fileVars
-----------------------------------------------------------------------------
(* Properties                                                              *)

\* Every variable has its type; what the host calls an error never becomes a
\* handle, and a call returns a descriptor or -1.
FilesTypeOK ==
  /\ boot \in {"start", "stdout", "stdin", "stderr", "main", "exit"}
  /\ alt_dev_list \subseteq Device /\ alt_fs_list \subseteq Device
  /\ files \in Pool /\ rc \in -1..(ALT_MAX_FD - 1)

\* close() of a standard descriptor drains it and leaves it in place, so that
\* printf, and exit after main, always find a device: the UART from main on.
StandardOpen ==
  /\ Standard \subseteq Allocated(files)
  /\ boot \in {"main", "exit"} => \A i \in Standard : files.list[i].dev = Lookup(Stdio)

\* alt_max_fd is at or above every descriptor in use once the first was given
\* out, so that the search for a locked one does not stop short.
MarkIsHigh == files.max >= 0 => \A i \in Allocated(files) : i <= files.max

\* A descriptor of a host file has a handle that is open on the host, and no
\* other descriptor has that handle: what fprintf writes goes to the file
\* that fopen opened, and fclose closes no other.
HandleIsOwned ==
  \A i \in Allocated(files) : files.list[i].dev = "hostfs" =>
    /\ files.list[i].priv \in files.handles
    /\ \A j \in Allocated(files) :
         files.list[j].dev = "hostfs" /\ files.list[j].priv = files.list[i].priv => i = j

\* The pool grows by nothing but an open that succeeded and returned the
\* descriptor: not by one that failed at any stage, not by stat, and not by
\* the redirection of the standard descriptors.
PoolGrowsByOpen ==
  [][\A i \in Allocated(files') \ Allocated(files) : boot = "main" /\ rc' = i]_fileVars

\* While a descriptor has its device locked, nobody else opens that device.
LockKeepsOut ==
  [][\A i \in Allocated(files') \ Allocated(files), j \in Allocated(files) :
       "ALT_FD_EXCL" \in files.list[j].flags => files'.list[i].dev # files.list[j].dev]_fileVars
===============================================================================
