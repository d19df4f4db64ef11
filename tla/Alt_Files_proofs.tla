---------------------------- MODULE Alt_Files_proofs ----------------------------
(***************************************************************************)
(* Proofs about the file descriptors, for a pool of any size and any       *)
(* number of files the host can keep open.                                 *)
(***************************************************************************)
EXTENDS Alt_Files, NaturalsInduction, WellFoundedInduction, TLAPS

LEMMA LeastOfSet ==
  ASSUME NEW S \in SUBSET Nat, S # {}
  PROVE  \E m \in S : \A k \in 0..(m - 1) : k \notin S
<1>1. PICK m \in S : \A k \in S : <<k, m>> \notin OpToRel(<, Nat)
  BY NatLessThanWellFounded, WFMin
<1>2. \A k \in 0..(m - 1) : <<k, m>> \in OpToRel(<, Nat)
  BY DEF OpToRel
<1> QED
  BY <1>1, <1>2

\* A pool that is not full has a first free entry, which is what alt_get_fd finds.
LEMMA FirstFree ==
  ASSUME NEW f, Allocated(f) # Fd
  PROVE  Unused(f, CHOOSE j \in Fd : Unused(f, j)) /\ (CHOOSE j \in Fd : Unused(f, j)) \in Fd
<1> DEFINE free == Fd \ Allocated(f)
<1>1. free \in SUBSET Nat /\ free # {}
  BY FilesAssumption DEF Fd, Allocated
<1>2. PICK m \in free : \A k \in 0..(m - 1) : k \notin free
  BY <1>1, LeastOfSet
<1>3. 0..(m - 1) \subseteq Fd
  BY FilesAssumption DEF Fd
<1>4. m \in Fd /\ Unused(f, m)
  BY <1>2, <1>3 DEF Unused
<1> QED
  BY <1>4
-----------------------------------------------------------------------------
(* The invariant.                                                          *)

Char == {"null", "jtag"}

\* What every system call keeps true of the pool.  Its mark is -1 until the
\* first descriptor was given out, and a standard one is never given out.
PoolOK(f) ==
  /\ f \in Pool
  /\ \A i \in Standard : f.list[i].dev \in Char
  /\ f.max = -1 \/ f.max >= 3
  /\ \A i \in Allocated(f) : i <= 2 \/ i <= f.max
  /\ \A i \in Fd : {"ALT_FD_EXCL", "ALT_FD_DEV"} \cap f.list[i].flags # {} => f.list[i].dev \in Char
  /\ \A i \in Fd : f.list[i].dev = "hostfs" =>
       /\ f.list[i].priv \in f.handles
       /\ \A j \in Fd : f.list[j].dev = "hostfs" /\ f.list[j].priv = f.list[i].priv => i = j

Registered == alt_dev_list = {"null", "jtag"} /\ alt_fs_list = {"hostfs"}

StdDev == IF Stdio = "/dev/null" THEN "null" ELSE "jtag"

\* The descriptors that alt_io_redirect has pointed at Stdio so far.
Redirected ==
  CASE boot \in {"start", "stdout"} -> {}
    [] boot = "stdin" -> {STDOUT}
    [] boot = "stderr" -> {STDIN, STDOUT}
    [] OTHER -> Standard

Booting == boot \in {"start", "stdout", "stdin", "stderr"}

\* Until main the standard descriptors are all there are, and none is locked.
FilesInv ==
  /\ boot \in {"start", "stdout", "stdin", "stderr", "main", "exit"}
  /\ rc \in -1..(ALT_MAX_FD - 1)
  /\ PoolOK(files)
  /\ IF boot = "start" THEN alt_dev_list = {"null"} /\ alt_fs_list = {} ELSE Registered
  /\ \A i \in Redirected : files.list[i].dev = StdDev
  /\ Booting => /\ Allocated(files) = Standard
                /\ \A i \in Fd : "ALT_FD_EXCL" \notin files.list[i].flags
-----------------------------------------------------------------------------
LEMMA StandardFd == Standard \subseteq Fd /\ STDIN \in Standard /\ STDOUT \in Standard /\ STDERR \in Standard
BY FilesAssumption DEF Standard, Fd, STDIN, STDOUT, STDERR

LEMMA LookupIs ==
  ASSUME Registered, NEW name
  PROVE  /\ Lookup(name) \in Char \cup {"hostfs", None}
         /\ Lookup(Stdio) = StdDev
<1>1. \A d \in Char \cup {"hostfs"} :
        NameOf[d] = IF d = "null" THEN "/dev/null" ELSE IF d = "jtag" THEN "/dev/JTAG" ELSE "/mnt/host"
  BY DEF NameOf, Char
<1>2. alt_dev_list \cup alt_fs_list = Char \cup {"hostfs"}
  BY DEF Registered, Char
<1>3. Lookup(name) \in Char \cup {"hostfs", None}
  BY <1>2 DEF Lookup
<1>4. {d \in alt_dev_list \cup alt_fs_list : NameOf[d] = Stdio} = {StdDev}
  BY <1>1, <1>2, FilesAssumption DEF StdDev, Char
<1>5. Lookup(Stdio) = StdDev
  BY <1>4 DEF Lookup
<1> QED
  BY <1>3, <1>5

LEMMA ReleaseIs ==
  ASSUME NEW f \in Pool, NEW i \in Fd, i > 2
  PROVE  /\ ReleaseFd(f, i) \in Pool
         /\ ReleaseFd(f, i).max = f.max /\ ReleaseFd(f, i).handles = f.handles
         /\ ReleaseFd(f, i).list[i].dev = None /\ ReleaseFd(f, i).list[i].flags = {}
         /\ \A j \in Fd \ {i} : ReleaseFd(f, i).list[j] = f.list[j]
<1>1. ReleaseFd(f, i) = [f EXCEPT !.list[i] = FreeEntry(f.list[i].priv)]
  BY DEF ReleaseFd, Pool
<1>2. FreeEntry(f.list[i].priv) \in Entry
  BY DEF Pool, Entry, FreeEntry, Flag
<1>3. ReleaseFd(f, i).list = [f.list EXCEPT ![i] = FreeEntry(f.list[i].priv)]
  BY <1>1 DEF Pool
<1>4. ReleaseFd(f, i).max = f.max /\ ReleaseFd(f, i).handles = f.handles
  BY <1>1 DEF Pool
<1>5. ReleaseFd(f, i) \in Pool
  BY <1>1, <1>2 DEF Pool
<1>6. ReleaseFd(f, i).list[i] = FreeEntry(f.list[i].priv)
  BY <1>3 DEF Pool
<1>7. \A j \in Fd \ {i} : ReleaseFd(f, i).list[j] = f.list[j]
  BY <1>3 DEF Pool
<1> QED
  BY <1>4, <1>5, <1>6, <1>7 DEF FreeEntry

LEMMA GetFdIs ==
  ASSUME NEW f \in Pool, NEW i \in Fd, NEW dev \in Device, NEW flags \in SUBSET Flag
  PROVE  /\ GetFd(f, i, dev, flags) \in Pool
         /\ GetFd(f, i, dev, flags).max = Mark(f, i) /\ GetFd(f, i, dev, flags).handles = f.handles
         /\ GetFd(f, i, dev, flags).list[i] = [dev |-> dev, priv |-> f.list[i].priv, flags |-> flags]
         /\ \A j \in Fd \ {i} : GetFd(f, i, dev, flags).list[j] = f.list[j]
<1> DEFINE entry == [dev |-> dev, priv |-> f.list[i].priv, flags |-> flags]
           got == GetFd(f, i, dev, flags)
<1>1. got = [[f EXCEPT !.list[i] = entry] EXCEPT !.max = Mark(f, i)]
  BY DEF GetFd, Pool
<1>2. entry \in Entry
  BY DEF Pool, Entry
<1>3. Mark(f, i) \in -1..(ALT_MAX_FD - 1)
  BY FilesAssumption DEF Mark, Pool, Fd
<1>4. got.list = [f.list EXCEPT ![i] = entry] /\ got.max = Mark(f, i) /\ got.handles = f.handles
  BY <1>1 DEF Pool
<1>5. got \in Pool
  BY <1>1, <1>2, <1>3 DEF Pool
<1> QED
  BY <1>4, <1>5 DEF Pool
-----------------------------------------------------------------------------
(* open and close, the two calls that change the pool.                     *)

\* What open does to a pool f that becomes g: it fails, and every descriptor
\* is as it was, or it gives out one that was free.
OpenFailed(f, g, n) ==
  /\ n = Error
  /\ \A j \in Fd : g.list[j].dev = f.list[j].dev /\ g.list[j].flags \subseteq f.list[j].flags

OpenGave(f, g, n, dev) ==
  /\ n \in Fd \ Allocated(f) /\ n > 2
  /\ dev # None /\ g.list[n].dev = dev /\ "ALT_FD_EXCL" \notin g.list[n].flags
  /\ \A j \in Fd \ {n} : g.list[j] = f.list[j]
  /\ \A j \in Allocated(f) : f.list[j].dev = dev => "ALT_FD_EXCL" \notin f.list[j].flags

LEMMA OpenIs ==
  ASSUME Registered, NEW f, PoolOK(f), NEW name, NEW flags \in SUBSET Flag,
         NEW answer \in {None} \cup (Handles \ f.handles)
  PROVE  LET r == Open(f, name, flags, answer)
         IN  /\ PoolOK(r.files)
             /\ OpenFailed(f, r.files, r.rc) \/ OpenGave(f, r.files, r.rc, Lookup(name))
<1> DEFINE dev == Lookup(name)
           i == CHOOSE j \in Fd : Unused(f, j)
           user == flags \ {"ALT_FD_EXCL", "ALT_FD_DEV"}
           mode == user \cup (IF dev \in alt_dev_list THEN {"ALT_FD_DEV"} ELSE {})
           taken == GetFd(f, i, dev, mode)
           opened == [taken EXCEPT !.list[i].priv = answer, !.handles = @ \cup {answer}]
           r == Open(f, name, flags, answer)
<1> SUFFICES /\ PoolOK(r.files)
             /\ OpenFailed(f, r.files, r.rc) \/ OpenGave(f, r.files, r.rc, dev)
  OBVIOUS
<1>1. CASE dev = None \/ Allocated(f) = Fd
  <2>1. r = [files |-> f, rc |-> Error]
    BY <1>1 DEF Open
  <2> QED
    BY <2>1 DEF OpenFailed
<1>2. CASE dev # None /\ Allocated(f) # Fd
  <2>1. dev \in Char \cup {"hostfs"}
    BY <1>2, LookupIs
  <2>2. i \in Fd \ Allocated(f)
    BY <1>2, FirstFree DEF Unused
  <2>3. Standard \subseteq Allocated(f)
    BY StandardFd, FilesAssumption DEF PoolOK, Allocated, Char
  <2>4. i > 2
    BY <2>2, <2>3, FilesAssumption DEF Standard, Fd
  <2>5. mode \in SUBSET Flag /\ dev \in Device /\ "ALT_FD_EXCL" \notin mode
    BY <2>1 DEF Flag, Device, Char
  <2>6. /\ taken \in Pool
        /\ taken.max = Mark(f, i) /\ taken.handles = f.handles
        /\ taken.list[i] = [dev |-> dev, priv |-> f.list[i].priv, flags |-> mode]
        /\ \A j \in Fd \ {i} : taken.list[j] = f.list[j]
    <3> HIDE DEF mode, i, dev
    <3>1. f \in Pool
      BY DEF PoolOK
    <3> QED
      BY <2>2, <2>5, <3>1, GetFdIs
  <2>7. f \in Pool /\ f.list[i].dev = None /\ Allocated(f) \subseteq Fd
    BY <2>2 DEF PoolOK, Allocated
  <2>8. Mark(f, i) >= 3 /\ Mark(f, i) >= i /\ \A j \in Allocated(f) : j <= Mark(f, i)
    <3> HIDE DEF i
    <3>1. f.max \in Int /\ i \in Int /\ Allocated(f) \subseteq Int
      BY <2>2, <2>7, FilesAssumption DEF Pool, Fd
    <3>2. \A j \in Allocated(f) : j <= 2 \/ j <= f.max
      BY DEF PoolOK
    <3> QED
      BY <2>4, <3>1, <3>2 DEF Mark
  <2>9. (dev \in alt_dev_list) <=> (dev \in Char)
    BY DEF Registered, Char
  <2> HIDE DEF mode, i, dev
  <2>10. CASE r = Refused(taken, i)
    <3>1. /\ r.files = ReleaseFd(taken, i) /\ r.rc = Error
          /\ r.files \in Pool /\ r.files.max = Mark(f, i) /\ r.files.handles = f.handles
          /\ r.files.list[i].dev = None /\ r.files.list[i].flags = {}
          /\ \A j \in Fd \ {i} : r.files.list[j] = f.list[j]
      BY <2>2, <2>4, <2>6, <2>10, ReleaseIs DEF Refused
    <3> HIDE DEF r
    <3>2. OpenFailed(f, r.files, r.rc)
      BY <2>2, <2>7, <3>1 DEF OpenFailed
    <3>3. Allocated(r.files) = Allocated(f)
      BY <2>2, <2>7, <3>1 DEF Allocated
    <3>4. PoolOK(r.files)
      <4>1. \A j \in Standard : r.files.list[j].dev \in Char
        BY <2>2, <2>4, <3>1, StandardFd DEF PoolOK, Standard
      <4>2. \A j \in Allocated(r.files) : j <= 2 \/ j <= r.files.max
        BY <2>8, <3>1, <3>3
      <4>3. \A j \in Fd : {"ALT_FD_EXCL", "ALT_FD_DEV"} \cap r.files.list[j].flags # {} => r.files.list[j].dev \in Char
        BY <3>1 DEF PoolOK
      <4>4. \A j \in Fd : r.files.list[j].dev = "hostfs" => j # i
        BY <3>1, FilesAssumption
      <4> QED
        BY <2>8, <3>1, <4>1, <4>2, <4>3, <4>4 DEF PoolOK
    <3> QED
      BY <3>2, <3>4
  <2>11. CASE dev \in Char /\ ~FileLocked(taken, i) /\ r = [files |-> taken, rc |-> i]
    <3>1. \A j \in Allocated(f) : f.list[j].dev = dev => "ALT_FD_EXCL" \notin f.list[j].flags
      <4> SUFFICES ASSUME NEW j \in Allocated(f), f.list[j].dev = dev
                   PROVE  "ALT_FD_EXCL" \notin f.list[j].flags
        OBVIOUS
      <4>1. j \in Fd \ {i} /\ j \in 0..taken.max
        BY <2>2, <2>6, <2>7, <2>8, FilesAssumption DEF Fd, Pool
      <4> QED
        BY <2>6, <2>11, <4>1 DEF FileLocked
    <3>2. OpenGave(f, taken, i, dev)
      BY <1>2, <2>2, <2>4, <2>5, <2>6, <3>1 DEF OpenGave
    <3>3. Allocated(taken) = Allocated(f) \cup {i}
      BY <1>2, <2>2, <2>6 DEF Allocated
    <3>4. PoolOK(taken)
      <4>1. \A j \in Standard : taken.list[j].dev \in Char
        BY <2>4, <2>6, StandardFd DEF PoolOK, Standard
      <4>2. \A j \in Allocated(taken) : j <= 2 \/ j <= taken.max
        BY <2>6, <2>8, <3>3
      <4>3. \A j \in Fd : {"ALT_FD_EXCL", "ALT_FD_DEV"} \cap taken.list[j].flags # {} => taken.list[j].dev \in Char
        BY <2>6, <2>11 DEF PoolOK
      <4>4. \A j \in Fd : taken.list[j].dev = "hostfs" => j # i
        BY <2>6, <2>11 DEF Char
      <4> QED
        BY <2>6, <2>8, <4>1, <4>2, <4>3, <4>4 DEF PoolOK
    <3> QED
      BY <2>11, <3>2, <3>4
  <2>12. CASE dev = "hostfs" /\ answer # None /\ r = [files |-> opened, rc |-> i]
    <3>1. /\ opened.list = [taken.list EXCEPT ![i].priv = answer]
          /\ opened.max = taken.max /\ opened.handles = taken.handles \cup {answer}
      BY <2>6 DEF Pool
    <3>2. /\ opened.list[i] = [dev |-> dev, priv |-> answer, flags |-> mode]
          /\ \A j \in Fd \ {i} : opened.list[j] = f.list[j]
      BY <2>2, <2>6, <3>1 DEF Pool
    <3>3. opened \in Pool
      <4>1. opened.list[i] \in Entry
        BY <2>5, <3>2, <2>12 DEF Entry
      <4>2. opened.list \in [Fd -> Entry]
        BY <2>2, <2>6, <3>1, <4>1 DEF Pool, Entry
      <4>3. opened.handles \subseteq Handles
        BY <2>6, <2>12, <3>1 DEF Pool
      <4> QED
        BY <2>6, <3>1, <4>2, <4>3 DEF Pool
    <3>4. mode \cap {"ALT_FD_EXCL", "ALT_FD_DEV"} = {}
      BY <2>9, <2>12 DEF mode, Char
    <3> HIDE DEF opened
    <3>5. \A j \in Allocated(f) : f.list[j].dev = dev => "ALT_FD_EXCL" \notin f.list[j].flags
      BY <2>7, <2>12 DEF PoolOK, Char
    <3>6. OpenGave(f, opened, i, dev)
      BY <1>2, <2>2, <2>4, <2>5, <3>2, <3>5 DEF OpenGave
    <3>7. Allocated(opened) = Allocated(f) \cup {i}
      BY <1>2, <2>2, <3>2 DEF Allocated
    <3>8. PoolOK(opened)
      <4>1. \A j \in Standard : opened.list[j].dev \in Char
        BY <2>4, <3>2, StandardFd DEF PoolOK, Standard
      <4>2. \A j \in Allocated(opened) : j <= 2 \/ j <= opened.max
        BY <2>6, <2>8, <3>1, <3>7
      <4>3. \A j \in Fd : {"ALT_FD_EXCL", "ALT_FD_DEV"} \cap opened.list[j].flags # {} => opened.list[j].dev \in Char
        BY <3>2, <3>4 DEF PoolOK
      <4>4. \A j \in Fd \ {i} : opened.list[j].dev = "hostfs" =>
              opened.list[j].priv \in f.handles /\ opened.list[j].priv # answer
        BY <2>12, <3>2 DEF PoolOK
      <4>5. \A j \in Fd : opened.list[j].dev = "hostfs" => opened.list[j].priv \in opened.handles
        BY <2>6, <3>1, <3>2, <4>4
      <4>6. \A j \in Fd, k \in Fd :
              /\ opened.list[j].dev = "hostfs" /\ opened.list[k].dev = "hostfs"
              /\ opened.list[k].priv = opened.list[j].priv
              => j = k
        BY <3>2, <4>4 DEF PoolOK
      <4> QED
        BY <2>6, <2>8, <3>1, <3>3, <4>1, <4>2, <4>3, <4>5, <4>6 DEF PoolOK
    <3> QED
      BY <2>12, <3>6, <3>8
  <2>13. r = IF dev \in alt_dev_list
             THEN IF FileLocked(taken, i) THEN Refused(taken, i)
                  ELSE [files |-> taken, rc |-> i]
             ELSE IF ~Granted(answer) THEN Refused(taken, i)
                  ELSE [files |-> opened, rc |-> i]
    BY <1>2 DEF Open, i, dev, mode
  <2> QED
    BY <2>1, <2>9, <2>10, <2>11, <2>12, <2>13 DEF Granted
<1> QED
  BY <1>1, <1>2

LEMMA CloseIs ==
  ASSUME NEW f, PoolOK(f), NEW i \in Allocated(f) \cup {-1}, NEW fails \in BOOLEAN
  PROVE  LET r == Close(f, i, fails)
         IN  /\ PoolOK(r.files) /\ r.rc \in {Error, 0}
             /\ i > 2 => r.files.list[i].dev = None /\ r.files.list[i].flags = {}
             /\ \A j \in Fd : j <= 2 \/ j # i => r.files.list[j] = f.list[j]
<1> DEFINE r == Close(f, i, fails)
           shut == IF f.list[i].dev = "hostfs" /\ ~fails
                   THEN [f EXCEPT !.handles = @ \ {f.list[i].priv}] ELSE f
<1> SUFFICES /\ PoolOK(r.files) /\ r.rc \in {Error, 0}
             /\ i > 2 => r.files.list[i].dev = None /\ r.files.list[i].flags = {}
             /\ \A j \in Fd : j <= 2 \/ j # i => r.files.list[j] = f.list[j]
  OBVIOUS
<1>1. CASE i < 0
  <2>1. r = [files |-> f, rc |-> Error]
    BY <1>1 DEF Close
  <2> QED
    <3> HIDE DEF r
    <3> QED
      BY <1>1, <2>1, FilesAssumption DEF Allocated, Fd
<1>2. CASE i >= 0
  <2>1. i \in Fd /\ f \in Pool
    BY <1>2 DEF Allocated, PoolOK
  <2>2. r.files = ReleaseFd(shut, i) /\ r.rc \in {Error, 0}
    BY <1>2, <2>1, FilesAssumption DEF Close, Fd
  <2>3. /\ shut \in Pool /\ shut.list = f.list /\ shut.max = f.max
        /\ shut.handles = IF f.list[i].dev = "hostfs" /\ ~fails
                          THEN f.handles \ {f.list[i].priv} ELSE f.handles
    BY <2>1 DEF Pool
  <2> HIDE DEF r, shut
  <2>4. CASE i <= 2
    <3>1. f.list[i].dev # "hostfs"
      BY <1>2, <2>1, <2>4, FilesAssumption DEF PoolOK, Standard, Char, Fd
    <3>2. r.files = shut
      BY <2>1, <2>2, <2>4, FilesAssumption DEF ReleaseFd, Fd
    <3>3. shut.handles = f.handles
      BY <2>3, <3>1
    <3> HIDE DEF r, shut
    <3>4. Allocated(r.files) = Allocated(f)
      BY <2>3, <3>2 DEF Allocated
    <3>5. PoolOK(r.files)
      BY <2>3, <3>2, <3>3, <3>4 DEF PoolOK
    <3> QED
      BY <2>1, <2>2, <2>3, <2>4, <3>2, <3>5, FilesAssumption DEF Fd
  <2>5. CASE i > 2
    <3>1. /\ r.files \in Pool /\ r.files.max = f.max /\ r.files.handles = shut.handles
          /\ r.files.list[i].dev = None /\ r.files.list[i].flags = {}
          /\ \A j \in Fd \ {i} : r.files.list[j] = f.list[j]
      BY <2>1, <2>2, <2>3, <2>5, ReleaseIs
    <3>2. Allocated(r.files) \subseteq Allocated(f)
      BY <3>1 DEF Allocated
    <3>3. PoolOK(r.files)
      <4>1. \A j \in Standard : r.files.list[j].dev \in Char
        BY <2>5, <3>1, StandardFd DEF PoolOK, Standard
      <4>2. \A j \in Fd : {"ALT_FD_EXCL", "ALT_FD_DEV"} \cap r.files.list[j].flags # {} => r.files.list[j].dev \in Char
        BY <3>1 DEF PoolOK
      <4>3. \A j \in Fd : r.files.list[j].dev = "hostfs" =>
              /\ j # i /\ f.list[j].dev = "hostfs" /\ r.files.list[j].priv = f.list[j].priv
        BY <3>1, FilesAssumption
      <4>4. \A j \in Fd : r.files.list[j].dev = "hostfs" => r.files.list[j].priv \in shut.handles
        BY <2>1, <2>3, <4>3 DEF PoolOK
      <4>5. \A j \in Fd, k \in Fd :
              /\ r.files.list[j].dev = "hostfs" /\ r.files.list[k].dev = "hostfs"
              /\ r.files.list[k].priv = r.files.list[j].priv
              => j = k
        BY <4>3 DEF PoolOK
      <4> QED
        BY <3>1, <3>2, <4>1, <4>2, <4>4, <4>5 DEF PoolOK
    <3> QED
      BY <2>1, <2>2, <2>5, <3>1, <3>3, FilesAssumption DEF Fd
  <2> QED
    BY <2>1, <2>4, <2>5, FilesAssumption DEF Fd
<1> QED
  BY <1>1, <1>2, FilesAssumption DEF Allocated, Fd
-----------------------------------------------------------------------------
(* Every step keeps the invariant.                                         *)

\* The flags of a descriptor change; only a device is locked or marked as one.
LEMMA FlagsKeep ==
  ASSUME NEW f, PoolOK(f), NEW i \in Allocated(f), NEW flags \in SUBSET Flag,
         {"ALT_FD_EXCL", "ALT_FD_DEV"} \cap flags # {} => f.list[i].dev \in Char
  PROVE  LET g == [f EXCEPT !.list[i].flags = flags]
         IN  PoolOK(g) /\ \A j \in Fd : g.list[j].dev = f.list[j].dev
<1> DEFINE g == [f EXCEPT !.list[i].flags = flags]
<1> SUFFICES PoolOK(g) /\ \A j \in Fd : g.list[j].dev = f.list[j].dev
  OBVIOUS
<1>1. f \in Pool /\ i \in Fd
  BY DEF PoolOK, Allocated
<1>2. g.list = [f.list EXCEPT ![i].flags = flags] /\ g.max = f.max /\ g.handles = f.handles
  BY <1>1 DEF Pool
<1>3. /\ g.list[i] = [dev |-> f.list[i].dev, priv |-> f.list[i].priv, flags |-> flags]
      /\ \A j \in Fd \ {i} : g.list[j] = f.list[j]
  BY <1>1, <1>2 DEF Pool, Entry
<1>4. g \in Pool
  <2>1. f.list[i] \in Entry
    BY <1>1 DEF Pool
  <2>2. g.list[i] \in Entry
    BY <1>3, <2>1 DEF Entry
  <2>3. g.list \in [Fd -> Entry]
    BY <1>1, <1>2, <2>2 DEF Pool, Entry
  <2> QED
    BY <1>1, <1>2, <2>3 DEF Pool
<1> HIDE DEF g
<1>5. \A j \in Fd : g.list[j].dev = f.list[j].dev /\ g.list[j].priv = f.list[j].priv
  BY <1>3
<1>6. Allocated(g) = Allocated(f)
  BY <1>5 DEF Allocated
<1>7. \A j \in Fd : {"ALT_FD_EXCL", "ALT_FD_DEV"} \cap g.list[j].flags # {} => g.list[j].dev \in Char
  BY <1>3 DEF PoolOK
<1> QED
  BY <1>2, <1>4, <1>5, <1>6, <1>7, StandardFd DEF PoolOK

LEMMA BootOpens ==
  ASSUME FilesInv, Booting, boot # "start", NEW flags \in SUBSET Flag, NEW answer \in Answers
  PROVE  LET r == Open(files, Stdio, flags, answer)
         IN  PoolOK(r.files) /\ OpenGave(files, r.files, r.rc, StdDev)
<1> DEFINE r == Open(files, Stdio, flags, answer)
           i == CHOOSE j \in Fd : Unused(files, j)
           mode == (flags \ {"ALT_FD_EXCL", "ALT_FD_DEV"})
                     \cup (IF StdDev \in alt_dev_list THEN {"ALT_FD_DEV"} ELSE {})
           taken == GetFd(files, i, StdDev, mode)
<1> SUFFICES PoolOK(r.files) /\ OpenGave(files, r.files, r.rc, StdDev)
  OBVIOUS
<1>1. Registered /\ PoolOK(files) /\ Allocated(files) = Standard
  BY DEF FilesInv
<1>2. Lookup(Stdio) = StdDev /\ StdDev \in Device /\ StdDev # None /\ StdDev \in alt_dev_list
  BY <1>1, LookupIs, FilesAssumption DEF StdDev, Device, Registered
<1>3. Allocated(files) # Fd
  <2>1. 3 \in Fd /\ 3 \notin Standard
    BY FilesAssumption DEF Fd, Standard
  <2> QED
    BY <1>1, <2>1
<1>4. i \in Fd
  BY <1>3, FirstFree
<1>5. mode \in SUBSET Flag /\ "ALT_FD_EXCL" \notin mode
  BY DEF Flag
<1> HIDE DEF i, mode
<1>6. \A j \in Fd : "ALT_FD_EXCL" \notin taken.list[j].flags
  <2>1. files \in Pool
    BY <1>1 DEF PoolOK
  <2>2. /\ taken.list[i] = [dev |-> StdDev, priv |-> files.list[i].priv, flags |-> mode]
        /\ \A j \in Fd \ {i} : taken.list[j] = files.list[j]
    BY <1>2, <1>4, <1>5, <2>1, GetFdIs
  <2>3. \A j \in Fd : "ALT_FD_EXCL" \notin files.list[j].flags
    BY DEF FilesInv
  <2> QED
    BY <1>5, <2>2, <2>3
<1>7. 0..taken.max \subseteq Fd
  <2>1. taken \in Pool
    BY <1>1, <1>2, <1>4, <1>5, GetFdIs DEF PoolOK
  <2> QED
    BY <2>1, FilesAssumption DEF Pool, Fd
<1>8. r.rc = i
  BY <1>2, <1>3, <1>6, <1>7 DEF Open, FileLocked, i, mode
<1>9. answer \in {None} \cup (Handles \ files.handles)
  BY DEF Answers
<1> HIDE DEF r
<1>10. PoolOK(r.files) /\ (OpenFailed(files, r.files, r.rc) \/ OpenGave(files, r.files, r.rc, Lookup(Stdio)))
  BY <1>1, <1>9, OpenIs DEF r
<1> QED
  BY <1>2, <1>4, <1>8, <1>10, FilesAssumption DEF OpenFailed, Error, Fd

LEMMA RedirectKeeps ==
  ASSUME FilesInv, Booting, boot # "start", NEW fd \in Standard, NEW flags \in SUBSET Flag,
         NEW answer \in Answers
  PROVE  LET g == AltOpenFd(fd, Stdio, flags, Open(files, Stdio, flags, answer))
         IN  /\ PoolOK(g) /\ Allocated(g) = Standard
             /\ g.list[fd].dev = StdDev /\ \A j \in Standard \ {fd} : g.list[j] = files.list[j]
             /\ \A j \in Fd : "ALT_FD_EXCL" \notin g.list[j].flags
<1> DEFINE r == Open(files, Stdio, flags, answer)
           h == r.files
           n == r.rc
           k == [h EXCEPT !.list[fd] = h.list[n]]
           g == AltOpenFd(fd, Stdio, flags, r)
<1> SUFFICES /\ PoolOK(g) /\ Allocated(g) = Standard
             /\ g.list[fd].dev = StdDev /\ \A j \in Standard \ {fd} : g.list[j] = files.list[j]
             /\ \A j \in Fd : "ALT_FD_EXCL" \notin g.list[j].flags
  OBVIOUS
<1>1. PoolOK(h) /\ OpenGave(files, h, n, StdDev)
  BY BootOpens
<1> HIDE DEF r
<1>2. n \in Fd /\ n > 2 /\ fd \in Fd /\ fd # n /\ h \in Pool /\ fd <= 2
  BY <1>1, FilesAssumption DEF OpenGave, PoolOK, Standard, Fd
<1>3. g = ReleaseFd(k, n)
  BY <1>2, FilesAssumption DEF AltOpenFd, Fd
<1>4. /\ k \in Pool /\ k.max = h.max /\ k.handles = h.handles
      /\ k.list[fd] = h.list[n] /\ \A j \in Fd \ {fd} : k.list[j] = h.list[j]
  BY <1>2 DEF Pool
<1> HIDE DEF k
<1>5. /\ g \in Pool /\ g.max = h.max /\ g.handles = h.handles
      /\ g.list[n].dev = None /\ g.list[n].flags = {}
      /\ \A j \in Fd \ {n} : g.list[j] = k.list[j]
  BY <1>2, <1>3, <1>4, ReleaseIs
<1> HIDE DEF g
<1>6. /\ g.list[fd] = h.list[n]
      /\ \A j \in Fd \ {n, fd} : g.list[j] = h.list[j] /\ g.list[j] = files.list[j]
  BY <1>1, <1>2, <1>4, <1>5 DEF OpenGave
<1>7. StdDev \in Char /\ StdDev # None /\ g.list[fd].dev = StdDev
  BY <1>1, <1>6, FilesAssumption DEF OpenGave, StdDev, Char
<1>8. Allocated(files) = Standard /\ \A j \in Fd : "ALT_FD_EXCL" \notin files.list[j].flags
  BY DEF FilesInv
<1>9. Allocated(g) = Standard
  <2>1. \A j \in Fd : (files.list[j].dev # None) <=> (j \in Standard)
    BY <1>8 DEF Allocated
  <2>2. n \notin Standard
    BY <1>2 DEF Standard
  <2>3. \A j \in Fd : (g.list[j].dev # None) <=> (j \in Standard)
    BY <1>2, <1>5, <1>6, <1>7, <2>1, <2>2
  <2> QED
    BY <2>3, StandardFd DEF Allocated
<1>10. \A j \in Fd : "ALT_FD_EXCL" \notin g.list[j].flags
  BY <1>1, <1>5, <1>6, <1>8 DEF OpenGave
<1>11. \A j \in Standard \ {fd} : g.list[j] = files.list[j]
  BY <1>2, <1>6, StandardFd DEF Standard
<1>12. PoolOK(g)
  <2>1. \A j \in Standard : g.list[j].dev \in Char
    BY <1>7, <1>11 DEF FilesInv, PoolOK
  <2>2. \A j \in Allocated(g) : j <= 2
    BY <1>9 DEF Standard
  <2>3. \A j \in Fd : {"ALT_FD_EXCL", "ALT_FD_DEV"} \cap g.list[j].flags # {} => g.list[j].dev \in Char
    BY <1>1, <1>5, <1>6, <1>7 DEF PoolOK
  <2>4. \A j \in Fd : g.list[j].dev # "hostfs"
    BY <1>9, <2>1, FilesAssumption DEF Allocated, Char
  <2> QED
    BY <1>1, <1>5, <2>1, <2>2, <2>3, <2>4 DEF PoolOK
<1> QED
  BY <1>7, <1>9, <1>10, <1>11, <1>12

\* What a system call may do, said once for all of them.
LEMMA CalledKeeps ==
  ASSUME FilesInv, NEW result, Called(result), PoolOK(result.files),
         result.rc \in -1..(ALT_MAX_FD - 1),
         \A j \in Standard : result.files.list[j].dev = files.list[j].dev
  PROVE  FilesInv'
<1>1. boot = "main" /\ boot' = "main" /\ files' = result.files /\ rc' = result.rc
  BY DEF Called
<1>2. PoolOK(files)'
  BY <1>1 DEF PoolOK, Allocated
<1>3. Registered'
  BY <1>1 DEF Called, FilesInv, Registered
<1>4. \A j \in Redirected' : files'.list[j].dev = StdDev
  BY <1>1 DEF FilesInv, Redirected, Standard
<1> QED
  BY <1>1, <1>2, <1>3, <1>4 DEF FilesInv, Booting

\* What PoolGrowsByOpen and LockKeepsOut ask of a step.
Grows == \A i \in Allocated(files') \ Allocated(files) : boot = "main" /\ rc' = i

KeepsOut ==
  \A i \in Allocated(files') \ Allocated(files), j \in Allocated(files) :
    "ALT_FD_EXCL" \in files.list[j].flags => files'.list[i].dev # files.list[j].dev

\* Most calls give out no descriptor.
LEMMA NoneGivenOut ==
  ASSUME Allocated(files') \subseteq Allocated(files)
  PROVE  Grows /\ KeepsOut
BY DEF Grows, KeepsOut

LEMMA OpenKeeps == FilesInv /\ OpenCall => FilesInv' /\ Grows /\ KeepsOut
<1> SUFFICES ASSUME FilesInv, NEW name \in Name, NEW mode \in Modes, NEW answer \in Answers,
                    Called(Open(files, name, mode, answer))
             PROVE  FilesInv' /\ Grows /\ KeepsOut
  BY DEF OpenCall
<1> DEFINE r == Open(files, name, mode, answer)
<1>1. boot = "main" /\ files' = r.files /\ rc' = r.rc
  BY DEF Called
<1>2. /\ PoolOK(r.files)
      /\ OpenFailed(files, r.files, r.rc) \/ OpenGave(files, r.files, r.rc, Lookup(name))
  <2>1. Registered /\ PoolOK(files) /\ mode \in SUBSET Flag
    BY <1>1, FilesAssumption DEF FilesInv, Flag, Access
  <2>2. answer \in {None} \cup (Handles \ files.handles)
    BY DEF Answers
  <2> QED
    BY <2>1, <2>2, OpenIs
<1> HIDE DEF r
<1>3. r.rc \in -1..(ALT_MAX_FD - 1)
  BY <1>2, FilesAssumption DEF OpenFailed, OpenGave, Fd, Error
<1>4. \A j \in Standard : r.files.list[j].dev = files.list[j].dev
  BY <1>2, StandardFd DEF OpenFailed, OpenGave, Standard
<1>5. FilesInv'
  BY <1>2, <1>3, <1>4, CalledKeeps DEF r
<1>6. CASE OpenFailed(files, r.files, r.rc)
  BY <1>1, <1>5, <1>6, NoneGivenOut DEF OpenFailed, Allocated
<1>7. CASE OpenGave(files, r.files, r.rc, Lookup(name))
  <2>1. Allocated(files') \ Allocated(files) \subseteq {r.rc}
    BY <1>1, <1>7 DEF OpenGave, Allocated
  <2> QED
    BY <1>1, <1>5, <1>7, <2>1 DEF OpenGave, Grows, KeepsOut
<1> QED
  BY <1>2, <1>5, <1>6, <1>7

LEMMA CloseKeeps == FilesInv /\ CloseCall => FilesInv' /\ Grows /\ KeepsOut
<1> SUFFICES ASSUME FilesInv, NEW i \in Allocated(files) \cup {-1}, NEW fails \in BOOLEAN,
                    Called(Close(files, i, fails))
             PROVE  FilesInv' /\ Grows /\ KeepsOut
  BY DEF CloseCall, CloseFails
<1> DEFINE r == Close(files, i, fails)
<1>1. files' = r.files
  BY DEF Called
<1>2. /\ PoolOK(r.files) /\ r.rc \in {Error, 0}
      /\ i > 2 => r.files.list[i].dev = None /\ r.files.list[i].flags = {}
      /\ \A j \in Fd : j <= 2 \/ j # i => r.files.list[j] = files.list[j]
  BY CloseIs DEF FilesInv
<1> HIDE DEF r
<1>3. \A j \in Standard : r.files.list[j].dev = files.list[j].dev
  BY <1>2, StandardFd DEF Standard
<1>4. FilesInv'
  BY <1>2, <1>3, CalledKeeps, FilesAssumption DEF r, Error
<1>5. Allocated(files') \subseteq Allocated(files)
  BY <1>1, <1>2, FilesAssumption DEF Allocated, Fd
<1> QED
  BY <1>4, <1>5, NoneGivenOut

LEMMA StatKeeps ==
  ASSUME FilesInv, NEW name \in Name, NEW answer \in Answers, NEW asked \in BOOLEAN,
         NEW fails \in BOOLEAN, StatCall(name, answer, asked, fails)
  PROVE  FilesInv' /\ Grows /\ KeepsOut
<1> DEFINE o == Open(files, name, {}, answer)
           isFile == o.rc >= 0 /\ o.files.list[o.rc].dev = "hostfs"
           shutFails == isFile /\ fails
           c == Close(o.files, o.rc, shutFails)
           result == [files |-> c.files,
                      rc |-> IF o.rc < 0 \/ (isFile /\ asked) THEN Error ELSE 0]
<1>1. Called(result)
  BY DEF StatCall
<1>2. boot = "main" /\ files' = c.files
  BY <1>1 DEF Called
<1>3. /\ PoolOK(o.files)
      /\ OpenFailed(files, o.files, o.rc) \/ OpenGave(files, o.files, o.rc, Lookup(name))
  <2>1. Registered /\ PoolOK(files) /\ {} \in SUBSET Flag
    BY <1>2 DEF FilesInv
  <2>2. answer \in {None} \cup (Handles \ files.handles)
    BY DEF Answers
  <2> QED
    BY <2>1, <2>2, OpenIs
<1>4. result.files = c.files /\ result.rc \in -1..(ALT_MAX_FD - 1)
  BY FilesAssumption DEF Error
<1> HIDE DEF o, result
<1>5. o.rc \in Allocated(o.files) \cup {-1}
  BY <1>3 DEF OpenFailed, OpenGave, Allocated, Error
<1>6. PICK b \in BOOLEAN : c = Close(o.files, o.rc, b)
  <2>1. CASE shutFails
    <3>1. c = Close(o.files, o.rc, TRUE)
      BY <2>1 DEF Close
    <3> QED
      BY <3>1
  <2>2. CASE ~shutFails
    <3>1. c = Close(o.files, o.rc, FALSE)
      BY <2>2 DEF Close
    <3> QED
      BY <3>1
  <2> QED
    BY <2>1, <2>2
<1> HIDE DEF c
<1>7. /\ PoolOK(c.files)
      /\ o.rc > 2 => c.files.list[o.rc].dev = None /\ c.files.list[o.rc].flags = {}
      /\ \A j \in Fd : j <= 2 \/ j # o.rc => c.files.list[j] = o.files.list[j]
  <2> DEFINE d == Close(o.files, o.rc, b)
  <2>1. PoolOK(o.files)
    BY <1>3
  <2>2. /\ PoolOK(d.files)
        /\ o.rc > 2 => d.files.list[o.rc].dev = None /\ d.files.list[o.rc].flags = {}
        /\ \A j \in Fd : j <= 2 \/ j # o.rc => d.files.list[j] = o.files.list[j]
    <3>1. ASSUME NEW f, PoolOK(f), NEW i \in Allocated(f) \cup {-1}
          PROVE  LET k == Close(f, i, b)
                 IN  /\ PoolOK(k.files)
                     /\ i > 2 => k.files.list[i].dev = None /\ k.files.list[i].flags = {}
                     /\ \A j \in Fd : j <= 2 \/ j # i => k.files.list[j] = f.list[j]
      BY <3>1, CloseIs
    <3> QED
      BY <2>1, <1>5, <3>1
  <2> HIDE DEF d
  <2>3. c = d
    BY <1>6 DEF d
  <2> QED
    BY <2>2, <2>3
<1>8. \A j \in Fd : c.files.list[j].dev = files.list[j].dev
  <2>1. CASE OpenFailed(files, o.files, o.rc)
    BY <1>7, <2>1, FilesAssumption DEF OpenFailed, Error, Fd
  <2>2. CASE OpenGave(files, o.files, o.rc, Lookup(name))
    BY <1>7, <2>2, FilesAssumption DEF OpenGave, Allocated, Fd
  <2> QED
    BY <1>3, <2>1, <2>2
<1>9. FilesInv'
  BY <1>1, <1>4, <1>7, <1>8, CalledKeeps, StandardFd
<1>10. Allocated(files') \subseteq Allocated(files)
  BY <1>2, <1>8 DEF Allocated
<1> QED
  BY <1>9, <1>10, NoneGivenOut

LEMMA BootKeeps == FilesInv /\ (SysInit \/ AltIoRedirect) => FilesInv' /\ Grows /\ KeepsOut
<1> SUFFICES ASSUME FilesInv, SysInit \/ AltIoRedirect
             PROVE  FilesInv' /\ Grows /\ KeepsOut
  OBVIOUS
<1>1. CASE SysInit
  <2>1. /\ boot = "start" /\ boot' = "stdout" /\ files' = files /\ rc' = rc
        /\ alt_dev_list' = {"null", "jtag"} /\ alt_fs_list' = {"hostfs"}
    BY <1>1 DEF SysInit, FilesInv
  <2>2. PoolOK(files)'
    BY <2>1 DEF FilesInv, PoolOK, Allocated
  <2>3. Allocated(files') = Allocated(files) /\ Redirected' = {}
    BY <2>1 DEF Redirected
  <2>4. FilesInv'
    BY <2>1, <2>2, <2>3 DEF FilesInv, Registered, Booting
  <2> QED
    BY <2>3, <2>4, NoneGivenOut
<1>2. ASSUME NEW fd \in Standard, NEW flags \in SUBSET Flag, NEW from, NEW to,
             <<fd, from, to>> \in {<<STDOUT, "stdout", "stdin">>, <<STDIN, "stdin", "stderr">>,
                                   <<STDERR, "stderr", "main">>},
             Redirect(fd, flags, from, to)
      PROVE  FilesInv' /\ Grows /\ KeepsOut
  <2>1. boot = from /\ boot' = to /\ rc' = rc /\ alt_dev_list' = alt_dev_list /\ alt_fs_list' = alt_fs_list
    BY <1>2 DEF Redirect
  <2>2. Booting /\ boot # "start" /\ boot' # "start"
    BY <1>2, <2>1 DEF Booting
  <2>3. /\ PoolOK(files') /\ Allocated(files') = Standard
        /\ files'.list[fd].dev = StdDev /\ \A j \in Standard \ {fd} : files'.list[j] = files.list[j]
        /\ \A j \in Fd : "ALT_FD_EXCL" \notin files'.list[j].flags
    <3>1. PICK answer \in Answers :
            files' = AltOpenFd(fd, Stdio, flags, Open(files, Stdio, flags, answer))
      BY <1>2 DEF Redirect
    <3> QED
      BY <2>2, <3>1, RedirectKeeps
  <2>4. Redirected' \subseteq Redirected \cup {fd} /\ Redirected \subseteq Standard
    BY <1>2, <2>1 DEF Redirected, Standard, STDIN, STDOUT, STDERR
  <2>5. \A j \in Redirected' : files'.list[j].dev = StdDev
    BY <2>3, <2>4 DEF FilesInv
  <2>6. FilesInv'
    BY <1>2, <2>1, <2>2, <2>3, <2>5 DEF FilesInv, Registered, Booting, PoolOK, Allocated
  <2>7. Allocated(files) = Standard
    BY <2>2 DEF FilesInv
  <2> QED
    BY <2>3, <2>6, <2>7, NoneGivenOut
<1>3. CASE AltIoRedirect
  BY <1>2, <1>3, StandardFd DEF AltIoRedirect, Flag, Access
<1> QED
  BY <1>1, <1>3

\* main returned: stdout is drained and stays in place.
LEMMA ExitKeeps == FilesInv /\ MainReturns => FilesInv' /\ Grows /\ KeepsOut
<1> SUFFICES ASSUME FilesInv, MainReturns
             PROVE  FilesInv' /\ Grows /\ KeepsOut
  OBVIOUS
<1>1. PICK fails \in BOOLEAN : files' = Close(files, STDOUT, fails).files /\ rc' = Close(files, STDOUT, fails).rc
  BY DEF MainReturns, CloseFails
<1>2. /\ boot = "main" /\ boot' = "exit"
      /\ alt_dev_list' = alt_dev_list /\ alt_fs_list' = alt_fs_list
  BY DEF MainReturns
<1>3. STDOUT \in Allocated(files) /\ STDOUT <= 2
  BY StandardFd, FilesAssumption DEF FilesInv, PoolOK, Allocated, Char, STDOUT
<1>4. PoolOK(files') /\ rc' \in {Error, 0} /\ \A j \in Fd : files'.list[j] = files.list[j]
  BY <1>1, <1>3, CloseIs DEF FilesInv
<1>5. Allocated(files') = Allocated(files)
  BY <1>4 DEF Allocated
<1>6. \A j \in Redirected' : files'.list[j].dev = StdDev
  BY <1>2, <1>4, StandardFd DEF FilesInv, Redirected
<1>7. FilesInv'
  BY <1>2, <1>4, <1>6, FilesAssumption DEF FilesInv, Registered, Booting, PoolOK, Allocated, Error
<1> QED
  BY <1>5, <1>7, NoneGivenOut

LEMMA DescriptorKeeps ==
  ASSUME FilesInv, NEW i \in Allocated(files),
         \/ \E req \in {"TIOCEXCL", "TIOCNXCL", "other"} : Ioctl(i, req)
         \/ \E nonblock \in BOOLEAN : Fcntl(i, nonblock)
         \/ Transfer(i, MayRead(i)) \/ Transfer(i, MayWrite(i))
         \/ Lseek(i) \/ Fstat(i) \/ Isatty(i)
  PROVE  FilesInv' /\ Grows /\ KeepsOut
<1>1. ASSUME NEW n \in {Error, 0, 1}, Called([files |-> files, rc |-> n])
      PROVE  FilesInv' /\ Grows /\ KeepsOut
  <2>1. FilesInv'
    BY <1>1, CalledKeeps, FilesAssumption DEF FilesInv, Error
  <2> QED
    BY <1>1, <2>1, NoneGivenOut DEF Called
<1>2. ASSUME NEW flags \in SUBSET Flag,
             {"ALT_FD_EXCL", "ALT_FD_DEV"} \cap flags # {} => files.list[i].dev \in Char,
             Called([files |-> [files EXCEPT !.list[i].flags = flags], rc |-> 0])
      PROVE  FilesInv' /\ Grows /\ KeepsOut
  <2> DEFINE g == [files EXCEPT !.list[i].flags = flags]
  <2>1. PoolOK(g) /\ \A j \in Fd : g.list[j].dev = files.list[j].dev
    BY <1>2, FlagsKeep DEF FilesInv
  <2>2. Called([files |-> g, rc |-> 0])
    BY <1>2
  <2> HIDE DEF g
  <2>3. FilesInv'
    BY <2>1, <2>2, CalledKeeps, StandardFd, FilesAssumption
  <2>4. Allocated(files') = Allocated(files)
    BY <2>1, <2>2 DEF Called, Allocated
  <2> QED
    BY <2>3, <2>4, NoneGivenOut
<1> DEFINE flags == files.list[i].flags
<1>3. /\ flags \in SUBSET Flag /\ files \in Pool /\ i \in Fd
      /\ {"ALT_FD_EXCL", "ALT_FD_DEV"} \cap flags # {} => files.list[i].dev \in Char
  BY DEF FilesInv, PoolOK, Pool, Entry, Allocated
<1>4. ASSUME NEW flag, [files EXCEPT !.list[i].flags = @ \cup {flag}] = files \/ TRUE
      PROVE  /\ [files EXCEPT !.list[i].flags = @ \cup {flag}]
                  = [files EXCEPT !.list[i].flags = flags \cup {flag}]
             /\ [files EXCEPT !.list[i].flags = @ \ {flag}]
                  = [files EXCEPT !.list[i].flags = flags \ {flag}]
  BY <1>3 DEF Pool, Entry
<1>5. ASSUME NEW req \in {"TIOCEXCL", "TIOCNXCL", "other"}, Ioctl(i, req)
      PROVE  FilesInv' /\ Grows /\ KeepsOut
  <2>1. CASE "ALT_FD_DEV" \in flags /\ req = "TIOCEXCL"
    <3>1. Called([files |-> files, rc |-> Error])
            \/ Called([files |-> [files EXCEPT !.list[i].flags = flags \cup {"ALT_FD_EXCL"}], rc |-> 0])
      BY <1>3, <1>4, <1>5, <2>1 DEF Ioctl, FdLock
    <3> QED
      BY <1>1, <1>2, <1>3, <2>1, <3>1 DEF Flag
  <2>2. CASE "ALT_FD_DEV" \in flags /\ req = "TIOCNXCL"
    <3>1. Called([files |-> [files EXCEPT !.list[i].flags = flags \ {"ALT_FD_EXCL"}], rc |-> 0])
      BY <1>3, <1>4, <1>5, <2>2 DEF Ioctl, FdUnlock
    <3> QED
      BY <1>2, <1>3, <2>2, <3>1
  <2>3. CASE ~("ALT_FD_DEV" \in flags /\ req \in {"TIOCEXCL", "TIOCNXCL"})
    <3>1. Called([files |-> files, rc |-> Error]) \/ Called([files |-> files, rc |-> 0])
      BY <1>5, <2>3 DEF Ioctl, IoctlResult
    <3> QED
      BY <1>1, <3>1
  <2> QED
    BY <2>1, <2>2, <2>3
<1>6. ASSUME NEW nonblock \in BOOLEAN, Fcntl(i, nonblock)
      PROVE  FilesInv' /\ Grows /\ KeepsOut
  <2>1. Called([files |-> [files EXCEPT !.list[i].flags = flags \cup {"O_NONBLOCK"}], rc |-> 0])
          \/ Called([files |-> [files EXCEPT !.list[i].flags = flags \ {"O_NONBLOCK"}], rc |-> 0])
    BY <1>3, <1>4, <1>6 DEF Fcntl
  <2>2. CASE Called([files |-> [files EXCEPT !.list[i].flags = flags \cup {"O_NONBLOCK"}], rc |-> 0])
    BY <1>2, <1>3, <2>2 DEF Flag
  <2>3. CASE Called([files |-> [files EXCEPT !.list[i].flags = flags \ {"O_NONBLOCK"}], rc |-> 0])
    BY <1>2, <1>3, <2>3
  <2> QED
    BY <2>1, <2>2, <2>3
<1>7. CASE Transfer(i, MayRead(i)) \/ Transfer(i, MayWrite(i)) \/ Lseek(i) \/ Fstat(i) \/ Isatty(i)
  BY <1>1, <1>7 DEF Transfer, DriverResult, Lseek, SeekResult, Fstat, StatResult, Isatty
<1> QED
  BY <1>5, <1>6, <1>7

LEMMA FilesInitInv == FilesInit => FilesInv
<1> SUFFICES ASSUME FilesInit PROVE FilesInv
  OBVIOUS
<1>1. /\ boot = "start" /\ alt_dev_list = {"null"} /\ alt_fs_list = {} /\ rc = 0
      /\ files.list = [i \in Fd |-> [dev |-> IF i \in Standard THEN "null" ELSE None,
                                     priv |-> None, flags |-> {}]]
      /\ files.max = -1 /\ files.handles = {}
  BY DEF FilesInit
<1>2. files \in Pool
  BY FilesAssumption DEF FilesInit, Pool, Entry, Device
<1>3. \A i \in Fd : /\ files.list[i].dev = IF i \in Standard THEN "null" ELSE None
                    /\ files.list[i].flags = {}
  BY <1>1
<1>4. Allocated(files) = Standard
  BY <1>3, StandardFd, FilesAssumption DEF Allocated
<1>5. PoolOK(files)
  BY <1>1, <1>2, <1>3, <1>4, StandardFd, FilesAssumption DEF PoolOK, Char, Standard
<1> QED
  BY <1>1, <1>3, <1>4, <1>5, FilesAssumption DEF FilesInv, Redirected, Booting

LEMMA FilesStep == FilesInv /\ [FilesNext]_fileVars => FilesInv' /\ Grows /\ KeepsOut
<1> SUFFICES ASSUME FilesInv, [FilesNext]_fileVars
             PROVE  FilesInv' /\ Grows /\ KeepsOut
  OBVIOUS
<1>1. CASE UNCHANGED fileVars
  <2>1. FilesInv'
    BY <1>1 DEF fileVars, FilesInv, PoolOK, Allocated, Registered, Redirected, Booting
  <2> QED
    BY <1>1, <2>1, NoneGivenOut DEF fileVars
<1>2. CASE SysInit \/ AltIoRedirect
  BY <1>2, BootKeeps
<1>3. CASE MainReturns
  BY <1>3, ExitKeeps
<1>4. CASE OpenCall
  BY <1>4, OpenKeeps
<1>5. CASE CloseCall
  BY <1>5, CloseKeeps
<1>6. CASE \E name \in Name, answer \in Answers, asked, fails \in BOOLEAN :
             StatCall(name, answer, asked, fails)
  BY <1>6, StatKeeps
<1>7. CASE \E i \in Allocated(files) :
             \/ \E req \in {"TIOCEXCL", "TIOCNXCL", "other"} : Ioctl(i, req)
             \/ \E nonblock \in BOOLEAN : Fcntl(i, nonblock)
             \/ Transfer(i, MayRead(i)) \/ Transfer(i, MayWrite(i))
             \/ Lseek(i) \/ Fstat(i) \/ Isatty(i)
  BY <1>7, DescriptorKeeps
<1> QED
  BY <1>1, <1>2, <1>3, <1>4, <1>5, <1>6, <1>7 DEF FilesNext
-----------------------------------------------------------------------------
(* What holds of every run.                                                *)

\* The invariant of the pool, of the boot stages and of the registered devices.
THEOREM FilesInvariant == FilesSpec => []FilesInv
<1>1. FilesInv /\ [FilesNext]_fileVars => FilesInv'
  BY FilesStep
<1> QED
  BY <1>1, FilesInitInv, PTL DEF FilesSpec

\* No handle that the host did not give is ever stored, and what a call returns
\* is a descriptor or -1.
THEOREM FilesTypeCorrect == FilesSpec => []FilesTypeOK
<1>1. FilesInv => FilesTypeOK
  BY FilesAssumption DEF FilesInv, FilesTypeOK, PoolOK, Registered, Device
<1> QED
  BY <1>1, FilesInvariant, PTL

\* printf and exit always find the UART behind the standard descriptors: they
\* can be closed but are not given back, whatever the program opens and closes.
THEOREM StandardStaysOpen == FilesSpec => []StandardOpen
<1>1. ASSUME FilesInv PROVE StandardOpen
  <2>1. Standard \subseteq Allocated(files)
    BY <1>1, StandardFd, FilesAssumption DEF FilesInv, PoolOK, Allocated, Char
  <2>2. ASSUME boot \in {"main", "exit"}
        PROVE  \A i \in Standard : files.list[i].dev = Lookup(Stdio)
    <3>1. Registered /\ Redirected = Standard
      BY <1>1, <2>2 DEF FilesInv, Redirected
    <3> QED
      BY <1>1, <3>1, LookupIs DEF FilesInv
  <2> QED
    BY <2>1, <2>2 DEF StandardOpen
<1> QED
  BY <1>1, FilesInvariant, PTL

\* The loops over the pool that stop at alt_max_fd miss no descriptor in use.
THEOREM MarkStaysHigh == FilesSpec => []MarkIsHigh
<1>1. ASSUME FilesInv PROVE MarkIsHigh
  <2>1. files.max \in Int /\ Allocated(files) \subseteq Int
    BY <1>1, FilesAssumption DEF FilesInv, PoolOK, Pool, Allocated, Fd
  <2> QED
    BY <1>1, <2>1 DEF FilesInv, PoolOK, MarkIsHigh
<1> QED
  BY <1>1, FilesInvariant, PTL

\* Two descriptors never share a file of the host, and none outlives its file.
THEOREM HandlesAreOwned == FilesSpec => []HandleIsOwned
<1>1. ASSUME FilesInv PROVE HandleIsOwned
  BY <1>1 DEF FilesInv, PoolOK, HandleIsOwned, Allocated
<1> QED
  BY <1>1, FilesInvariant, PTL

\* No path leaks a descriptor: only an open that returns it leaves it taken.
THEOREM OnlyOpenGrows == FilesSpec => PoolGrowsByOpen
<1>1. FilesInv /\ [FilesNext]_fileVars =>
        [\A i \in Allocated(files') \ Allocated(files) : boot = "main" /\ rc' = i]_fileVars
  BY FilesStep DEF Grows
<1> QED
  BY <1>1, FilesInvariant, PTL DEF FilesSpec, PoolGrowsByOpen

\* A locked device is not opened a second time, for any number of descriptors.
THEOREM LockIsKept == FilesSpec => LockKeepsOut
<1>1. FilesInv /\ [FilesNext]_fileVars =>
        [\A i \in Allocated(files') \ Allocated(files), j \in Allocated(files) :
           "ALT_FD_EXCL" \in files.list[j].flags => files'.list[i].dev # files.list[j].dev]_fileVars
  BY FilesStep DEF KeepsOut
<1> QED
  BY <1>1, FilesInvariant, PTL DEF FilesSpec, LockKeepsOut
===============================================================================
