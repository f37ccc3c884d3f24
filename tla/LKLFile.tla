------------------------------ MODULE LKLFile ------------------------------
(***************************************************************************)
(* The file protocol of one mounted volume: Open.c, Flush.c, ReadWrite.c   *)
(* and Info.c.  Calls of the file protocol do not overlap, so a call is    *)
(* one step; what can go wrong lies in the state a handle keeps between    *)
(* calls.                                                                  *)
(*                                                                         *)
(* Linux is external: a table of inodes, the names that lead to them, and  *)
(* the open file descriptors.  The directory tree is the root with one     *)
(* level of names; paths that RealPath resolves to outside the mount point *)
(* have names of their own.  File contents are their length.               *)
(***************************************************************************)
EXTENDS Integers, Sequences, FiniteSets, SequencesExt, LKLTime

CONSTANTS
    Root,       \* the mount point
    Names,      \* paths below it
    Outside,    \* paths that resolve to outside the mount point
    Long,       \* the names that need the larger buffer
    Inodes, Handles,
    Fds,        \* file descriptors, numbers: Linux takes the lowest free one
    None,
    Requests,   \* what clients put in EFI_FILE_INFO
    Now,        \* the time Linux writes into a file that changes
    MaxSize     \* bound on file sizes and positions

VARIABLES
    protected,  \* Volume->ReadOnly
    tree,       \* tree[p]: the inode path p leads to, or None
    inode,      \* inode[i]: kind, size, write permission and modification time, or None
    fd,         \* fd[x]: inode, position and access mode of an open file descriptor
    handle,     \* handle[h]: the LKL_IFILE of an open handle, or None
    answer,     \* what the last SetInfo that succeeded was asked for, or None once
                \* its handle is closed or its file is written to or set again
    wild        \* a failing LKLOpenVolume has written through a wild pointer

vars == <<protected, tree, inode, fd, handle, answer, wild>>

Paths == {Root} \cup Names \cup Outside
Sizes == 0 .. MaxSize
InodeRecords == [kind : {"file", "dir"}, size : Sizes, writable : BOOLEAN, mtime : Stamps]
FdRecords == [ino : Inodes, pos : Sizes, write : BOOLEAN]

(* dir is "none" while IFile->Dir is NULL, "start" when the stream is at   *)
(* its beginning, "reading" after that; entry is IFile->DirEnt and rest    *)
(* what lkl_readdir has left.  listed and got are for the properties: what *)
(* the stream held when it was begun, and the entries delivered since.     *)
HandleRecords ==
    [fd : Fds, kind : {"file", "dir"}, path : Paths,
     dir : {"none", "start", "reading"}, entry : Names \cup {None},
     rest : Seq(Names), listed : Seq(Names), got : Seq(Names)]

FileInfos ==
    [created : EFI_TIME, modified : EFI_TIME, readonly : BOOLEAN, directory : BOOLEAN, size : Sizes]

ASSUME FileAssumption ==
    /\ Root \notin Names \cup Outside /\ Names \cap Outside = {} /\ IsFiniteSet(Names)
    /\ Long \subseteq Names
    /\ None \notin Inodes \cup Handles \cup Names /\ Fds \subseteq Nat
    /\ None \notin InodeRecords \cup FdRecords \cup HandleRecords
    /\ MaxSize \in Nat \ {0}
    /\ Now \in Stamps
    /\ Requests \subseteq FileInfos

TypeOK ==
    /\ protected \in BOOLEAN
    /\ tree \in [Paths -> Inodes \cup {None}]
    /\ inode \in [Inodes -> InodeRecords \cup {None}]
    /\ fd \in [Fds -> FdRecords \cup {None}]
    /\ handle \in [Handles -> HandleRecords \cup {None}]

NewInode(kind) == [kind |-> kind, size |-> 0, writable |-> TRUE, mtime |-> Now]

\* A volume whose names lead to the inodes i, d among them a directory and ro a
\* file without u+w.
Holds(i, d, ro) ==
    /\ i[Root] # None
    /\ \A p, q \in {Root} \cup Names : i[p] = i[q] /\ i[p] # None => p = q
    /\ tree = [p \in Paths |-> IF p \in DOMAIN i THEN i[p] ELSE None]
    /\ inode = [j \in Inodes |->
          IF \A p \in DOMAIN i : i[p] # j THEN None
          ELSE [NewInode(IF j = i[Root] \/ (d # None /\ i[d] = j) THEN "dir" ELSE "file")
                EXCEPT !.writable = ro = None \/ i[ro] # j]]

\* Any of the names are there; nothing is open.
Init ==
    /\ protected \in BOOLEAN
    /\ \E i \in [{Root} \cup Names -> Inodes \cup {None}], d, ro \in Names \cup {None} : Holds(i, d, ro)
    /\ fd = [x \in Fds |-> None]
    /\ handle = [h \in Handles |-> None]
    /\ answer = None /\ wild = FALSE

-----------------------------------------------------------------------------
Opened == {h \in Handles : handle[h] # None}
Ino(h) == fd[handle[h].fd].ino

\* An inode lives while a path or a file descriptor leads to it.
Live(t, f, table) ==
    [i \in Inodes |-> IF (\E p \in Paths : t[p] = i) \/ (\E x \in Fds : f[x] # None /\ f[x].ino = i)
                      THEN table[i] ELSE None]

\* lkl_sys_close
Closed(x) == [fd EXCEPT ![x] = None]

NewHandle(x, kind, p) ==
    [fd |-> x, kind |-> kind, path |-> p, dir |-> "none", entry |-> None,
     rest |-> << >>, listed |-> << >>, got |-> << >>]

\* Mutant for DescriptorsBalanced: the descriptor of a failed open stays open.
LKLAllocateIFile_Leaks(h, p, i, write, t, table) ==
    /\ tree' = t /\ inode' = table
    /\ \E x \in Fds :
          /\ fd[x] = None /\ \A y \in Fds : y < x => fd[y] # None
          /\ fd' = [fd EXCEPT ![x] = [ino |-> i, pos |-> 0, write |-> write]]
          /\ \/ handle' = [handle EXCEPT ![h] = NewHandle(x, table[i].kind, p)]
             \/ UNCHANGED handle

\* The end of LKLOpen for a path that exists as inode i in the tree t: a file
\* descriptor, then LKLAllocateIFile, which may fail and has it closed again.
LKLAllocateIFile(h, p, i, write, t, table) ==
    /\ tree' = t /\ inode' = table
    /\ \/ \E x \in Fds :
             /\ fd[x] = None /\ \A y \in Fds : y < x => fd[y] # None
             /\ fd' = [fd EXCEPT ![x] = [ino |-> i, pos |-> 0, write |-> write]]
             /\ handle' = [handle EXCEPT ![h] = NewHandle(x, table[i].kind, p)]
       \/ UNCHANGED <<fd, handle>>

\* EFI_WRITE_PROTECTED
Refused(write) == protected /\ write

\* LKLOpenVolume, which returns a handle or finds the mount point not to open
LKLOpenVolume(h) ==
    /\ handle[h] = None
    /\ LKLAllocateIFile(h, Root, tree[Root], FALSE, tree, inode)
    /\ UNCHANGED <<protected, answer>>

\* LKLOpenVolume when LKLAllocateIFile fails: LinuxOpenFlags is set through
\* IFile, which nobody has initialised.  From then on the memory may hold
\* anything, and the model goes no further.
LKLOpenVolumeFails(h) ==
    /\ handle[h] = None /\ \E x \in Fds : fd[x] = None
    /\ UNCHANGED <<protected, tree, inode, fd, handle, answer>>

\* LKLOpen without CREATE; a directory cannot be opened for writing
LKLOpen(h, p, write) ==
    /\ Opened # {} /\ handle[h] = None
    /\ ~Refused(write)
    /\ p \notin Outside /\ tree[p] # None
    /\ ~(write /\ inode[tree[p]].kind = "dir")
    /\ LKLAllocateIFile(h, p, tree[p], write, tree, inode)
    /\ UNCHANGED <<protected, answer>>

\* LKLOpen with CREATE and READ | WRITE: mkdir comes before the test for the
\* mount point, and an existing directory is an error either way.  A request
\* with EFI_FILE_READ_ONLY has been refused, so what is made can be written to.
LKLOpenCreate(h, p, directory) ==
    /\ Opened # {} /\ handle[h] = None /\ p # Root
    /\ ~Refused(TRUE)
    /\ \/ /\ tree[p] = None /\ (directory \/ p \notin Outside)
          /\ \E i \in Inodes :
                LET t == [tree EXCEPT ![p] = i]
                    table == [inode EXCEPT ![i] = NewInode(IF directory THEN "dir" ELSE "file")]
                IN  /\ inode[i] = None
                    /\ IF p \in Outside
                       THEN tree' = t /\ inode' = table /\ UNCHANGED <<fd, handle>>
                       ELSE LKLAllocateIFile(h, p, i, ~directory, t, table)
       \/ /\ tree[p] # None /\ ~directory /\ p \notin Outside /\ inode[tree[p]].kind = "file"
          /\ LKLAllocateIFile(h, p, tree[p], TRUE, tree, inode)
    /\ UNCHANGED <<protected, answer>>

\* A handle that is closed takes its answer with it.
AnswerWithout(h) == IF answer # None /\ answer.h = h THEN None ELSE answer

\* LKLClose; the directory stream is not closed
LKLClose(h) ==
    /\ handle[h] # None
    /\ fd' = Closed(handle[h].fd)
    /\ handle' = [handle EXCEPT ![h] = None]
    /\ inode' = Live(tree, fd', inode)
    /\ answer' = AnswerWithout(h) /\ UNCHANGED <<protected, tree>>

\* LKLDelete closes the handle in any case and then unlinks the path it was
\* opened with, whatever that leads to now; unlink refuses directories.
LKLDelete(h) ==
    /\ handle[h] # None
    /\ fd' = Closed(handle[h].fd)
    /\ handle' = [handle EXCEPT ![h] = None]
    /\ LET p == handle[h].path
           gone == [tree EXCEPT ![p] = None]
       IN  \/ tree' = tree
           \/ tree[p] # None /\ inode[tree[p]].kind = "file" /\ tree' = gone
    /\ inode' = Live(tree', fd', inode)
    /\ answer' = AnswerWithout(h) /\ UNCHANGED protected

-----------------------------------------------------------------------------
Needs(n) == IF n \in Long THEN 2 ELSE 1

\* LKLIFileReadDir with a buffer for b units: the directory is opened on the
\* first call, and an entry that does not fit is kept for the next one.
LKLIFileReadDir(h, b) ==
    /\ handle[h] # None /\ handle[h].kind = "dir"
    /\ LET f == handle[h]
           all == IF f.dir = "reading" THEN f.listed
                  ELSE SetToSeq({n \in Names : f.path = Root /\ tree[n] # None})
           rest == IF f.dir = "reading" THEN f.rest ELSE all
           begun == [f EXCEPT !.dir = "reading", !.listed = all, !.rest = rest]
           left == IF f.entry = None THEN Tail(rest) ELSE f.rest
           n == IF f.entry = None THEN Head(rest) ELSE f.entry
       IN  handle' = [handle EXCEPT ![h] =
              IF f.entry = None /\ rest = << >> THEN begun             \* end of directory
              ELSE IF Needs(n) > b
              THEN [begun EXCEPT !.rest = left, !.entry = n]           \* BUFFER_TOO_SMALL
              ELSE [begun EXCEPT !.rest = left, !.entry = None, !.got = Append(@, n)]]
    /\ UNCHANGED <<protected, tree, inode, fd, answer>>

\* LKLIFileAccess on a file, READ_DATA: the position moves by what was there
LKLRead(h, n) ==
    /\ handle[h] # None /\ handle[h].kind = "file"
    /\ LET x == handle[h].fd
           end == inode[fd[x].ino].size
       IN  fd' = [fd EXCEPT ![x].pos = IF @ >= end THEN @ ELSE IF @ + n > end THEN end ELSE @ + n]
    /\ UNCHANGED <<protected, tree, inode, handle, answer>>

\* LKLIFileAccess on a file, WRITE_DATA: Linux refuses a descriptor opened for
\* reading and may write less than asked for
LKLWrite(h, n) ==
    /\ handle[h] # None /\ handle[h].kind = "file" /\ ~protected
    /\ LET x == handle[h].fd
           i == fd[x].ino
           pos == fd[x].pos + n
       IN  /\ fd[x].write /\ pos <= MaxSize
           /\ fd' = [fd EXCEPT ![x].pos = pos]
           /\ inode' = [inode EXCEPT ![i].size = IF pos > @ THEN pos ELSE @, ![i].mtime = Now]
    /\ answer' = IF answer # None /\ Ino(answer.h) = Ino(h) THEN None ELSE answer
    /\ UNCHANGED <<protected, tree, handle>>

\* Mutant for EntriesOnce: a rewind keeps the entry that did not fit.
LKLSetPosition_KeepsEntry(h, pos) ==
    /\ handle[h] # None
    /\ handle[h].kind = "dir" /\ pos = 0
    /\ handle' = [handle EXCEPT ![h].dir = IF @ = "none" THEN @ ELSE "start",
                     ![h].rest = << >>, ![h].listed = << >>, ![h].got = << >>]
    /\ UNCHANGED <<protected, tree, inode, fd, answer>>

\* LKLSetPosition: to the start for a directory, anywhere or to the end
\* (position -1) for a file
LKLSetPosition(h, pos) ==
    /\ handle[h] # None
    /\ LET x == handle[h].fd IN
       \/ /\ handle[h].kind = "dir" /\ pos = 0
          /\ handle' = [handle EXCEPT
                ![h].dir = IF @ = "none" THEN @ ELSE "start",
                ![h].entry = None, ![h].rest = << >>, ![h].listed = << >>, ![h].got = << >>]
          /\ UNCHANGED fd
       \/ /\ handle[h].kind = "file"
          /\ fd' = [fd EXCEPT ![x].pos = IF pos = -1 THEN inode[fd[x].ino].size ELSE pos]
          /\ UNCHANGED handle
    /\ UNCHANGED <<protected, tree, inode, answer>>

-----------------------------------------------------------------------------
\* LKLFillFileInfo: what fstat says.  Linux keeps no creation time.
LKLFillFileInfo(stat) ==
    [size |-> stat.size,
     modified |-> EpochToEfiTime(stat.mtime), created |-> EpochToEfiTime(stat.mtime),
     readonly |-> ~stat.writable, directory |-> stat.kind = "dir"]

\* LKLGetFileInfo.  LinuxOpenFlags & LKL_O_RDONLY is 0 for every handle, so
\* every file is reported with EFI_FILE_READ_ONLY.
LKLGetFileInfo(h) == [LKLFillFileInfo(inode[Ino(h)]) EXCEPT !.readonly = TRUE]

ZeroTime ==
    [Year |-> 0, Month |-> 0, Day |-> 0, Hour |-> 0, Minute |-> 0, Second |-> 0, TimeZone |-> 0]

TimesValid(q) == \A t \in {q.created, q.modified} : t = ZeroTime \/ EfiTimeIsValid(t)

\* UTimeBuf.modtime after CreateTime and after ModificationTime, in this order.
AfterCreate(q, mtime) == IF q.created = ZeroTime THEN mtime ELSE EfiTimeToEpoch(q.created)

\* Mutant for TimesReadBack: CreateTime wins when both times are given.
AfterModify_Skips(q, mtime) ==
    IF q.modified = ZeroTime \/ q.created # ZeroTime
    THEN AfterCreate(q, mtime) ELSE EfiTimeToEpoch(q.modified)

AfterModify(q, mtime) ==
    IF q.modified = ZeroTime THEN AfterCreate(q, mtime) ELSE EfiTimeToEpoch(q.modified)

TimeChanged(q, mtime) ==
    AfterCreate(q, mtime) # mtime \/ AfterModify(q, mtime) # AfterCreate(q, mtime)

\* The times of LKLSetFileInfo: whether it gets past them, and the inodes then.
\* lkl_sys_utime works on the path the handle was opened with.
TimesAccepted(h, q) ==
    /\ TimesValid(q)
    /\ TimeChanged(q, inode[Ino(h)].mtime) => tree[handle[h].path] # None

SetTimes(h, q) ==
    LET mtime == inode[Ino(h)].mtime IN
    IF TimeChanged(q, mtime)
    THEN [inode EXCEPT ![tree[handle[h].path]].mtime = AfterModify(q, mtime)]
    ELSE inode

\* The attributes.  (BOOLEAN)(NewAttribute & EFI_FILE_DIRECTORY) is 0x10 and
\* never equals IsDirectory, which is 1, so a directory is refused with and
\* without the bit.  ReadOnly is LinuxOpenFlags & LKL_O_RDONLY, which is 0;
\* lkl_sys_chmod gets the path without the mount point, so it fails, or
\* changes something else.
SetAttributes(h, q) ==
    inode[Ino(h)].kind = "file" /\ ~q.directory

\* The size, by ftruncate, which Linux refuses for a descriptor opened for reading.
SetSize(h, q, table) ==
    LET i == Ino(h) IN
    IF q.size = inode[i].size THEN inode' = table
    ELSE /\ fd[handle[h].fd].write
         /\ inode' = [table EXCEPT ![i].size = q.size, ![i].mtime = Now]

\* LKLSetOrGetInfo and LKLSetFileInfo refuse before anything has been done: a
\* read-only volume, the root, a bad buffer, an invalid time; or fstat or utime
\* fails.
LKLSetOrGetInfo(h) ==
    /\ handle[h] # None
    /\ UNCHANGED <<protected, tree, inode, fd, handle, answer>>

\* LKLSetFileInfo otherwise: a request that is refused half-way keeps what has
\* been done by then.
LKLSetFileInfo(h, q) ==
    /\ handle[h] # None /\ handle[h].path # Root /\ ~protected
    /\ \/ /\ TimesAccepted(h, q)
          /\ inode' = SetTimes(h, q)            \* bad attribute, chmod or ftruncate fails
          /\ answer' = None
       \/ /\ TimesAccepted(h, q) /\ SetAttributes(h, q)
          /\ SetSize(h, q, SetTimes(h, q))
          /\ answer' = [h |-> h, readonly |-> q.readonly,
                        modified |-> IF q.size = inode[Ino(h)].size THEN q.modified ELSE ZeroTime]
    /\ UNCHANGED <<protected, tree, fd, handle>>

Calls ==
    \E h \in Handles :
        \/ \E p \in Paths, b \in BOOLEAN : LKLOpen(h, p, b) \/ LKLOpenCreate(h, p, b)
        \/ LKLOpenVolume(h) \/ LKLClose(h) \/ LKLDelete(h)
        \/ \E b \in 0 .. 2 : LKLIFileReadDir(h, b)
        \/ \E n \in 1 .. MaxSize : LKLRead(h, n) \/ LKLWrite(h, n)
        \/ \E n \in {-1} \cup Sizes : LKLSetPosition(h, n)
        \/ LKLSetOrGetInfo(h) \/ \E q \in Requests : LKLSetFileInfo(h, q)

Next ==
    \/ ~wild /\ wild' = FALSE /\ Calls
    \/ ~wild /\ wild' = TRUE /\ \E h \in Handles : LKLOpenVolumeFails(h)
    \/ wild /\ UNCHANGED vars

Spec == Init /\ [][Next]_vars

-----------------------------------------------------------------------------
\* A directory handle delivers every entry of the directory once, in order,
\* whatever buffers the client offers: the entries delivered, the one kept
\* after BUFFER_TOO_SMALL and the ones not read yet are the directory as it was
\* when reading began, and a rewind begins again with nothing kept.
EntriesOnce ==
    \A h \in Opened :
        LET f == handle[h]
            kept == IF f.entry = None THEN << >> ELSE <<f.entry>>
        IN  IF f.dir = "reading" THEN f.listed = f.got \o kept \o f.rest
            ELSE f.got = << >> /\ f.entry = None

\* The open file descriptors are those of the open handles, one each, and each
\* leads to an inode of the kind LKLAllocateIFile found: an open that failed
\* half-way, a close or a delete leaves none behind and closes no other's.
DescriptorsBalanced ==
    /\ {x \in Fds : fd[x] # None} = {handle[h].fd : h \in Opened}
    /\ \A g, h \in Opened : handle[g].fd = handle[h].fd => g = h
    /\ \A h \in Opened : inode[Ino(h)] # None /\ inode[Ino(h)].kind = handle[h].kind

\* After a SetInfo that succeeded and left the size alone, LKLGetFileInfo tells
\* the date and the clock of the ModificationTime it was given, with TimeZone 0,
\* until the file is written to or set again: whatever is opened, read, closed,
\* deleted or created in between, and whatever CreateTime came with it.  So a
\* time given in UTC is told as it was given, and one given in another zone,
\* which EfiTimeToEpoch does not look at, is told as another moment.  The year
\* must be one that 32 bits of seconds reach, and the handle on the file that
\* its path leads to, where utime goes.
TimesReadBack ==
    answer # None =>
        LET t == answer.modified
        IN  t # ZeroTime /\ t.Year \in 1970 .. 2105 /\ tree[handle[answer.h].path] = Ino(answer.h) =>
                LKLGetFileInfo(answer.h).modified = [t EXCEPT !.TimeZone = 0]

\* Whatever modification time Linux keeps (one on each day that 32 bits of
\* seconds reach), clients are told the date of the calendar, LKLSetFileInfo
\* would accept the time they are told, and EfiTimeToEpoch would lead back to the
\* one that is kept.  Nothing else in the state matters, so the directory of a
\* volume without files stands for all.
CalendarExact ==
    Opened = {} /\ (\A p \in Paths : tree[p] # None => p = Root) =>
        \A n \in 0 .. MaxDay - 1 :
            LET Told(s) == LKLFillFileInfo([inode[tree[Root]] EXCEPT !.mtime = s]).modified
                now == <<n, (n * 7919) % SEC_PER_DAY>>
                yesterday == Date(Told(<<n - 1, 0>>))
            IN  /\ Date(Told(now)) = IF n = 0 THEN <<1970, 1, 1>> ELSE Tomorrow(yesterday)
                /\ EfiTimeIsValid(Told(now)) /\ EfiTimeToEpoch(Told(now)) = now

\* The comment in LKLSetFileInfo, "make file writable even if the OpenFlags are
\* ReadOnly": a SetInfo that succeeds, without EFI_FILE_READ_ONLY among the
\* attributes, leaves a file that can be written to.
AttributeApplied ==
    answer # None /\ ~answer.readonly => inode[Ino(answer.h)].writable
=============================================================================
