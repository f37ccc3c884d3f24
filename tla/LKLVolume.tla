------------------------------ MODULE LKLVolume ------------------------------
(***************************************************************************)
(* The life of a volume: driver binding (LKL.c), LKLAllocateVolume and     *)
(* LKLAbandonVolume (Init.c), and the device mapper set-up of dmcrypt.c.   *)
(*                                                                         *)
(* A controller handle is bound by LKLDriverBindingStart, which adds the   *)
(* disk to the Linux kernel, decrypts it if its partition is named         *)
(* android_expand, mounts it and installs the file system protocol.  Every *)
(* step may fail.  While Start does I/O, on its own device or on the       *)
(* volume that holds the key of an encrypted one, the firmware may notice  *)
(* a media change there and call Stop and Start for that controller,       *)
(* inside the running Start: stack holds the calls of Start in progress,   *)
(* the innermost last.                                                     *)
(*                                                                         *)
(* Clean-up calls succeed on what exists and are harmless on what does     *)
(* not.  Of the firmware it is assumed that a medium that has gone is not  *)
(* read or written any more by a Start that was called for it.             *)
(***************************************************************************)
EXTENDS Naturals, Sequences

CONSTANTS
    Handles,      \* controller handles with DiskIo and BlockIo
    Encrypted,    \* the handles whose partition is named android_expand
    Volumes,      \* addresses of LKL_VOLUME structures
    ClientFiles,  \* addresses of LKL_IFILE structures, opened by clients ...
    KeyFiles,     \* ... and by LKLAllocateVolume
    MaxNesting,   \* bound: calls of Start inside each other
    None          \* NULL

\* What exists in the Linux kernel for a volume: the disk, the node of its block
\* device, the dm-crypt device, its node dm-N, whether it is active, the mount
\* point directory and the mount.
Resources == {"disk", "node", "dm", "dmnode", "active", "dir", "mount"}

\* named holds the members of LKL_VOLUME that are not empty strings
VolumeRecords ==
    [h : Handles, d2 : BOOLEAN, has : SUBSET Resources,
     named : SUBSET {"node", "crypt", "mount"}, valid : BOOLEAN]

ASSUME VolumeAssumption ==
    /\ Encrypted \subseteq Handles
    /\ None \notin Handles \cup Volumes \cup ClientFiles \cup KeyFiles
    /\ None \notin VolumeRecords
    /\ ClientFiles \cap KeyFiles = {}
    /\ MaxNesting \in Nat

VARIABLES
    diskio,    \* handles whose DiskIo this driver has open BY_DRIVER
    diskio2,   \* the same for DiskIo2
    sfs,       \* sfs[h]: the volume whose file system protocol is on h
    vol,       \* vol[v]: the LKL_VOLUME at v, None where there is none
    files,     \* files[f]: the volume of the open file at f, or None
    left,      \* what volumes that are freed again have left in the Linux kernel
    lost,      \* the key files whose Start has dropped its pointer to them
    lock,      \* LKLFsLock is held
    stack,     \* the calls of LKLDriverBindingStart in progress
    halted     \* lkl_sys_halt has been called

vars == <<diskio, diskio2, sfs, vol, files, left, lost, lock, stack, halted>>

Files == ClientFiles \cup KeyFiles

(* The order of LKLAllocateVolume: before the structure is allocated, the  *)
(* steps that may fail, the clean-up, and the common end.                  *)
SetUpSteps == {"disk", "devid", "node", "crypt", "fstype", "mkdir", "mount", "install"}
CleanUpSteps == {"umount", "revert", "unlink", "remove", "free"}
Points == {"probe", "size", "readkey", "volume", "close", "return"} \cup SetUpSteps \cup CleanUpSteps

\* mine is LockedByMe; fresh: the medium is still the one Start was called for
Calls ==
    [h : Handles, pc : Points, mine : BOOLEAN, ok : BOOLEAN, fresh : BOOLEAN,
     v : Volumes \cup {None}, key : KeyFiles \cup {None}]

TypeOK ==
    /\ diskio \subseteq Handles /\ diskio2 \subseteq Handles
    /\ sfs \in [Handles -> Volumes \cup {None}]
    /\ vol \in [Volumes -> VolumeRecords \cup {None}]
    /\ files \in [Files -> Volumes \cup {None}]
    /\ left \subseteq Resources /\ lost \subseteq KeyFiles
    /\ lock \in BOOLEAN /\ halted \in BOOLEAN
    /\ stack \in Seq(Calls)

\* LKLEntryPoint has started the kernel and installed the driver binding.
Init ==
    /\ diskio = {} /\ diskio2 = {}
    /\ sfs = [h \in Handles |-> None]
    /\ vol = [v \in Volumes |-> None]
    /\ files = [f \in Files |-> None]
    /\ left = {} /\ lost = {}
    /\ lock = FALSE /\ stack = << >> /\ halted = FALSE

-----------------------------------------------------------------------------
Busy == stack # << >>
Top == stack[Len(stack)]
Continue(c) == stack' = [stack EXCEPT ![Len(stack)] = c]
GoTo(pc) == Continue([Top EXCEPT !.pc = pc])
FailTo(pc) == Continue([Top EXCEPT !.pc = pc, !.ok = FALSE])
AtPoint(pc) == Busy /\ Top.pc = pc /\ ~halted

\* The running Start does I/O on the device of h: it looks for the key on the
\* other volumes, reads the key, or works on its own device.
OwnIo == {"disk", "crypt", "fstype", "mount", "umount"}
DoesIo(h) ==
    \/ Top.pc = "probe" /\ (h = Top.h <=> Top.h \notin Encrypted)
    \/ Top.pc \in {"size", "readkey"} /\ h = vol[files[Top.key]].h
    \/ Top.pc \in OwnIo /\ h = Top.h

\* The firmware may call the driver binding for h: nothing is in progress, or
\* the running Start does I/O there.
MayCall(h) == ~halted /\ (Busy => DoesIo(h))

\* The medium of the running Start changes: BlockIo is reinstalled, and Stop
\* changes nothing, since no file system is on the handle yet.  The firmware
\* has taken DiskIo and DiskIo2 away from the driver.
MediaChange ==
    /\ Busy /\ MayCall(Top.h) /\ Top.fresh
    /\ Continue([Top EXCEPT !.fresh = FALSE])
    /\ diskio' = diskio \ {Top.h} /\ diskio2' = diskio2 \ {Top.h}
    /\ UNCHANGED <<sfs, vol, files, left, lost, lock, halted>>

\* DiskIo can be opened BY_DRIVER only once.
LKLDriverBindingSupported(h) == h \notin diskio

\* LKLDriverBindingStart up to its call of LKLAllocateVolume; a failure before
\* DiskIo is open changes nothing.
LKLDriverBindingStart(h) ==
    /\ MayCall(h) /\ LKLDriverBindingSupported(h) /\ Len(stack) < MaxNesting
    /\ lock' = TRUE
    /\ diskio' = diskio \cup {h}
    /\ diskio2' \in {diskio2, diskio2 \cup {h}}
    /\ stack' = Append(stack, [h |-> h, pc |-> "probe", mine |-> ~lock, ok |-> TRUE,
                               fresh |-> TRUE, v |-> None, key |-> None])
    /\ UNCHANGED <<sfs, vol, files, left, lost, halted>>

\* The volumes on which the key file may be found.
GetFileFromAnyPartition == {sfs[h] : h \in Handles} \ {None}

\* LKLAllocateVolume before the structure exists: the file system type of a
\* plain volume, the key file of an encrypted one
Probe ==
    /\ AtPoint("probe")
    /\ \/ FailTo("return") /\ UNCHANGED files
       \/ /\ Top.h \notin Encrypted
          /\ GoTo("volume") /\ UNCHANGED files
       \/ /\ Top.h \in Encrypted
          /\ \E f \in KeyFiles, v \in GetFileFromAnyPartition :
                /\ files[f] = None
                /\ files' = [files EXCEPT ![f] = v]
                /\ Continue([Top EXCEPT !.pc = "size", !.key = f])
    /\ UNCHANGED <<diskio, diskio2, sfs, vol, left, lost, lock, halted>>

\* LKLAllocateVolume returns without coming to the common end: the key file stays
\* open and nobody knows of it any more.
ReturnAtOnce ==
    /\ FailTo("return")
    /\ lost' = lost \cup ({Top.key} \ {None})

\* FileHandleGetSize and AllocatePool return at once when they fail, reading the
\* key goes through the common end
GetKey ==
    /\ \/ AtPoint("size") /\ ((GoTo("readkey") /\ UNCHANGED lost) \/ ReturnAtOnce)
       \/ AtPoint("readkey") /\ (GoTo("volume") \/ FailTo("close")) /\ UNCHANGED lost
    /\ UNCHANGED <<diskio, diskio2, sfs, vol, files, left, lock, halted>>

NewVolume(h) == [h |-> h, d2 |-> h \in diskio2, has |-> {}, named |-> {}, valid |-> FALSE]

\* AllocateZeroPool and the members set next
AllocateVolume ==
    /\ AtPoint("volume")
    /\ \/ ReturnAtOnce /\ UNCHANGED vol
       \/ \E v \in Volumes :
             /\ vol[v] = None /\ UNCHANGED lost
             /\ vol' = [vol EXCEPT ![v] = NewVolume(Top.h)]
             /\ Continue([Top EXCEPT !.pc = "disk", !.v = v])
    /\ UNCHANGED <<diskio, diskio2, sfs, files, left, lock, halted>>

\* The step after a set-up step that succeeded.
After(pc, encrypted) ==
    CASE pc = "disk"   -> IF encrypted THEN "devid" ELSE "mount"
      [] pc = "devid"  -> "node"
      [] pc = "node"   -> "crypt"
      [] pc = "crypt"  -> "fstype"
      [] pc = "fstype" -> "mkdir"
      [] pc = "mkdir"  -> "mount"
      [] pc = "mount"  -> "install"

\* Which name a step writes before its call: the path of the block device, the
\* name of the dm-crypt device, the mount point.
Names(pc) ==
    CASE pc = "node" -> {"node"} [] pc = "crypt" -> {"crypt"} [] pc = "mkdir" -> {"mount"}
      [] OTHER -> {}

\* The number of the new dm-crypt device may be one whose node a freed volume has
\* left behind: lkl_sys_mknod returns -LKL_EEXIST.
NodeExists == IF "dmnode" \in left THEN BOOLEAN ELSE {FALSE}

\* What create_crypto_blk_dev has made when it reports success.  retval is what
\* lkl_sys_mknod returned, so that a failure to load the table or to resume the
\* device is reported as success too if the node is new.
CryptSuccess(exists) ==
    {{"dm", "dmnode", "active"}} \cup IF exists THEN {} ELSE {{"dm", "dmnode"}}
\* ... and when it reports failure
CryptFailure(exists) == {{}, {"dm"}} \cup IF exists THEN {{"dm", "dmnode"}} ELSE {}

\* What a step has added when it succeeds; lkl_mount_dev makes the directory of a
\* plain volume.
Adds(pc, exists) ==
    CASE pc = "disk" -> {{"disk"}} [] pc = "node" -> {{"node"}}
      [] pc = "crypt" -> CryptSuccess(exists) [] pc = "mkdir" -> {{"dir"}}
      [] pc = "mount" -> {{"dir", "mount"}} [] OTHER -> {{}}

\* ... and when it fails
Leaves(pc, encrypted, exists) ==
    CASE pc = "crypt" -> CryptFailure(exists)
      [] pc = "mount" /\ ~encrypted -> {{}, {"dir"}}
      [] OTHER -> {{}}

\* A mount reads the medium; lkl_mount_dev sets the name of the mount point before
\* it can fail, but may fail earlier too.
SetUp ==
    /\ Busy /\ ~halted /\ Top.pc \in SetUpSteps \ {"install"}
    /\ \E exists \in NodeExists :
       LET v == Top.v
           pc == Top.pc
           enc == Top.h \in Encrypted
           Grow(r, names) == vol' = [vol EXCEPT ![v].has = @ \cup r,
                                                ![v].named = @ \cup Names(pc) \cup names]
       IN
       \/ /\ pc = "mount" => Top.fresh /\ (enc => "active" \in vol[v].has)
          /\ \E r \in Adds(pc, exists) : Grow(r, IF pc = "mount" THEN {"mount"} ELSE {})
          /\ GoTo(After(pc, enc))
       \/ /\ \E r \in Leaves(pc, enc, exists), names \in SUBSET {"mount"} :
                /\ names # {} => pc = "mount"
                /\ Grow(r, names)
          /\ FailTo("umount")
    /\ UNCHANGED <<diskio, diskio2, sfs, files, left, lost, lock, halted>>

\* InstallMultipleProtocolInterfaces, which fails where the protocol exists
Install ==
    /\ AtPoint("install")
    /\ \/ /\ sfs[Top.h] = None
          /\ sfs' = [sfs EXCEPT ![Top.h] = Top.v]
          /\ vol' = [vol EXCEPT ![Top.v].valid = TRUE]
          /\ GoTo("close")
       \/ FailTo("umount") /\ UNCHANGED <<sfs, vol>>
    /\ UNCHANGED <<diskio, diskio2, files, left, lost, lock, halted>>

\* What cryptfs_revert_ext_volume removes.
cryptfs_revert_ext_volume == {"dm", "active"}

\* Mutant for BuiltBottomUp: the clean-up starts with the disk.
CleanUp_DiskFirst ==
    /\ Busy /\ ~halted
    /\ LET v == Top.v
           Undo(r) == vol' = [vol EXCEPT ![v].has = @ \ r]
           UndoIf(name, r) == IF name \in vol[v].named THEN Undo(r) ELSE UNCHANGED vol
       IN
       \/ AtPoint("umount") /\ Undo({"disk"}) /\ GoTo("revert") /\ UNCHANGED left
       \/ AtPoint("revert") /\ UndoIf("crypt", cryptfs_revert_ext_volume) /\ GoTo("unlink") /\ UNCHANGED left
       \/ AtPoint("unlink") /\ UndoIf("node", {"node"}) /\ GoTo("remove") /\ UNCHANGED left
       \/ AtPoint("remove") /\ UndoIf("mount", {"mount"}) /\ GoTo("free") /\ UNCHANGED left
       \/ AtPoint("free") /\ vol' = [vol EXCEPT ![v] = None] /\ left' = left \cup vol[v].has
                          /\ Continue([Top EXCEPT !.pc = "close", !.v = None])
    /\ UNCHANGED <<diskio, diskio2, sfs, files, lost, lock, halted>>

\* The clean-up at Done, in its order; what it undoes is told by the names and
\* by LKLDiskId.
CleanUp ==
    /\ Busy /\ ~halted
    /\ LET v == Top.v
           Undo(r) == vol' = [vol EXCEPT ![v].has = @ \ r]
           UndoIf(name, r) == IF name \in vol[v].named THEN Undo(r) ELSE UNCHANGED vol
       IN
       \/ AtPoint("umount") /\ UndoIf("mount", {"mount"}) /\ GoTo("revert") /\ UNCHANGED left
       \/ AtPoint("revert") /\ UndoIf("crypt", cryptfs_revert_ext_volume) /\ GoTo("unlink") /\ UNCHANGED left
       \/ AtPoint("unlink") /\ UndoIf("node", {"node"}) /\ GoTo("remove") /\ UNCHANGED left
       \/ AtPoint("remove") /\ Undo({"disk"}) /\ GoTo("free") /\ UNCHANGED left
       \/ AtPoint("free") /\ vol' = [vol EXCEPT ![v] = None] /\ left' = left \cup vol[v].has
                          /\ Continue([Top EXCEPT !.pc = "close", !.v = None])
    /\ UNCHANGED <<diskio, diskio2, sfs, files, lost, lock, halted>>

\* FreePool(Key) and FileHandleClose(KeyFile)
CloseKey ==
    /\ AtPoint("close")
    /\ files' = IF Top.key = None THEN files ELSE [files EXCEPT ![Top.key] = None]
    /\ GoTo("return")
    /\ UNCHANGED <<diskio, diskio2, sfs, vol, left, lost, lock, halted>>

\* Mutant for LockOwned: the lock is released whoever took it.
StartReturn_Unlocks ==
    /\ AtPoint("return")
    /\ IF ~Top.ok /\ sfs[Top.h] = None
       THEN diskio' = diskio \ {Top.h} /\ diskio2' = diskio2 \ {Top.h}
       ELSE UNCHANGED <<diskio, diskio2>>
    /\ lock' = FALSE
    /\ stack' = SubSeq(stack, 1, Len(stack) - 1)
    /\ UNCHANGED <<sfs, vol, files, left, lost, halted>>

\* Mutant for NothingElseLeftBehind: DiskIo2 is not closed.
StartReturn_KeepsDiskIo2 ==
    /\ AtPoint("return")
    /\ diskio' = IF ~Top.ok /\ sfs[Top.h] = None THEN diskio \ {Top.h} ELSE diskio
    /\ lock' = (lock /\ ~Top.mine)
    /\ stack' = SubSeq(stack, 1, Len(stack) - 1)
    /\ UNCHANGED <<diskio2, sfs, vol, files, left, lost, halted>>

\* Mutant for InstalledIsUsable: the devices are closed after every failure, a
\* file system that an inner Start has installed or not.
StartReturn_AlwaysCloses ==
    /\ AtPoint("return")
    /\ diskio' = (IF Top.ok THEN diskio ELSE diskio \ {Top.h})
    /\ diskio2' = (IF Top.ok THEN diskio2 ELSE diskio2 \ {Top.h})
    /\ lock' = (lock /\ ~Top.mine)
    /\ stack' = SubSeq(stack, 1, Len(stack) - 1)
    /\ UNCHANGED <<sfs, vol, files, left, lost, halted>>

\* The end of LKLDriverBindingStart: without a file system protocol on the
\* handle the devices are closed again.
StartReturn ==
    /\ AtPoint("return")
    /\ IF ~Top.ok /\ sfs[Top.h] = None
       THEN diskio' = diskio \ {Top.h} /\ diskio2' = diskio2 \ {Top.h}
       ELSE UNCHANGED <<diskio, diskio2>>
    /\ lock' = (lock /\ ~Top.mine)
    /\ stack' = SubSeq(stack, 1, Len(stack) - 1)
    /\ UNCHANGED <<sfs, vol, files, left, lost, halted>>

\* Mutant for FilesBacked: the volume is freed.
LKLAbandonVolume_Frees(v) ==
    /\ sfs' = [sfs EXCEPT ![vol[v].h] = None]
    /\ vol' = [vol EXCEPT ![v] = None]
    /\ UNCHANGED lock

\* LKLAbandonVolume; the lock is free again at the end if it was free before.
LKLAbandonVolume(v) ==
    /\ sfs' = [sfs EXCEPT ![vol[v].h] = None]
    /\ vol' = [vol EXCEPT ![v].valid = FALSE]
    /\ UNCHANGED lock

\* LKLDriverBindingStop; nothing changes when the protocol is not there or
\* cannot be uninstalled.
LKLDriverBindingStop(h) ==
    /\ MayCall(h) /\ sfs[h] # None
    /\ LKLAbandonVolume(sfs[h])
    /\ diskio' = diskio \ {h}
    /\ diskio2' = IF vol[sfs[h]].d2 THEN diskio2 \ {h} ELSE diskio2
    /\ UNCHANGED <<files, left, lost, stack, halted>>

\* LKLUnload: the managed handles of S are disconnected, then one fails or none
\* is left.  The kernel is halted in both cases, and what it held is gone, also
\* under the protocols that are still installed and the files still open.
LKLUnload(S) ==
    /\ ~Busy /\ ~halted
    /\ S \subseteq {h \in diskio : sfs[h] # None}
    /\ sfs' = [h \in Handles |-> IF h \in S THEN None ELSE sfs[h]]
    /\ vol' = [v \in Volumes |->
                  IF vol[v] = None THEN None
                  ELSE [vol[v] EXCEPT !.has = {}, !.valid = @ /\ ~(\E h \in S : sfs[h] = v)]]
    /\ left' = {}
    /\ diskio' = diskio \ S
    /\ diskio2' = diskio2 \ {h \in S : vol[sfs[h]].d2}
    /\ halted' = TRUE
    /\ UNCHANGED <<files, lost, lock, stack>>

\* A client opens the root directory, and closes a file.
LKLOpenVolume(h, f) ==
    /\ ~Busy /\ ~halted
    /\ sfs[h] # None /\ files[f] = None
    /\ files' = [files EXCEPT ![f] = sfs[h]]
    /\ UNCHANGED <<diskio, diskio2, sfs, vol, left, lost, lock, stack, halted>>

LKLClose(f) ==
    /\ ~Busy /\ ~halted /\ files[f] # None
    /\ files' = [files EXCEPT ![f] = None]
    /\ UNCHANGED <<diskio, diskio2, sfs, vol, left, lost, lock, stack, halted>>

Next ==
    \/ \E h \in Handles : LKLDriverBindingStart(h) \/ LKLDriverBindingStop(h)
    \/ MediaChange \/ Probe \/ GetKey \/ AllocateVolume \/ SetUp \/ Install \/ CleanUp \/ CloseKey \/ StartReturn
    \/ \E S \in SUBSET Handles : LKLUnload(S)
    \/ \E f \in ClientFiles : LKLClose(f) \/ \E h \in Handles : LKLOpenVolume(h, f)

Spec == Init /\ [][Next]_vars

-----------------------------------------------------------------------------
\* The volume a Start in progress is setting up or cleaning up.
InStart(v) == \E i \in DOMAIN stack : stack[i].v = v
\* A Start in progress has the device of h open.
StartingOn(h) == \E i \in DOMAIN stack : stack[i].h = h /\ stack[i].fresh

\* What a volume that clients can use has in the Linux kernel.
Complete(v) == vol[v].has = IF vol[v].h \in Encrypted THEN Resources ELSE {"disk", "dir", "mount"}

\* LKLFsLock is held exactly while the outermost Start runs: a Start called
\* inside another one neither takes it nor gives it back.
LockOwned ==
    /\ lock <=> Busy
    /\ \A i \in DOMAIN stack : stack[i].mine <=> i = 1

\* What a Start that failed leaves behind, wherever it failed and whatever calls
\* came inside it: in the Linux kernel at most the node dm-N, which nobody
\* unlinks, and the directory of the mount point; a key file only by one of the
\* returns that do not come to the common end; no volume that is not complete;
\* and the devices are open for exactly the handles that carry a file system.
NothingElseLeftBehind ==
    /\ left \subseteq {"dmnode", "dir"}
    /\ \A f \in KeyFiles : files[f] # None => f \in lost \/ \E i \in DOMAIN stack : stack[i].key = f
    /\ \A v \in Volumes : vol[v] # None /\ ~InStart(v) /\ ~halted => Complete(v)
    /\ \A h \in Handles : ~StartingOn(h) => (h \in diskio <=> sfs[h] # None)
    /\ diskio2 \subseteq diskio

\* Set-up goes up and clean-up goes down: no device and no mount exists in the
\* kernel without what it is built on.
BuiltBottomUp ==
    \A v \in Volumes : vol[v] # None =>
        /\ vol[v].has \subseteq {"dmnode", "dir"} \/ "disk" \in vol[v].has
        /\ "dm" \in vol[v].has => "node" \in vol[v].has
        /\ "active" \in vol[v].has => "dm" \in vol[v].has
        /\ "mount" \in vol[v].has => "dir" \in vol[v].has
        /\ "mount" \in vol[v].has /\ vol[v].h \in Encrypted => "active" \in vol[v].has

\* Until the kernel is halted, the file system protocol on a handle belongs to a
\* volume of that handle that is valid, mounted, and has its device open, also
\* when an outer Start of the same handle fails after an inner one has succeeded.
InstalledIsUsable ==
    \A h \in Handles : sfs[h] # None =>
        /\ vol[sfs[h]] # None /\ vol[sfs[h]].h = h /\ vol[sfs[h]].valid /\ h \in diskio
        /\ ~halted => Complete(sfs[h])

\* Until the kernel is halted, an open file, the key file included, keeps a volume
\* that exists and is mounted and that no Start in progress will clean up, even
\* when its handle is stopped or started again while the file is open.
FilesBacked ==
    \A f \in Files : files[f] # None =>
        /\ vol[files[f]] # None
        /\ ~halted => "mount" \in vol[files[f]].has
        /\ \A i \in DOMAIN stack : stack[i].v = files[f] => stack[i].pc \in {"close", "return"}

=============================================================================
