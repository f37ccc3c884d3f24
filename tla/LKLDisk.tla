------------------------------ MODULE LKLDisk ------------------------------
(***************************************************************************)
(* The disk below a volume: the probing for a file system                  *)
(* (filesystems/*.c), and the block device the Linux kernel is given       *)
(* (lkl_dev_blk_ops in UefiHost.c), over the firmware's DiskIo, which is   *)
(* external.                                                               *)
(*                                                                         *)
(* The firmware numbers the media it finds in the drive, and refuses a     *)
(* request that names another medium than the one present.  A medium may   *)
(* be changed between any two calls of the firmware.                       *)
(*                                                                         *)
(* Disks are read and written in units, SectorUnits of them in a sector of *)
(* 512 bytes.  The contents of a unit are the file systems whose magic is  *)
(* at its place in it; all the magics lie in the first unit of their       *)
(* kilobyte.                                                               *)
(***************************************************************************)
EXTENDS Naturals, Sequences

CONSTANTS
    SectorUnits,
    Values,       \* contents of a unit: sets of names of file systems
    Disks,        \* what the media may hold: sequences of values, of any length
    MaxMedia,     \* bound on the media put into the drive
    Requests,     \* struct lkl_blk_req: [type, sector, buf]
    Decrypt,      \* what the dm-crypt device makes of a unit
    None

\* The file systems and where they have their magic; KB is the kilobyte of the
\* superblock, kboff.
IdInfoExt == [Name |-> "ext4", KB |-> 1]
IdInfoNTFS == [Name |-> "ntfs", KB |-> 0]
IdInfoF2FS == [Name |-> "f2fs", KB |-> 1]
FsIdInfos == <<IdInfoExt, IdInfoNTFS, IdInfoF2FS>>

FsTypes == {FsIdInfos[i].Name : i \in 1 .. 3}
Media == 1 .. MaxMedia
Types == {"read", "write", "flush", "other"}

ASSUME DiskAssumption ==
    /\ SectorUnits \in Nat \ {0} /\ MaxMedia \in Nat \ {0}
    /\ Values \subseteq SUBSET FsTypes
    /\ Disks \subseteq Seq(Values)
    /\ Requests \subseteq [type : Types, sector : Nat, buf : Seq(Seq(Values))]
    /\ Decrypt \in [Values -> Values]

VARIABLES
    content,   \* content[m]: the units of medium m, from 1 on
    drive,     \* BlockIo->Media->MediaId
    phase,     \* how far LKLAllocateVolume has come
    media,     \* Volume->MediaId, while the disk is added
    capacity,  \* what uefi_blk_get_capacity told the Linux kernel
    probe,     \* GetFsType or GetFsTypeLKL, since it was called
    req        \* the request the Linux kernel waits for, or None

Phases == {"none", "probe", "probed", "filled", "added", "probe_lkl", "mounted"}

vars == <<content, drive, phase, media, capacity, probe, req>>

Status == {"pending", "OK", "IOERR", "UNSUP"}

ProbeRecords ==
    [media : Media, index : 1 .. 4, Buffer : Values \cup {{}}, failed : SUBSET (1 .. 3),
     found : 0 .. 3, FD : BOOLEAN]
RequestRecords ==
    [type : Types, sector : Nat, buf : Seq(Seq(Values)), off : Nat, i : Nat \ {0},
     status : Status, before : Seq(Values), at : Seq(Nat)]

TypeOK ==
    /\ content \in [Media -> Seq(Values)]
    /\ drive \in Media /\ media \in Media /\ capacity \in Nat
    /\ phase \in Phases
    /\ probe \in ProbeRecords
    /\ req = None \/ req \in RequestRecords

NoProbe == [media |-> 1, index |-> 1, Buffer |-> {}, failed |-> {}, found |-> 0, FD |-> FALSE]

Init ==
    /\ content \in [Media -> Disks]
    /\ drive = 1 /\ phase = "none" /\ media = 1 /\ capacity = 0
    /\ probe = NoProbe /\ req = None

\* Another medium is put in; it has a MediaId of its own.
ChangeMedium ==
    /\ drive < MaxMedia
    /\ drive' = drive + 1
    /\ UNCHANGED <<content, phase, media, capacity, probe, req>>

\* Whether DiskIo can serve a request for len units from offset off on medium m.
Reachable(m, off, len) == m = drive /\ off + len <= Len(content[m])

-----------------------------------------------------------------------------
KBUnits == 2 * SectorUnits
Offset(i) == FsIdInfos[i].KB * KBUnits

\* GetFsType is called for the medium in the drive.
GetFsType ==
    /\ phase = "none"
    /\ phase' = "probe"
    /\ probe' = [NoProbe EXCEPT !.media = drive]
    /\ UNCHANGED <<content, drive, media, capacity, req>>

\* CompareMem, and what follows: the search ends with the first magic that is
\* there.
Compare(p, Buffer) ==
    IF FsIdInfos[p.index].Name \in Buffer
    THEN [p EXCEPT !.Buffer = Buffer, !.found = p.index]
    ELSE [p EXCEPT !.Buffer = Buffer, !.index = @ + 1]

Skip(p) == [p EXCEPT !.index = @ + 1, !.failed = @ \cup {p.index}]

Searching == probe.found = 0 /\ probe.index <= 3

\* Mutant for FirstMagic: a superblock that cannot be read is compared too.
ReadMagic_NoContinue ==
    /\ phase = "probe" /\ Searching
    /\ LET off == Offset(probe.index) IN
       \/ /\ Reachable(probe.media, off, KBUnits)
          /\ probe' = Compare(probe, content[probe.media][off + 1])
       \/ probe' = Compare(probe, probe.Buffer)
    /\ UNCHANGED <<content, drive, phase, media, capacity, req>>

\* One turn of the loops of GetFsType: a superblock that cannot be read is
\* passed over.
ReadMagic ==
    /\ phase = "probe" /\ Searching
    /\ LET off == Offset(probe.index) IN
       \/ /\ Reachable(probe.media, off, KBUnits)
          /\ probe' = Compare(probe, content[probe.media][off + 1])
       \/ probe' = Skip(probe)
    /\ UNCHANGED <<content, drive, phase, media, capacity, req>>

GetFsTypeReturn ==
    /\ phase = "probe" /\ ~Searching
    /\ phase' = IF probe.found = 0 THEN "none" ELSE "probed"
    /\ UNCHANGED <<content, drive, media, capacity, probe, req>>

\* LKLAllocateVolume fills in the volume: a plain one after GetFsType, an
\* encrypted one at once.
AllocateVolume ==
    /\ phase \in {"none", "probed"}
    /\ phase' = "filled"
    /\ media' = drive
    /\ probe' = IF phase = "none" THEN NoProbe ELSE probe
    /\ UNCHANGED <<content, drive, capacity, req>>

\* The disk is added, and the kernel asks for the size of the medium that is in
\* the drive by then.
uefi_blk_get_capacity == Len(content[drive])

lkl_disk_add ==
    /\ phase = "filled"
    /\ phase' \in {"added", "none"}
    /\ capacity' = uefi_blk_get_capacity
    /\ UNCHANGED <<content, drive, media, probe, req>>

-----------------------------------------------------------------------------
\* GetFsTypeLKL: the node of the decrypted device is opened; Buffer is not
\* initialised.
GetFsTypeLKL ==
    /\ phase = "added" /\ probe = NoProbe
    /\ phase' = "probe_lkl"
    /\ \E junk \in Values : probe' = [NoProbe EXCEPT !.media = media, !.Buffer = junk, !.FD = TRUE]
    /\ UNCHANGED <<content, drive, media, capacity, req>>

\* One turn of its loops.  lkl_sys_lseek fails behind the end of the device;
\* lkl_sys_read fails, or returns what is there up to the end, 0 bytes at the
\* end: what Buffer held before is compared then.
ReadMagicLKL ==
    /\ phase = "probe_lkl" /\ Searching /\ probe.FD
    /\ LET off == Offset(probe.index) IN
       \/ probe' = Skip(probe)
       \/ /\ off = capacity
          /\ probe' = Compare(probe, probe.Buffer)
       \/ /\ off < capacity /\ off < Len(content[media])
          /\ probe' = Compare(probe, Decrypt[content[media][off + 1]])
    /\ UNCHANGED <<content, drive, phase, media, capacity, req>>

\* The descriptor is closed on either way out; without a file system the disk
\* is removed again.
GetFsTypeLKLReturn ==
    /\ phase = "probe_lkl" /\ ~Searching /\ probe.FD
    /\ phase' = IF probe.found = 0 THEN "none" ELSE "added"
    /\ probe' = [probe EXCEPT !.FD = FALSE]
    /\ req = None
    /\ UNCHANGED <<content, drive, media, capacity, req>>

\* lkl_mount_dev or lkl_sys_mount
Mount ==
    /\ phase = "added" /\ probe.found # 0 /\ req = None
    /\ phase' \in {"mounted", "none"}
    /\ UNCHANGED <<content, drive, media, capacity, probe, req>>

\* lkl_disk_remove: the protocol cannot be installed, or a step before fails
lkl_disk_remove ==
    /\ phase \in {"added", "mounted"} /\ req = None
    /\ phase' = "none"
    /\ UNCHANGED <<content, drive, media, capacity, probe, req>>

-----------------------------------------------------------------------------
\* uefi_blk_request is called; the kernel writes only what is mounted.  off and i
\* are the variables of do_rw.  before and at are for the properties: what the
\* medium held when the request came, and the values off has had.
uefi_blk_request(r) ==
    /\ phase \in {"added", "probe_lkl", "mounted"} /\ req = None
    /\ r.type = "write" => phase = "mounted"
    /\ req' = [type |-> r.type, sector |-> r.sector, buf |-> r.buf,
               off |-> r.sector * SectorUnits, i |-> 1,
               status |-> CASE r.type = "flush" -> "OK"     \* FlushBlocks's answer is ignored
                            [] r.type = "other" -> "UNSUP"
                            [] OTHER -> "pending",
               before |-> content[media], at |-> <<r.sector * SectorUnits>>]
    /\ UNCHANGED <<content, drive, phase, media, capacity, probe>>

\* The len units of a disk from offset off, and the disk with values s there.
Part(disk, off, len) == SubSeq(disk, off + 1, off + len)
Overlay(disk, off, s) ==
    [u \in 1 .. Len(disk) |-> IF u \in off + 1 .. off + Len(s) THEN s[u - off] ELSE disk[u]]

InLoop == req # None /\ req.status = "pending"

\* Mutant for OtherMediaUntouched: the medium is not named, the one in the drive
\* is taken.
Transfer_AnyMedium ==
    /\ InLoop /\ req.i <= Len(req.buf)
    /\ LET s == req.buf[req.i] IN
       /\ Reachable(drive, req.off, Len(s))
       /\ IF req.type = "read"
          THEN req' = [req EXCEPT !.buf[req.i] = Part(content[drive], req.off, Len(s)),
                                  !.off = @ + Len(s), !.i = @ + 1,
                                  !.at = Append(@, req.off + Len(s))]
               /\ UNCHANGED content
          ELSE req' = [req EXCEPT !.off = @ + Len(s), !.i = @ + 1,
                                  !.at = Append(@, req.off + Len(s))]
               /\ content' = [content EXCEPT ![drive] = Overlay(@, req.off, s)]
    /\ UNCHANGED <<drive, phase, media, capacity, probe>>

\* Mutant for RequestExact: the offset stays where it is.
Transfer_NoAdvance ==
    /\ InLoop /\ req.i <= Len(req.buf)
    /\ LET s == req.buf[req.i] IN
       /\ Reachable(media, req.off, Len(s))
       /\ IF req.type = "read"
          THEN req' = [req EXCEPT !.buf[req.i] = Part(content[media], req.off, Len(s)), !.i = @ + 1,
                                  !.at = Append(@, req.off)]
               /\ UNCHANGED content
          ELSE req' = [req EXCEPT !.i = @ + 1, !.at = Append(@, req.off)]
               /\ content' = [content EXCEPT ![media] = Overlay(@, req.off, s)]
    /\ UNCHANGED <<drive, phase, media, capacity, probe>>

\* One turn of do_rw: ReadDisk or WriteDisk for the next buffer.
Transfer ==
    /\ InLoop /\ req.i <= Len(req.buf)
    /\ LET s == req.buf[req.i] IN
       /\ Reachable(media, req.off, Len(s))
       /\ IF req.type = "read"
          THEN req' = [req EXCEPT !.buf[req.i] = Part(content[media], req.off, Len(s)),
                                  !.off = @ + Len(s), !.i = @ + 1,
                                  !.at = Append(@, req.off + Len(s))]
               /\ UNCHANGED content
          ELSE req' = [req EXCEPT !.off = @ + Len(s), !.i = @ + 1,
                                  !.at = Append(@, req.off + Len(s))]
               /\ content' = [content EXCEPT ![media] = Overlay(@, req.off, s)]
    /\ UNCHANGED <<drive, phase, media, capacity, probe>>

\* The firmware reports an error, after n units of a write; the loop is left.
TransferFails ==
    /\ InLoop /\ req.i <= Len(req.buf)
    /\ req' = [req EXCEPT !.status = "IOERR"]
    /\ \/ UNCHANGED content
       \/ LET s == req.buf[req.i] IN
          /\ req.type = "write" /\ Reachable(media, req.off, Len(s))
          /\ \E n \in 1 .. Len(s) :
                content' = [content EXCEPT ![media] = Overlay(@, req.off, SubSeq(s, 1, n))]
    /\ UNCHANGED <<drive, phase, media, capacity, probe>>

do_rw_Return ==
    /\ InLoop /\ req.i > Len(req.buf)
    /\ req' = [req EXCEPT !.status = "OK"]
    /\ UNCHANGED <<content, drive, phase, media, capacity, probe>>

\* uefi_blk_request returns its status to the kernel.
Answer ==
    /\ req # None /\ ~InLoop
    /\ req' = None
    /\ UNCHANGED <<content, drive, phase, media, capacity, probe>>

Probing ==
    \/ GetFsType \/ ReadMagic \/ GetFsTypeReturn
    \/ GetFsTypeLKL \/ ReadMagicLKL \/ GetFsTypeLKLReturn
BlockDevice ==
    \/ \E r \in Requests : uefi_blk_request(r)
    \/ Transfer \/ TransferFails \/ do_rw_Return \/ Answer
Volume == AllocateVolume \/ lkl_disk_add \/ Mount \/ lkl_disk_remove
Next == ChangeMedium \/ Volume \/ Probing \/ BlockDevice

Spec == Init /\ [][Next]_vars

-----------------------------------------------------------------------------
\* Whether the magic of FsIdInfos[i] is on the device that is searched.
Carries(i) ==
    LET disk == content[probe.media]
        u == Offset(i) + 1
    IN  u <= Len(disk) /\ FsIdInfos[i].Name \in IF phase = "probe" THEN disk[u] ELSE Decrypt[disk[u]]

\* The superblocks that have been looked at in vain.
Passed == 1 .. IF probe.found = 0 THEN probe.index - 1 ELSE probe.found - 1

\* The search names the first file system, in the order of FsIdInfos, whose
\* superblock could be read and is on the medium the search began with, whatever
\* reads fail and whenever the medium is changed.  GetFsTypeLKL compares what
\* was in Buffer before when the device ends where a superblock should begin.
FirstMagic ==
    phase = "probe" \/ (phase = "probe_lkl" /\ capacity > KBUnits /\ capacity = Len(content[media])) =>
        /\ probe.found # 0 => Carries(probe.found)
        /\ \A i \in Passed \ probe.failed : ~Carries(i)

\* A volume writes only on the medium that was in the drive when its structure
\* was filled in: a request that a change of medium overtakes, between two of its
\* buffers too, leaves the new medium as it is.
OtherMediaUntouched ==
    [][\A m \in Media : content'[m] # content[m] => m = media /\ phase = "mounted"]_vars

\* The buffers of a request lie one behind the other from sector * 512 on.  The
\* ones do_rw has come to have been moved to or from their places, all of them
\* when it answers OK, and nothing else has changed on the medium, except that
\* the write that failed may have got part of the way.
RequestExact ==
    req # None =>
        LET disk == content[media]
            moved == 1 .. req.i - 1
            Failed(u) == /\ req.status = "IOERR" /\ u - req.off \in 1 .. Len(req.buf[req.i])
                         /\ disk[u] = req.buf[req.i][u - req.off]
        IN  /\ req.at[1] = req.sector * SectorUnits
            /\ \A k \in moved :
                  /\ req.at[k + 1] = req.at[k] + Len(req.buf[k])
                  /\ req.at[k + 1] <= Len(disk) /\ Part(disk, req.at[k], Len(req.buf[k])) = req.buf[k]
            /\ req.status = "OK" /\ req.type \in {"read", "write"} => req.i = Len(req.buf) + 1
            /\ Len(disk) = Len(req.before)
            /\ \A u \in 1 .. Len(disk) :
                  disk[u] # req.before[u] =>
                      req.type = "write" /\ (u \in req.at[1] + 1 .. req.at[req.i] \/ Failed(u))
=============================================================================
