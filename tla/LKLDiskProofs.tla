--------------------------- MODULE LKLDiskProofs ---------------------------
(***************************************************************************)
(* FirstMagic, OtherMediaUntouched and RequestExact for any number of      *)
(* media, any disks and any requests.                                      *)
(*                                                                         *)
(* The invariant adds to the types that a write is in progress only while  *)
(* the volume is mounted, so that nothing changes under a search, and that *)
(* a search that has found something has stopped there.                    *)
(*                                                                         *)
(* RequestExact rests on RequestOK: a request goes through its buffers     *)
(* upwards, so moving the next one leaves the places of the earlier ones   *)
(* alone, and what differs from before lies between the first offset and   *)
(* the current one, or in the piece that failed.                           *)
(***************************************************************************)
EXTENDS LKLDisk, SequenceTheorems, TLAPS

WritesMounted == InLoop /\ req.type # "read" => phase = "mounted" /\ req.type = "write"

SearchOK ==
    phase \in {"probe", "probe_lkl"} =>
        /\ probe.found # 0 => probe.found = probe.index
        /\ phase = "probe_lkl" => probe.media = media
        /\ FirstMagic

DiskInv == TypeOK /\ WritesMounted /\ SearchOK

-----------------------------------------------------------------------------
\* Overwriting part of a disk gives a disk of the same size.
LEMMA OverlayTyped ==
    ASSUME NEW disk \in Seq(Values), NEW off \in Nat, NEW s \in Seq(Values)
    PROVE  Overlay(disk, off, s) \in Seq(Values)
<1>1. ASSUME NEW u \in 1 .. Len(disk)
      PROVE  (IF u \in off + 1 .. off + Len(s) THEN s[u - off] ELSE disk[u]) \in Values
  <2>1. CASE u \in off + 1 .. off + Len(s)
    <3>1. u - off \in 1 .. Len(s)
      BY <2>1
    <3> QED BY <2>1, <3>1
  <2>2. CASE u \notin off + 1 .. off + Len(s)
    BY <2>2
  <2> QED BY <2>1, <2>2
<1> DEFINE f(u) == IF u \in off + 1 .. off + Len(s) THEN s[u - off] ELSE disk[u]
<1>2. Overlay(disk, off, s) = [u \in 1 .. Len(disk) |-> f(u)]
  BY DEF Overlay
<1>3. \A u \in 1 .. Len(disk) : f(u) \in Values
  BY <1>1
<1> HIDE DEF f
<1>4. [u \in 1 .. Len(disk) |-> f(u)] \in [1 .. Len(disk) -> Values] /\ Len(disk) \in Nat
  BY <1>3
<1> QED BY <1>2, <1>4

\* So does part of a buffer.
LEMMA PartTyped ==
    ASSUME NEW disk \in Seq(Values), NEW off \in Nat, NEW len \in Nat, off + len <= Len(disk)
    PROVE  Part(disk, off, len) \in Seq(Values)
BY DEF Part

LEMMA BeginTyped ==
    ASSUME NEW s \in Seq(Values), NEW n \in 1 .. Len(s)
    PROVE  SubSeq(s, 1, n) \in Seq(Values)
OBVIOUS

\* A superblock lies in the first two kilobytes.
LEMMA Offsets ==
    /\ KBUnits \in Nat \ {0}
    /\ \A i \in 1 .. 3 : Offset(i) \in {0, KBUnits}
<1>1. KBUnits \in Nat \ {0}
  BY DiskAssumption DEF KBUnits
<1>2. \A i \in 1 .. 3 : FsIdInfos[i].KB \in {0, 1}
  BY DEF FsIdInfos, IdInfoExt, IdInfoNTFS, IdInfoF2FS
<1> QED BY <1>1, <1>2 DEF Offset

\* What a turn of the search makes of its record.
LEMMA CompareTyped ==
    ASSUME NEW p \in ProbeRecords, p.index <= 3, NEW B \in Values \cup {{}}
    PROVE  /\ Compare(p, B) \in ProbeRecords
           /\ Compare(p, B).media = p.media /\ Compare(p, B).failed = p.failed
           /\ FsIdInfos[p.index].Name \in B => Compare(p, B).found = p.index /\ Compare(p, B).index = p.index
           /\ FsIdInfos[p.index].Name \notin B => Compare(p, B).found = p.found /\ Compare(p, B).index = p.index + 1
<1>0. p.index \in 0 .. 3 /\ p.index + 1 \in 1 .. 4
  BY DEF ProbeRecords
<1>1. CASE FsIdInfos[p.index].Name \in B
  <2>1. Compare(p, B) = [p EXCEPT !.Buffer = B, !.found = p.index]
    BY <1>1 DEF Compare
  <2>2. [p EXCEPT !.Buffer = B, !.found = p.index] \in ProbeRecords
    BY <1>0 DEF ProbeRecords
  <2> QED BY <1>1, <2>1, <2>2 DEF ProbeRecords
<1>2. CASE FsIdInfos[p.index].Name \notin B
  <2>1. Compare(p, B) = [p EXCEPT !.Buffer = B, !.index = p.index + 1]
    BY <1>2 DEF Compare, ProbeRecords
  <2>2. [p EXCEPT !.Buffer = B, !.index = p.index + 1] \in ProbeRecords
    BY <1>0 DEF ProbeRecords
  <2> QED BY <1>2, <2>1, <2>2 DEF ProbeRecords
<1> QED BY <1>1, <1>2

LEMMA SkipTyped ==
    ASSUME NEW p \in ProbeRecords, p.index <= 3
    PROVE  /\ Skip(p) \in ProbeRecords
           /\ Skip(p).media = p.media /\ Skip(p).failed = p.failed \cup {p.index}
           /\ Skip(p).found = p.found /\ Skip(p).index = p.index + 1
<1>1. p.index + 1 \in 1 .. 4 /\ p.failed \cup {p.index} \in SUBSET (1 .. 3)
  BY DEF ProbeRecords
<1>2. Skip(p) = [p EXCEPT !.index = p.index + 1, !.failed = p.failed \cup {p.index}]
  BY DEF Skip, ProbeRecords
<1>3. [p EXCEPT !.index = p.index + 1, !.failed = p.failed \cup {p.index}] \in ProbeRecords
  BY <1>1 DEF ProbeRecords
<1> QED BY <1>2, <1>3 DEF ProbeRecords

LEMMA NoProbeTyped == NoProbe \in ProbeRecords /\ NoProbe.found = 0 /\ NoProbe.index = 1
BY DiskAssumption DEF NoProbe, ProbeRecords, Media

-----------------------------------------------------------------------------
LEMMA DiskInit == Init => DiskInv
<1> SUFFICES ASSUME Init PROVE DiskInv
  OBVIOUS
<1>1. content \in [Media -> Seq(Values)]
  BY DiskAssumption DEF Init
<1>2. drive \in Media /\ media \in Media
  BY DiskAssumption DEF Init, Media
<1>3. TypeOK
  BY <1>1, <1>2, NoProbeTyped DEF Init, TypeOK, Phases
<1> QED BY <1>3 DEF Init, DiskInv, WritesMounted, InLoop, SearchOK

\* The search goes on as long as the device it is about stays as it is.
LEMMA SearchStep ==
    ASSUME DiskInv, phase \in {"probe", "probe_lkl"}, Searching, content' = content, phase' = phase,
           media' = media, capacity' = capacity, probe' \in ProbeRecords, probe'.media = probe.media,
           \/ /\ probe'.found = probe.index /\ probe'.index = probe.index
              /\ probe'.failed = probe.failed
              /\ phase = "probe" \/ capacity > KBUnits => Carries(probe.index)
           \/ /\ probe'.found = 0 /\ probe'.index = probe.index + 1
              /\ \/ probe'.failed = probe.failed \cup {probe.index}
                 \/ /\ probe'.failed = probe.failed
                    /\ phase = "probe" \/ (capacity > KBUnits /\ capacity = Len(content[media])) => ~Carries(probe.index)
    PROVE  SearchOK'
<1>1. probe \in ProbeRecords /\ probe.found = 0 /\ probe.index \in 1 .. 3
  BY DEF DiskInv, TypeOK, Searching, ProbeRecords
<1>2. \A i \in 1 .. 3 : Carries(i)' <=> Carries(i)
  BY DEF Carries, Offset, KBUnits
<1>3. ASSUME phase = "probe" \/ (phase = "probe_lkl" /\ capacity > KBUnits /\ capacity = Len(content[media]))
      PROVE  /\ probe'.found # 0 => Carries(probe'.found)
             /\ \A i \in Passed' \ probe'.failed : ~Carries(i)
  <2>1. \A i \in 1 .. probe.index - 1 : i \notin probe.failed => ~Carries(i)
    BY <1>1, <1>3 DEF DiskInv, SearchOK, FirstMagic, Passed
  <2>2. CASE probe'.found # 0
    <3>1. Passed' = 1 .. probe.index - 1 /\ probe'.failed = probe.failed
      BY <1>1, <2>2 DEF Passed
    <3> QED BY <1>1, <1>3, <2>1, <2>2, <3>1
  <2>3. CASE probe'.found = 0
    <3>1. Passed' = 1 .. probe.index /\ probe'.index = probe.index + 1
      BY <1>1, <2>3 DEF Passed
    <3>2. \/ probe'.failed = probe.failed \cup {probe.index}
          \/ probe'.failed = probe.failed /\ ~Carries(probe.index)
      BY <1>1, <1>3, <2>3
    <3>3. ASSUME NEW i \in Passed' \ probe'.failed PROVE ~Carries(i)
      <4>1. i = probe.index \/ i \in 1 .. probe.index - 1
        BY <1>1, <3>1, <3>3
      <4> QED BY <2>1, <3>2, <3>3, <4>1
    <3> QED BY <2>3, <3>3
  <2> QED BY <2>2, <2>3
<1>4. FirstMagic'
  <2>1. probe'.found \in 0 .. 3 /\ Passed' \subseteq 1 .. 3
    BY <1>1 DEF ProbeRecords, Passed
  <2> QED BY <1>2, <1>3, <2>1 DEF FirstMagic, KBUnits
<1>5. probe'.found # 0 => probe'.found = probe'.index
  BY <1>1
<1>6. phase' = "probe_lkl" => probe'.media = media'
  BY DEF DiskInv, SearchOK
<1> QED BY <1>4, <1>5, <1>6 DEF SearchOK

\* One turn of the search.
LEMMA ReadMagicKeeps == DiskInv /\ ReadMagic => DiskInv'
<1> SUFFICES ASSUME DiskInv, ReadMagic PROVE DiskInv'
  OBVIOUS
<1> DEFINE off == Offset(probe.index)
           B == content[probe.media][off + 1]
<1>1. probe \in ProbeRecords /\ probe.found = 0 /\ probe.index \in 1 .. 3 /\ probe.media \in Media
      /\ Searching /\ phase = "probe" /\ phase' = phase
  BY DEF DiskInv, TypeOK, ReadMagic, Searching, ProbeRecords
<1>2. UNCHANGED <<content, drive, phase, media, capacity, req>>
  BY DEF ReadMagic
<1>3. probe' \in ProbeRecords /\ SearchOK'
  <2>1. CASE probe' = Skip(probe)
    <3>1. /\ probe' \in ProbeRecords /\ probe'.media = probe.media
          /\ probe'.failed = probe.failed \cup {probe.index}
          /\ probe'.found = 0 /\ probe'.index = probe.index + 1
      BY <1>1, <2>1, SkipTyped
    <3> QED BY <1>1, <1>2, <3>1, SearchStep
  <2>2. CASE Reachable(probe.media, off, KBUnits) /\ probe' = Compare(probe, B)
    <3>1. content[probe.media] \in Seq(Values) /\ Len(content[probe.media]) \in Nat
      BY <1>1 DEF DiskInv, TypeOK
    <3>2. off \in Nat /\ off + 1 \in 1 .. Len(content[probe.media])
      BY <1>1, <2>2, <3>1, Offsets DEF Reachable
    <3>3. B \in Values
      BY <3>1, <3>2
    <3>4. Carries(probe.index) <=> FsIdInfos[probe.index].Name \in B
      BY <1>1, <3>2 DEF Carries
    <3> HIDE DEF B, off
    <3>5. /\ probe' \in ProbeRecords /\ probe'.media = probe.media /\ probe'.failed = probe.failed
          /\ \/ FsIdInfos[probe.index].Name \in B /\ probe'.found = probe.index /\ probe'.index = probe.index
             \/ FsIdInfos[probe.index].Name \notin B /\ probe'.found = 0 /\ probe'.index = probe.index + 1
      BY <1>1, <2>2, <3>3, CompareTyped
    <3> QED BY <1>1, <1>2, <3>4, <3>5, SearchStep
  <2> QED BY <2>1, <2>2 DEF ReadMagic
<1>4. TypeOK'
  BY <1>2, <1>3 DEF DiskInv, TypeOK
<1>5. WritesMounted'
  BY <1>2 DEF DiskInv, WritesMounted, InLoop
<1> QED BY <1>3, <1>4, <1>5 DEF DiskInv

\* One turn of the search on the decrypted device.
LEMMA ReadMagicLKLKeeps == DiskInv /\ ReadMagicLKL => DiskInv'
<1> SUFFICES ASSUME DiskInv, ReadMagicLKL PROVE DiskInv'
  OBVIOUS
<1> DEFINE off == Offset(probe.index)
           B == Decrypt[content[media][off + 1]]
<1>1. probe \in ProbeRecords /\ probe.found = 0 /\ probe.index \in 1 .. 3 /\ probe.media = media
      /\ Searching /\ phase = "probe_lkl" /\ phase' = phase /\ media \in Media
  BY DEF DiskInv, TypeOK, SearchOK, ReadMagicLKL, Searching, ProbeRecords
<1>2. UNCHANGED <<content, drive, phase, media, capacity, req>>
  BY DEF ReadMagicLKL
<1>0. capacity \in Nat /\ off \in {0, KBUnits} /\ KBUnits \in Nat \ {0}
  BY <1>1, Offsets DEF DiskInv, TypeOK
<1>3. probe' \in ProbeRecords /\ SearchOK'
  <2>1. CASE probe' = Skip(probe)
    <3>1. /\ probe' \in ProbeRecords /\ probe'.media = probe.media
          /\ probe'.failed = probe.failed \cup {probe.index}
          /\ probe'.found = 0 /\ probe'.index = probe.index + 1
      BY <1>1, <2>1, SkipTyped
    <3> QED BY <1>1, <1>2, <3>1, SearchStep
  <2>2. CASE off = capacity /\ probe' = Compare(probe, probe.Buffer)
    <3>1. ~(capacity > KBUnits)
      BY <1>0, <2>2
    <3>2. probe.Buffer \in Values \cup {{}}
      BY <1>1 DEF ProbeRecords
    <3>3. /\ probe' \in ProbeRecords /\ probe'.media = probe.media /\ probe'.failed = probe.failed
          /\ \/ probe'.found = probe.index /\ probe'.index = probe.index
             \/ probe'.found = 0 /\ probe'.index = probe.index + 1
      BY <1>1, <2>2, <3>2, CompareTyped
    <3> QED BY <1>1, <1>2, <3>1, <3>3, SearchStep
  <2>3. CASE off < capacity /\ off < Len(content[media]) /\ probe' = Compare(probe, B)
    <3>1. content[media] \in Seq(Values) /\ Len(content[media]) \in Nat
      BY <1>1 DEF DiskInv, TypeOK
    <3>2. off \in Nat /\ off + 1 \in 1 .. Len(content[media])
      BY <1>0, <2>3, <3>1
    <3>3. content[media][off + 1] \in Values
      BY <3>1, <3>2
    <3>4. B \in Values
      BY <3>3, DiskAssumption
    <3>5. Carries(probe.index) <=> FsIdInfos[probe.index].Name \in B
      BY <1>1, <3>2 DEF Carries
    <3> HIDE DEF B, off
    <3>6. /\ probe' \in ProbeRecords /\ probe'.media = probe.media /\ probe'.failed = probe.failed
          /\ \/ FsIdInfos[probe.index].Name \in B /\ probe'.found = probe.index /\ probe'.index = probe.index
             \/ FsIdInfos[probe.index].Name \notin B /\ probe'.found = 0 /\ probe'.index = probe.index + 1
      BY <1>1, <2>3, <3>4, CompareTyped
    <3> QED BY <1>1, <1>2, <3>5, <3>6, SearchStep
  <2> QED BY <2>1, <2>2, <2>3 DEF ReadMagicLKL
<1>4. TypeOK'
  BY <1>2, <1>3 DEF DiskInv, TypeOK
<1>5. WritesMounted'
  BY <1>2 DEF DiskInv, WritesMounted, InLoop
<1> QED BY <1>3, <1>4, <1>5 DEF DiskInv

-----------------------------------------------------------------------------
\* The steps that touch neither the contents of a medium nor a request.
LEMMA VolumeKeeps ==
    DiskInv /\ (ChangeMedium \/ Volume \/ GetFsType \/ GetFsTypeReturn \/ GetFsTypeLKL \/ GetFsTypeLKLReturn)
    => DiskInv'
<1> SUFFICES ASSUME DiskInv,
                    ChangeMedium \/ Volume \/ GetFsType \/ GetFsTypeReturn \/ GetFsTypeLKL \/ GetFsTypeLKLReturn
             PROVE  DiskInv'
  OBVIOUS
<1> USE DEF DiskInv
<1>0. /\ content \in [Media -> Seq(Values)] /\ drive \in Media /\ media \in Media /\ capacity \in Nat
      /\ phase \in Phases /\ probe \in ProbeRecords /\ (req = None \/ req \in RequestRecords)
  BY DEF TypeOK
<1>1. CASE ChangeMedium
  <2>1. UNCHANGED <<content, phase, media, capacity, probe, req>> /\ drive' \in Media
    BY <1>0, <1>1, DiskAssumption DEF ChangeMedium, Media
  <2>2. TypeOK'
    BY <1>0, <2>1 DEF TypeOK
  <2>3. SearchOK'
    BY <2>1 DEF SearchOK, FirstMagic, Carries, Passed, Offset, KBUnits
  <2> QED BY <2>1, <2>2, <2>3 DEF WritesMounted, InLoop
<1>2. CASE GetFsType
  <2>1. UNCHANGED <<content, drive, media, capacity, req>> /\ phase = "none" /\ phase' = "probe"
        /\ probe' = [NoProbe EXCEPT !.media = drive]
    BY <1>2 DEF GetFsType
  <2>2. probe' \in ProbeRecords /\ probe'.found = 0 /\ probe'.index = 1
    BY <1>0, <2>1, NoProbeTyped DEF ProbeRecords
  <2>3. TypeOK'
    BY <1>0, <2>1, <2>2 DEF TypeOK, Phases
  <2>4. SearchOK'
    BY <2>1, <2>2 DEF SearchOK, FirstMagic, Passed
  <2> QED BY <2>1, <2>3, <2>4 DEF WritesMounted, InLoop
<1>3. CASE GetFsTypeReturn
  <2>1. UNCHANGED <<content, drive, media, capacity, probe, req>> /\ phase = "probe" /\ phase' \in {"none", "probed"}
    BY <1>3 DEF GetFsTypeReturn
  <2>3. TypeOK'
    BY <1>0, <2>1 DEF TypeOK, Phases
  <2> QED BY <2>1, <2>3 DEF WritesMounted, InLoop, SearchOK
<1>4. CASE GetFsTypeLKL
  <2>1. UNCHANGED <<content, drive, media, capacity, req>> /\ phase = "added" /\ phase' = "probe_lkl"
    BY <1>4 DEF GetFsTypeLKL
  <2>2. PICK junk \in Values : probe' = [NoProbe EXCEPT !.media = media, !.Buffer = junk, !.FD = TRUE]
    BY <1>4 DEF GetFsTypeLKL
  <2>3. probe' \in ProbeRecords /\ probe'.found = 0 /\ probe'.index = 1 /\ probe'.media = media
    BY <1>0, <2>2, NoProbeTyped DEF ProbeRecords
  <2>4. TypeOK'
    BY <1>0, <2>1, <2>3 DEF TypeOK, Phases
  <2>5. SearchOK'
    BY <2>1, <2>3 DEF SearchOK, FirstMagic, Passed
  <2> QED BY <2>1, <2>4, <2>5 DEF WritesMounted, InLoop
<1>5. CASE GetFsTypeLKLReturn
  <2>1. UNCHANGED <<content, drive, media, capacity, req>> /\ phase = "probe_lkl" /\ phase' \in {"none", "added"}
        /\ probe' = [probe EXCEPT !.FD = FALSE]
    BY <1>5 DEF GetFsTypeLKLReturn
  <2>2. probe' \in ProbeRecords
    BY <1>0, <2>1 DEF ProbeRecords
  <2>3. TypeOK'
    BY <1>0, <2>1, <2>2 DEF TypeOK, Phases
  <2> QED BY <2>1, <2>3 DEF WritesMounted, InLoop, SearchOK
<1>6. CASE Volume
  <2>1. UNCHANGED <<content, drive, req>> /\ phase' \in Phases \ {"probe", "probe_lkl"} /\ media' \in {drive, media}
        /\ probe' \in {NoProbe, probe} /\ capacity' \in {capacity, uefi_blk_get_capacity}
    BY <1>6 DEF Volume, AllocateVolume, lkl_disk_add, Mount, lkl_disk_remove, Phases
  <2>2. uefi_blk_get_capacity \in Nat
    BY <1>0 DEF uefi_blk_get_capacity
  <2>3. TypeOK'
    BY <1>0, <2>1, <2>2, NoProbeTyped DEF TypeOK
  <2>4. phase = "mounted" => req = None
    BY <1>6 DEF Volume, AllocateVolume, lkl_disk_add, Mount, lkl_disk_remove
  <2> QED BY <2>1, <2>3, <2>4 DEF WritesMounted, InLoop, SearchOK
<1> QED BY <1>1, <1>2, <1>3, <1>4, <1>5, <1>6

\* What a step of the block device leaves alone, and what it may write.
LEMMA BlockStep ==
    ASSUME DiskInv, BlockDevice
    PROVE  /\ UNCHANGED <<drive, phase, media, capacity, probe>>
           /\ content' \in [Media -> Seq(Values)]
           /\ req' = None \/ req' \in RequestRecords
           /\ WritesMounted'
           /\ \A m \in Media : content'[m] # content[m] => m = media /\ phase = "mounted"
<1>0. /\ content \in [Media -> Seq(Values)] /\ drive \in Media /\ media \in Media
      /\ (req = None \/ req \in RequestRecords) /\ WritesMounted
  BY DEF DiskInv, TypeOK
<1>1. ASSUME NEW r \in Requests, uefi_blk_request(r)
      PROVE  /\ UNCHANGED <<content, drive, phase, media, capacity, probe>>
             /\ req' \in RequestRecords /\ WritesMounted'
  <2>1. r.type \in Types /\ r.sector \in Nat /\ r.buf \in Seq(Seq(Values)) /\ SectorUnits \in Nat
    BY DiskAssumption
  <2>2. r.sector * SectorUnits \in Nat /\ content[media] \in Seq(Values)
    BY <1>0, <2>1
  <2>3. \E st \in Status :
           /\ req' = [type |-> r.type, sector |-> r.sector, buf |-> r.buf,
                      off |-> r.sector * SectorUnits, i |-> 1, status |-> st, before |-> content[media],
                      at |-> <<r.sector * SectorUnits>>]
           /\ st = "pending" => r.type \in {"read", "write"}
    BY <1>1, <2>1 DEF uefi_blk_request, Status, Types
  <2>4. req' \in RequestRecords
    BY <2>1, <2>2, <2>3 DEF RequestRecords
  <2>5. WritesMounted'
    BY <1>1, <2>3 DEF WritesMounted, InLoop, uefi_blk_request
  <2> QED BY <1>1, <2>4, <2>5 DEF uefi_blk_request
<1>2. ASSUME InLoop, req.i <= Len(req.buf)
      PROVE  /\ req \in RequestRecords /\ req.buf[req.i] \in Seq(Values) /\ req.off \in Nat
             /\ req.i \in 1 .. Len(req.buf) /\ req.buf \in Seq(Seq(Values)) /\ req.i + 1 \in Nat \ {0}
             /\ req.at \in Seq(Nat)
  <2>1. req \in RequestRecords
    BY <1>0, <1>2 DEF InLoop
  <2>2. req.buf \in Seq(Seq(Values)) /\ req.i \in Nat \ {0} /\ req.off \in Nat /\ req.at \in Seq(Nat)
    BY <2>1 DEF RequestRecords
  <2> QED BY <1>2, <2>1, <2>2
<1>3. ASSUME NEW s \in Seq(Values), NEW off \in Nat, InLoop, req.type # "read",
             content' = [content EXCEPT ![media] = Overlay(content[media], off, s)]
      PROVE  /\ content' \in [Media -> Seq(Values)]
             /\ \A m \in Media : content'[m] # content[m] => m = media /\ phase = "mounted"
  <2>1. Overlay(content[media], off, s) \in Seq(Values)
    BY <1>0, OverlayTyped
  <2> QED BY <1>0, <1>3, <2>1 DEF WritesMounted
<1>4. CASE Transfer
  <2> DEFINE s == req.buf[req.i]
  <2>1. InLoop /\ req.i <= Len(req.buf) /\ Reachable(media, req.off, Len(s)) /\ UNCHANGED <<drive, phase, media, capacity, probe>>
    BY <1>4 DEF Transfer
  <2>2. s \in Seq(Values) /\ Len(s) \in Nat /\ req.off + Len(s) \in Nat
        /\ Append(req.at, req.off + Len(s)) \in Seq(Nat)
    BY <1>2, <2>1
  <2>3. CASE req.type = "read"
    <3> DEFINE new == Part(content[media], req.off, Len(s))
    <3>1. content' = content /\ req' = [req EXCEPT !.buf[req.i] = new, !.off = req.off + Len(s), !.i = req.i + 1,
                            !.at = Append(req.at, req.off + Len(s))]
      BY <1>2, <1>4, <2>1, <2>3 DEF Transfer, RequestRecords
    <3>2. new \in Seq(Values)
      <4>1. req.off + Len(s) <= Len(content[media])
        BY <2>1 DEF Reachable
      <4> QED BY <1>0, <1>2, <2>1, <2>2, <4>1, PartTyped
    <3> HIDE DEF new, s
    <3>3. [req.buf EXCEPT ![req.i] = new] \in Seq(Seq(Values))
      BY <1>2, <2>1, <3>2
    <3>4. req' = [req EXCEPT !.buf = [req.buf EXCEPT ![req.i] = new], !.off = req.off + Len(s), !.i = req.i + 1,
                            !.at = Append(req.at, req.off + Len(s))]
      BY <3>1, <1>2, <2>1 DEF RequestRecords
    <3>5. req' \in RequestRecords /\ req'.type = req.type
      BY <1>2, <2>1, <2>2, <3>3, <3>4 DEF RequestRecords
    <3> QED BY <1>0, <2>1, <2>3, <3>1, <3>5 DEF WritesMounted
  <2>4. CASE req.type # "read"
    <3>1. req' = [req EXCEPT !.off = req.off + Len(s), !.i = req.i + 1,
                            !.at = Append(req.at, req.off + Len(s))]
      BY <1>2, <1>4, <2>1, <2>4 DEF Transfer, RequestRecords
    <3>2. content' = [content EXCEPT ![media] = Overlay(content[media], req.off, s)]
      BY <1>4, <2>4 DEF Transfer
    <3> HIDE DEF s
    <3>3. req' \in RequestRecords /\ req'.type = req.type /\ req'.status = req.status
      BY <1>2, <2>1, <2>2, <3>1 DEF RequestRecords
    <3>4. /\ content' \in [Media -> Seq(Values)]
          /\ \A m \in Media : content'[m] # content[m] => m = media /\ phase = "mounted"
      BY <1>2, <1>3, <2>1, <2>2, <2>4, <3>2
    <3>5. WritesMounted'
      BY <1>0, <2>1, <2>4, <3>3 DEF WritesMounted, InLoop
    <3> QED BY <2>1, <3>3, <3>4, <3>5
  <2> QED BY <2>3, <2>4
<1>5. CASE TransferFails
  <2> DEFINE s == req.buf[req.i]
  <2>1. InLoop /\ req.i <= Len(req.buf) /\ UNCHANGED <<drive, phase, media, capacity, probe>>
        /\ req' = [req EXCEPT !.status = "IOERR"]
    BY <1>5 DEF TransferFails
  <2>2. req' \in RequestRecords /\ req'.status = "IOERR"
    BY <1>2, <2>1 DEF RequestRecords, Status
  <2>3. CASE UNCHANGED content
    BY <1>0, <2>1, <2>2, <2>3 DEF WritesMounted, InLoop
  <2>4. CASE req.type = "write" /\ \E n \in 1 .. Len(s) :
                 content' = [content EXCEPT ![media] = Overlay(@, req.off, SubSeq(s, 1, n))]
    <3>1. PICK n \in 1 .. Len(s) : content' = [content EXCEPT ![media] = Overlay(content[media], req.off, SubSeq(s, 1, n))]
      BY <2>4
    <3>2. SubSeq(s, 1, n) \in Seq(Values)
      BY <1>2, <2>1, BeginTyped
    <3> HIDE DEF s
    <3>3. /\ content' \in [Media -> Seq(Values)]
          /\ \A m \in Media : content'[m] # content[m] => m = media /\ phase = "mounted"
      BY <1>2, <1>3, <2>1, <2>4, <3>1, <3>2
    <3> QED BY <2>1, <2>2, <3>3 DEF WritesMounted, InLoop
  <2> QED BY <1>5, <2>3, <2>4 DEF TransferFails
<1>6. CASE do_rw_Return
  <2>1. InLoop /\ req \in RequestRecords /\ req' = [req EXCEPT !.status = "OK"]
        /\ UNCHANGED <<content, drive, phase, media, capacity, probe>>
    BY <1>0, <1>6 DEF do_rw_Return, InLoop
  <2>2. req' \in RequestRecords /\ req'.status = "OK"
    BY <2>1 DEF RequestRecords, Status
  <2> QED BY <1>0, <2>1, <2>2 DEF WritesMounted, InLoop
<1>7. CASE Answer
  BY <1>0, <1>7 DEF Answer, WritesMounted, InLoop
<1> QED BY <1>0, <1>1, <1>4, <1>5, <1>6, <1>7 DEF BlockDevice

\* The block device keeps the invariant: while a search goes on nothing is
\* written.
LEMMA BlockKeeps == DiskInv /\ BlockDevice => DiskInv'
<1> SUFFICES ASSUME DiskInv, BlockDevice PROVE DiskInv'
  OBVIOUS
<1>1. TypeOK'
  BY BlockStep DEF DiskInv, TypeOK
<1>2. ASSUME phase \in {"probe", "probe_lkl"} PROVE content' = content
  <2>1. \A m \in Media : content'[m] = content[m]
    BY <1>2, BlockStep
  <2>2. content \in [Media -> Seq(Values)] /\ content' \in [Media -> Seq(Values)]
    BY <1>1 DEF DiskInv, TypeOK
  <2> QED BY <2>1, <2>2
<1>3. SearchOK'
  BY <1>2, BlockStep DEF DiskInv, SearchOK, FirstMagic, Carries, Passed, Offset, KBUnits
<1> QED BY <1>1, <1>3, BlockStep DEF DiskInv

\* The invariant holds in every state.
LEMMA DiskInvariant == Spec => []DiskInv
<1>1. DiskInv /\ [Next]_vars => DiskInv'
  <2> SUFFICES ASSUME DiskInv, [Next]_vars PROVE DiskInv'
    OBVIOUS
  <2>1. CASE UNCHANGED vars
    BY <2>1 DEF vars, DiskInv, TypeOK, WritesMounted, InLoop, SearchOK, FirstMagic, Carries, Passed,
                Offset, KBUnits
  <2> QED BY <2>1, VolumeKeeps, ReadMagicKeeps, ReadMagicLKLKeeps, BlockKeeps DEF Next, Probing
<1> QED BY <1>1, DiskInit, PTL DEF Spec

\* Both searches name the first file system whose superblock they could read, on
\* any disks and through any changes of the medium.
THEOREM FindsFirstMagic == Spec => []FirstMagic
<1>1. DiskInv => FirstMagic
  BY DEF DiskInv, SearchOK, FirstMagic
<1> QED BY <1>1, DiskInvariant, PTL

\* No request of a volume, of any length, changes another medium than the one
\* its structure was filled in with, and nothing is written before the mount.
THEOREM WritesOwnMedium == Spec => OtherMediaUntouched
<1> DEFINE A == \A m \in Media : content'[m] # content[m] => m = media /\ phase = "mounted"
<1>1. DiskInv /\ [Next]_vars => [A]_vars
  <2> SUFFICES ASSUME DiskInv, Next PROVE A
    OBVIOUS
  <2>1. CASE BlockDevice
    BY <2>1, BlockStep
  <2>2. CASE ~BlockDevice
    <3>1. content' = content
      BY <2>2 DEF Next, ChangeMedium, Volume, AllocateVolume, lkl_disk_add, Mount, lkl_disk_remove, Probing,
                  GetFsType, ReadMagic, GetFsTypeReturn, GetFsTypeLKL, ReadMagicLKL, GetFsTypeLKLReturn
    <3> QED BY <3>1
  <2> QED BY <2>1, <2>2
<1> QED BY <1>1, DiskInvariant, PTL DEF Spec, OtherMediaUntouched

-----------------------------------------------------------------------------
(* What a request has done to the medium.                                  *)

\* The first i - 1 buffers have been moved, from the offsets at to the offset off,
\* one behind the other, and are on the disk.
Pieces(at, buf, i, off, disk) ==
    /\ i \in Nat \ {0} /\ off \in Nat /\ at \in Seq(Nat) /\ buf \in Seq(Seq(Values))
    /\ i <= Len(buf) + 1 /\ Len(at) = i /\ at[i] = off /\ at[1] <= off
    /\ \A k \in 1 .. i - 1 :
          /\ at[k + 1] = at[k] + Len(buf[k]) /\ at[k + 1] <= off /\ at[k + 1] <= Len(disk)
          /\ Part(disk, at[k], Len(buf[k])) = buf[k]

Placed(r, disk) ==
    /\ Pieces(r.at, r.buf, r.i, r.off, disk)
    /\ r.at[1] = r.sector * SectorUnits /\ Len(disk) = Len(r.before)

\* What differs from before has been written by the request.
Written(r, disk) ==
    \A u \in 1 .. Len(disk) :
        disk[u] # r.before[u] =>
            /\ r.type = "write"
            /\ \/ u \in r.at[1] + 1 .. r.off
               \/ /\ r.status = "IOERR" /\ u - r.off \in 1 .. Len(r.buf[r.i])
                  /\ disk[u] = r.buf[r.i][u - r.off]

Complete(r) == r.status = "OK" /\ r.type \in {"read", "write"} => r.i = Len(r.buf) + 1

RequestOK ==
    req # None =>
        /\ phase \in {"added", "probe_lkl", "mounted"}
        /\ Placed(req, content[media]) /\ Written(req, content[media]) /\ Complete(req)

\* The units of part of a disk, and of a disk with a part overwritten.
LEMMA PartPoints ==
    ASSUME NEW disk \in Seq(Values), NEW off \in Nat, NEW s \in Seq(Values), off + Len(s) <= Len(disk)
    PROVE  Part(disk, off, Len(s)) = s <=> \A j \in 1 .. Len(s) : disk[off + j] = s[j]
<1> DEFINE p == Part(disk, off, Len(s))
<1>1. Len(s) \in Nat /\ Len(disk) \in Nat /\ p \in Seq(Values)
  BY PartTyped
<1>2. Len(p) = Len(s) /\ \A j \in 1 .. Len(s) : p[j] = disk[off + j]
  BY <1>1 DEF Part
<1>3. p = s <=> \A j \in 1 .. Len(s) : p[j] = s[j]
  <2> HIDE DEF p
  <2> QED BY <1>1, <1>2, SeqEqual
<1> HIDE DEF p
<1>4. p = s <=> \A j \in 1 .. Len(s) : disk[off + j] = s[j]
  BY <1>2, <1>3
<1> QED BY <1>4 DEF p

LEMMA PartLength ==
    ASSUME NEW disk \in Seq(Values), NEW off \in Nat, NEW len \in Nat, off + len <= Len(disk)
    PROVE  Len(Part(disk, off, len)) = len
BY DEF Part

LEMMA SameBuffer ==
    ASSUME NEW buf \in Seq(Seq(Values)), NEW i \in 1 .. Len(buf)
    PROVE  buf = [buf EXCEPT ![i] = buf[i]]
OBVIOUS

LEMMA OverlayPoints ==
    ASSUME NEW disk \in Seq(Values), NEW off \in Nat, NEW s \in Seq(Values)
    PROVE  /\ Len(Overlay(disk, off, s)) = Len(disk)
           /\ \A u \in 1 .. Len(disk) :
                 /\ u \in off + 1 .. off + Len(s) => Overlay(disk, off, s)[u] = s[u - off]
                 /\ u \notin off + 1 .. off + Len(s) => Overlay(disk, off, s)[u] = disk[u]
<1>1. Overlay(disk, off, s) \in Seq(Values) /\ Len(disk) \in Nat
  BY OverlayTyped
<1>2. DOMAIN Overlay(disk, off, s) = 1 .. Len(disk)
  BY DEF Overlay
<1>3. Len(Overlay(disk, off, s)) = Len(disk)
  BY <1>1, <1>2
<1>4. \A u \in 1 .. Len(disk) :
         /\ u \in off + 1 .. off + Len(s) => Overlay(disk, off, s)[u] = s[u - off]
         /\ u \notin off + 1 .. off + Len(s) => Overlay(disk, off, s)[u] = disk[u]
  BY Zenon DEF Overlay
<1> QED BY <1>3, <1>4

\* A disk of the same size, the same up to offset off.
SameUpTo(new, disk, off) ==
    /\ new \in Seq(Values) /\ Len(new) = Len(disk)
    /\ \A u \in 1 .. Len(disk) : u <= off => new[u] = disk[u]

LEMMA OverlaySame ==
    ASSUME NEW disk \in Seq(Values), NEW off \in Nat, NEW s \in Seq(Values)
    PROVE  SameUpTo(Overlay(disk, off, s), disk, off)
<1>1. Len(disk) \in Nat /\ Len(s) \in Nat
  OBVIOUS
<1>2. ASSUME NEW u \in 1 .. Len(disk), u <= off
      PROVE  Overlay(disk, off, s)[u] = disk[u]
  <2>1. u \notin off + 1 .. off + Len(s)
    BY <1>1, <1>2
  <2> QED BY <2>1, OverlayPoints
<1> QED BY <1>2, OverlayTyped, OverlayPoints DEF SameUpTo

LEMMA PartKept ==
    ASSUME NEW disk \in Seq(Values), NEW off \in Nat, NEW new, SameUpTo(new, disk, off),
           NEW o \in Nat, NEW s \in Seq(Values), o + Len(s) <= off, o + Len(s) <= Len(disk),
           Part(disk, o, Len(s)) = s
    PROVE  Part(new, o, Len(s)) = s
<1>1. Len(s) \in Nat /\ Len(disk) \in Nat /\ new \in Seq(Values) /\ Len(new) = Len(disk)
  BY DEF SameUpTo
<1>2. \A j \in 1 .. Len(s) : disk[o + j] = s[j]
  BY PartPoints
<1>3. ASSUME NEW j \in 1 .. Len(s)
      PROVE  new[o + j] = s[j]
  <2>1. o + j \in 1 .. Len(disk) /\ o + j <= off
    BY <1>1
  <2>2. new[o + j] = disk[o + j]
    BY <2>1 DEF SameUpTo
  <2> QED BY <1>2, <2>2
<1> QED BY <1>1, <1>3, PartPoints

LEMMA PartOverlaid ==
    ASSUME NEW disk \in Seq(Values), NEW off \in Nat, NEW s \in Seq(Values), off + Len(s) <= Len(disk)
    PROVE  Part(Overlay(disk, off, s), off, Len(s)) = s
<1> DEFINE new == Overlay(disk, off, s)
<1>1. Len(s) \in Nat /\ Len(disk) \in Nat /\ new \in Seq(Values) /\ Len(new) = Len(disk)
  <2>1. new \in Seq(Values)
    BY OverlayTyped
  <2>2. Len(new) = Len(disk)
    BY OverlayPoints
  <2> QED BY <2>1, <2>2
<1>2. ASSUME NEW j \in 1 .. Len(s)
      PROVE  new[off + j] = s[j]
  <2>1. off + j \in 1 .. Len(disk) /\ off + j \in off + 1 .. off + Len(s) /\ (off + j) - off = j
    BY <1>1
  <2> DEFINE u == off + j
  <2> HIDE DEF u
  <2>2. new[u] = s[u - off]
    BY <2>1, OverlayPoints DEF u
  <2> QED BY <2>1, <2>2 DEF u
<1> HIDE DEF new
<1>3. Part(new, off, Len(s)) = s
  BY <1>1, <1>2, PartPoints
<1> QED BY <1>3 DEF new

-----------------------------------------------------------------------------
LEMMA PieceTyped ==
    ASSUME NEW at, NEW buf, NEW i, NEW off, NEW disk, Pieces(at, buf, i, off, disk), NEW k \in 1 .. i - 1
    PROVE  /\ k \in 1 .. Len(buf) /\ k \in 1 .. i /\ k + 1 \in 1 .. i
           /\ at[k] \in Nat /\ at[k + 1] \in Nat /\ buf[k] \in Seq(Values) /\ Len(buf[k]) \in Nat
<1>1. i \in Nat \ {0} /\ Len(buf) \in Nat /\ i <= Len(buf) + 1
  BY DEF Pieces
<1>2. k \in 1 .. Len(buf) /\ k \in 1 .. i /\ k + 1 \in 1 .. i
  BY <1>1
<1>3. at[k] \in Nat /\ at[k + 1] \in Nat
  BY <1>2 DEF Pieces
<1>4. buf[k] \in Seq(Values)
  BY <1>2 DEF Pieces
<1> QED BY <1>2, <1>3, <1>4

\* Part of the next buffer may have been written.
LEMMA PiecesStay ==
    ASSUME NEW at, NEW buf, NEW i, NEW off, NEW disk \in Seq(Values), Pieces(at, buf, i, off, disk),
           NEW new, SameUpTo(new, disk, off)
    PROVE  Pieces(at, buf, i, off, new)
<1>1. Len(new) = Len(disk) /\ off \in Nat
  BY DEF SameUpTo, Pieces
<1>2. ASSUME NEW k \in 1 .. i - 1
      PROVE  /\ at[k + 1] = at[k] + Len(buf[k]) /\ at[k + 1] <= off /\ at[k + 1] <= Len(new)
             /\ Part(new, at[k], Len(buf[k])) = buf[k]
  <2>1. /\ at[k + 1] = at[k] + Len(buf[k]) /\ at[k + 1] <= off /\ at[k + 1] <= Len(disk)
        /\ Part(disk, at[k], Len(buf[k])) = buf[k]
    BY DEF Pieces
  <2>2. at[k] \in Nat /\ buf[k] \in Seq(Values)
    BY PieceTyped
  <2>3. Part(new, at[k], Len(buf[k])) = buf[k]
    BY <1>1, <2>1, <2>2, PartKept
  <2> QED BY <1>1, <2>1, <2>3
<1> QED BY <1>2 DEF Pieces

\* One more buffer has been moved, with the values s.
Longer(at2, buf2, n, at, buf, i, off, s) ==
    n = off + Len(s) /\ at2 = Append(at, n) /\ buf2 = [buf EXCEPT ![i] = s]

LEMMA PiecesStep ==
    ASSUME NEW at, NEW buf, NEW i, NEW off, NEW disk \in Seq(Values), Pieces(at, buf, i, off, disk),
           i <= Len(buf), NEW new, SameUpTo(new, disk, off),
           NEW s \in Seq(Values), off + Len(s) <= Len(disk), Part(new, off, Len(s)) = s,
           NEW n, NEW at2, NEW buf2, Longer(at2, buf2, n, at, buf, i, off, s)
    PROVE  Pieces(at2, buf2, i + 1, n, new) /\ at2[1] = at[1]
<1>1. /\ i \in Nat \ {0} /\ off \in Nat /\ at \in Seq(Nat) /\ buf \in Seq(Seq(Values))
      /\ Len(at) = i /\ at[i] = off /\ at[1] <= off
  BY DEF Pieces
<1>2. Len(buf) \in Nat /\ Len(s) \in Nat /\ Len(disk) \in Nat /\ n \in Nat /\ Len(new) = Len(disk) /\ off <= n
  BY <1>1 DEF SameUpTo, Longer
<1>a. Pieces(at, buf, i, off, new)
  BY PiecesStay
<1>b. off \in Nat /\ n \in Nat /\ off <= n
  BY <1>1, <1>2
<1>d. n = off + Len(s) /\ n <= Len(new) /\ n <= n
  BY <1>1, <1>2 DEF Longer
<1>c. i \in Nat \ {0} /\ Len(buf) \in Nat /\ i <= Len(buf)
  BY <1>1, <1>2
<1>3. at2 \in Seq(Nat) /\ Len(at2) = i + 1 /\ at2[i + 1] = n /\ \A k \in 1 .. i : at2[k] = at[k]
  BY <1>1, <1>2 DEF Longer
<1>4. buf2 \in Seq(Seq(Values)) /\ Len(buf2) = Len(buf) /\ buf2[i] = s
      /\ \A k \in 1 .. Len(buf) : k # i => buf2[k] = buf[k]
  BY <1>1, <1>2 DEF Longer
<1>5. at2[1] = at[1] /\ at[1] \in Nat /\ at2[1] <= n
  <2>1. 1 \in 1 .. i
    BY <1>1
  <2>2. at[1] \in Nat
    BY <2>1, <1>1
  <2> QED BY <2>1, <2>2, <1>1, <1>2, <1>3
<1>6. ASSUME NEW k \in 1 .. i
      PROVE  /\ at2[k + 1] = at2[k] + Len(buf2[k]) /\ at2[k + 1] <= n /\ at2[k + 1] <= Len(new)
             /\ Part(new, at2[k], Len(buf2[k])) = buf2[k]
  <2>1. CASE k = i
    <3>1. at2[k] = off /\ at2[k + 1] = n /\ buf2[k] = s
      BY <2>1, <1>1, <1>3, <1>4
    <3> QED BY <3>1, <1>d
  <2>2. CASE k # i
    <3>1. k \in 1 .. i - 1
      BY <1>1, <2>2
    <3>2. /\ k \in 1 .. Len(buf) /\ k \in 1 .. i /\ k + 1 \in 1 .. i
          /\ at[k] \in Nat /\ at[k + 1] \in Nat
      BY <1>a, <3>1, PieceTyped
    <3>3. at2[k] = at[k] /\ at2[k + 1] = at[k + 1] /\ buf2[k] = buf[k]
      BY <1>3, <1>4, <2>2, <3>2
    <3>4. /\ at[k + 1] = at[k] + Len(buf[k]) /\ at[k + 1] <= off /\ at[k + 1] <= Len(new)
          /\ Part(new, at[k], Len(buf[k])) = buf[k]
      BY <1>a, <3>1 DEF Pieces
    <3>5. at[k + 1] <= n
      <4>1. at[k + 1] \in Nat /\ at[k + 1] <= off
        BY <3>2, <3>4
      <4> QED BY <1>b, <4>1
    <3> QED BY <3>3, <3>4, <3>5
  <2> QED BY <2>1, <2>2
<1>7. (i + 1) - 1 = i /\ i + 1 \in Nat \ {0} /\ i + 1 <= Len(buf2) + 1
  <2>1. Len(buf2) = Len(buf)
    BY <1>4
  <2> QED BY <1>c, <2>1
<1>8. Pieces(at2, buf2, i + 1, n, new)
  BY <1>2, <1>3, <1>4, <1>5, <1>6, <1>7 DEF Pieces
<1> QED BY <1>5, <1>8

\* A turn of do_rw, seen from the request.
Moved(q, r, s) ==
    /\ q.buf = [r.buf EXCEPT ![r.i] = s] /\ q.off = r.off + Len(s) /\ q.i = r.i + 1
    /\ q.at = Append(r.at, r.off + Len(s))
    /\ q.sector = r.sector /\ q.before = r.before /\ q.type = r.type /\ q.status = r.status

LEMMA MovedOK ==
    ASSUME NEW r, NEW disk \in Seq(Values), Placed(r, disk), Written(r, disk), r.status = "pending",
           r.i <= Len(r.buf), NEW new, SameUpTo(new, disk, r.off),
           NEW s \in Seq(Values), r.off + Len(s) <= Len(disk), Part(new, r.off, Len(s)) = s,
           \A u \in 1 .. Len(disk) : new[u] # disk[u] => r.type = "write" /\ u <= r.off + Len(s),
           NEW q, Moved(q, r, s)
    PROVE  Placed(q, new) /\ Written(q, new)
<1> DEFINE off == r.off
           first == r.at[1]
           len == Len(s)
<1>1. Pieces(r.at, r.buf, r.i, r.off, disk)
  BY DEF Placed
<1>2. Pieces(q.at, q.buf, q.i, q.off, new) /\ q.at[1] = first
  <2> DEFINE at == r.at
             buf == r.buf
             i == r.i
             o == r.off
  <2>1. /\ Pieces(at, buf, i, o, disk) /\ i <= Len(buf) /\ SameUpTo(new, disk, o)
        /\ o + Len(s) <= Len(disk) /\ Part(new, o, Len(s)) = s
    BY <1>1
  <2>2. Longer(q.at, q.buf, q.off, at, buf, i, o, s) /\ q.i = i + 1
    BY DEF Moved, Longer
  <2> HIDE DEF at, buf, i, o
  <2>3. Pieces(q.at, q.buf, i + 1, q.off, new) /\ q.at[1] = at[1]
    BY <2>1, <2>2, PiecesStep
  <2> QED BY <2>2, <2>3 DEF at
<1>3. Placed(q, new)
  BY <1>2 DEF Placed, Moved, SameUpTo
<1>4. off \in Nat /\ first \in Nat /\ first <= off /\ len \in Nat /\ Len(new) = Len(disk) /\ Len(disk) \in Nat
  <2>1. off \in Nat /\ first <= off /\ r.at \in Seq(Nat) /\ Len(r.at) = r.i /\ r.i \in Nat \ {0}
    BY <1>1 DEF Pieces
  <2>2. first \in Nat
    BY <2>1
  <2> QED BY <2>1, <2>2 DEF SameUpTo
<1>5. q.off = off + len /\ q.type = r.type /\ q.before = r.before
  BY DEF Moved
<1> HIDE DEF off, first, len
<1>6. ASSUME NEW u \in 1 .. Len(disk), new[u] # r.before[u]
      PROVE  r.type = "write" /\ u \in first + 1 .. off + len
  <2>1. CASE new[u] = disk[u]
    <3>1. r.type = "write" /\ u \in first + 1 .. off
      BY <1>6, <2>1 DEF Written, off, first
    <3> QED BY <3>1, <1>4
  <2>2. CASE new[u] # disk[u]
    <3>1. r.type = "write" /\ u <= off + len
      BY <2>2 DEF off, len
    <3>2. ~(u <= off)
      BY <2>2 DEF SameUpTo, off
    <3> QED BY <3>1, <3>2, <1>4
  <2> QED BY <2>1, <2>2
<1>7. Written(q, new)
  BY <1>2, <1>4, <1>5, <1>6 DEF Written
<1> QED BY <1>3, <1>7

\* Leaving the loop with st changes at most the place of the current buffer.
Torn(r, st, disk, new) ==
    \A u \in 1 .. Len(disk) :
       new[u] # disk[u] => /\ r.type = "write" /\ st = "IOERR" /\ u - r.off \in 1 .. Len(r.buf[r.i])
                           /\ new[u] = r.buf[r.i][u - r.off]

\* The loop is left, after part of a write perhaps.
LEMMA LeftOK ==
    ASSUME NEW r, NEW disk \in Seq(Values), Placed(r, disk), Written(r, disk), r.status = "pending",
           NEW new, SameUpTo(new, disk, r.off), NEW st, NEW q, q = [r EXCEPT !.status = st], r \in RequestRecords,
           Torn(r, st, disk, new)
    PROVE  Placed(q, new) /\ Written(q, new)
<1>1. /\ q.buf = r.buf /\ q.off = r.off /\ q.i = r.i /\ q.at = r.at /\ q.sector = r.sector
      /\ q.before = r.before /\ q.type = r.type /\ q.status = st
  BY DEF RequestRecords
<1>2. Pieces(r.at, r.buf, r.i, r.off, new) /\ Len(new) = Len(disk)
  BY PiecesStay DEF Placed, SameUpTo
<1>3. Placed(q, new)
  BY <1>1, <1>2 DEF Placed
<1>4. ASSUME NEW u \in 1 .. Len(disk), new[u] # r.before[u]
      PROVE  /\ r.type = "write"
             /\ \/ u \in r.at[1] + 1 .. r.off
                \/ /\ st = "IOERR" /\ u - r.off \in 1 .. Len(r.buf[r.i])
                   /\ new[u] = r.buf[r.i][u - r.off]
  <2>1. CASE new[u] = disk[u]
    BY <1>4, <2>1, Zenon DEF Written
  <2>2. CASE new[u] # disk[u]
    BY <2>2, Zenon DEF Torn
  <2> QED BY <2>1, <2>2
<1>5. Written(q, new)
  BY <1>1, <1>2, <1>4, Zenon DEF Written
<1> QED BY <1>3, <1>5

\* The steps of the block device.
LEMMA TransferExact ==
    ASSUME DiskInv, RequestOK, Transfer
    PROVE  RequestOK'
<1> DEFINE disk == content[media]
           i == req.i
           s == req.buf[i]
<1>1. /\ InLoop /\ i <= Len(req.buf) /\ Reachable(media, req.off, Len(s)) /\ UNCHANGED <<phase, media>>
      /\ req # None /\ req.status = "pending" /\ req \in RequestRecords
  BY DEF Transfer, InLoop, DiskInv, TypeOK
<1>2. /\ req.off \in Nat /\ i \in 1 .. Len(req.buf) /\ req.buf \in Seq(Seq(Values)) /\ s \in Seq(Values)
      /\ req.at \in Seq(Nat) /\ i + 1 \in Nat
  <2>1. req.off \in Nat /\ i \in Nat \ {0} /\ req.buf \in Seq(Seq(Values)) /\ req.at \in Seq(Nat)
    BY <1>1 DEF RequestRecords
  <2>2. i \in 1 .. Len(req.buf)
    BY <1>1, <2>1
  <2> QED BY <2>1, <2>2
<1>3. content \in [Media -> Seq(Values)] /\ media \in Media /\ disk \in Seq(Values)
  BY DEF DiskInv, TypeOK
<1>4. req.off + Len(s) <= Len(disk) /\ Len(s) \in Nat
  BY <1>1, <1>2 DEF Reachable
<1>5. Placed(req, disk) /\ Written(req, disk) /\ phase \in {"added", "probe_lkl", "mounted"}
  BY <1>1 DEF RequestOK
<1>6. ASSUME NEW new, SameUpTo(new, disk, req.off), content'[media] = new,
             NEW t \in Seq(Values), Len(t) = Len(s), Part(new, req.off, Len(t)) = t,
             \A u \in 1 .. Len(disk) : new[u] # disk[u] => req.type = "write" /\ u <= req.off + Len(t),
             Moved(req', req, t)
      PROVE  RequestOK'
  <2>1. req.off + Len(t) <= Len(disk)
    BY <1>4, <1>6
  <2> HIDE DEF disk
  <2>2. Placed(req', new) /\ Written(req', new)
    BY <1>1, <1>3, <1>5, <1>6, <2>1, MovedOK
  <2>3. Complete(req')
    BY <1>1, <1>6 DEF Moved, Complete
  <2> QED BY <1>1, <1>5, <1>6, <2>2, <2>3 DEF RequestOK
<1>7. CASE req.type = "read"
  <2> DEFINE t == Part(disk, req.off, Len(s))
  <2>1. t \in Seq(Values) /\ Len(t) = Len(s)
    <3>1. t \in Seq(Values)
      BY <1>2, <1>3, <1>4, PartTyped
    <3>2. Len(t) = Len(s)
      BY <1>2, <1>3, <1>4, PartLength
    <3> QED BY <3>1, <3>2
  <2>2. content' = content
        /\ req' = [req EXCEPT !.buf[i] = t, !.off = @ + Len(s), !.i = @ + 1, !.at = Append(@, req.off + Len(s))]
    BY <1>7, Zenon DEF Transfer
  <2>3. Part(disk, req.off, Len(t)) = t
    BY <2>1
  <2> HIDE DEF t, s
  <2>4. Moved(req', req, t)
    BY <1>1, <2>1, <2>2 DEF RequestRecords, Moved
  <2>5. SameUpTo(disk, disk, req.off)
    BY <1>3 DEF SameUpTo
  <2>6. content'[media] = disk
    BY <2>2
  <2> HIDE DEF disk
  <2> QED BY <1>6, <2>1, <2>3, <2>4, <2>5, <2>6
<1>8. CASE req.type # "read"
  <2> DEFINE new == Overlay(disk, req.off, s)
  <2>1. req.type = "write"
    BY <1>1, <1>8 DEF DiskInv, WritesMounted
  <2>2. /\ content' = [content EXCEPT ![media] = Overlay(@, req.off, s)]
        /\ req' = [req EXCEPT !.off = @ + Len(s), !.i = @ + 1, !.at = Append(@, req.off + Len(s))]
    BY <1>8, Zenon DEF Transfer
  <2>3. content'[media] = new
    BY <1>3, <2>2
  <2>4. req.buf = [req.buf EXCEPT ![i] = s]
    BY <1>2, SameBuffer
  <2>5. Moved(req', req, s)
    <3> HIDE DEF s
    <3> QED BY <1>1, <2>2, <2>4 DEF RequestRecords, Moved
  <2>6. SameUpTo(new, disk, req.off)
    BY <1>2, <1>3, OverlaySame
  <2>7. Part(new, req.off, Len(s)) = s
    BY <1>2, <1>3, <1>4, PartOverlaid
  <2>8. ASSUME NEW u \in 1 .. Len(disk), new[u] # disk[u]
        PROVE  u <= req.off + Len(s)
    <3>1. u \in req.off + 1 .. req.off + Len(s)
      BY <1>2, <1>3, <2>8, OverlayPoints
    <3> QED BY <3>1, <1>2, <1>4
  <2> HIDE DEF new, s, disk
  <2> QED BY <1>2, <1>6, <2>1, <2>3, <2>5, <2>6, <2>7, <2>8
<1> QED BY <1>7, <1>8

LEMMA FailExact ==
    ASSUME DiskInv, RequestOK, TransferFails
    PROVE  RequestOK'
<1> DEFINE disk == content[media]
           new == content'[media]
           s == req.buf[req.i]
<1>1. /\ req # None /\ req.status = "pending" /\ req \in RequestRecords /\ UNCHANGED <<phase, media>>
      /\ req.i <= Len(req.buf) /\ req' = [req EXCEPT !.status = "IOERR"]
  BY DEF TransferFails, InLoop, DiskInv, TypeOK
<1>2. req.off \in Nat /\ req.i \in 1 .. Len(req.buf) /\ s \in Seq(Values)
  <2>1. req.off \in Nat /\ req.i \in Nat \ {0} /\ req.buf \in Seq(Seq(Values))
    BY <1>1 DEF RequestRecords
  <2>2. req.i \in 1 .. Len(req.buf)
    BY <1>1, <2>1
  <2> QED BY <2>1, <2>2
<1>3. content \in [Media -> Seq(Values)] /\ media \in Media /\ disk \in Seq(Values)
  BY DEF DiskInv, TypeOK
<1>4. Placed(req, disk) /\ Written(req, disk) /\ phase \in {"added", "probe_lkl", "mounted"}
  BY <1>1 DEF RequestOK
<1>5. /\ SameUpTo(new, disk, req.off)
      /\ \A u \in 1 .. Len(disk) :
            new[u] # disk[u] => req.type = "write" /\ u - req.off \in 1 .. Len(s) /\ new[u] = s[u - req.off]
  <2>1. CASE UNCHANGED content
    BY <2>1, <1>3 DEF SameUpTo
  <2>2. CASE req.type = "write" /\ \E n \in 1 .. Len(s) :
                 content' = [content EXCEPT ![media] = Overlay(@, req.off, SubSeq(s, 1, n))]
    <3>1. PICK n \in 1 .. Len(s) : content' = [content EXCEPT ![media] = Overlay(@, req.off, SubSeq(s, 1, n))]
      BY <2>2
    <3> DEFINE b == SubSeq(s, 1, n)
    <3>2. new = Overlay(disk, req.off, b)
      BY <1>3, <3>1
    <3>3. b \in Seq(Values) /\ Len(b) \in Nat /\ Len(b) <= Len(s) /\ \A j \in 1 .. Len(b) : b[j] = s[j]
      <4>1. b \in Seq(Values)
        BY <1>2, BeginTyped
      <4>2. Len(b) = n /\ \A j \in 1 .. n : b[j] = s[j]
        BY <1>2
      <4> QED BY <1>2, <4>1, <4>2
    <3> HIDE DEF b, s, disk, new
    <3>4. SameUpTo(new, disk, req.off)
      BY <1>2, <1>3, <3>2, <3>3, OverlaySame
    <3>5. ASSUME NEW u \in 1 .. Len(disk), new[u] # disk[u]
          PROVE  u - req.off \in 1 .. Len(s) /\ new[u] = s[u - req.off]
      <4>1. u \in req.off + 1 .. req.off + Len(b) /\ new[u] = b[u - req.off]
        BY <1>2, <1>3, <3>2, <3>3, <3>5, OverlayPoints
      <4> DEFINE j == u - req.off
      <4>2. j \in 1 .. Len(b) /\ j \in 1 .. Len(s)
        <5>1. Len(disk) \in Nat /\ Len(s) \in Nat /\ u \in Nat
          BY <1>2, <1>3
        <5> QED BY <1>2, <3>3, <4>1, <5>1
      <4> HIDE DEF j
      <4>3. b[j] = s[j]
        BY <3>3, <4>2
      <4> QED BY <4>1, <4>2, <4>3 DEF j
    <3> QED BY <2>2, <3>4, <3>5
  <2> QED BY <2>1, <2>2, Zenon DEF TransferFails
<1>6. Placed(req', new) /\ Written(req', new)
  <2> HIDE DEF disk, new
  <2>1. Torn(req, "IOERR", disk, new)
    BY <1>5 DEF Torn
  <2> QED BY <1>1, <1>3, <1>4, <1>5, <2>1, LeftOK
<1>7. Complete(req')
  BY <1>1 DEF Complete, RequestRecords
<1> QED BY <1>1, <1>4, <1>6, <1>7 DEF RequestOK

LEMMA RequestStep ==
    ASSUME DiskInv, RequestOK, [Next]_vars
    PROVE  RequestOK'
<1>1. content \in [Media -> Seq(Values)] /\ media \in Media /\ content[media] \in Seq(Values)
  BY DEF DiskInv, TypeOK
<1>2. CASE UNCHANGED <<content, media, req>> /\ (req # None => phase' \in {"added", "probe_lkl", "mounted"})
  BY <1>2 DEF RequestOK
<1>3. CASE UNCHANGED vars
  BY <1>2, <1>3 DEF vars, RequestOK
<1>4. CASE req' = None
  BY <1>4 DEF RequestOK
<1>5. CASE ChangeMedium \/ Probing \/ Volume
  <2>1. CASE ChangeMedium
    BY <2>1, <1>2 DEF ChangeMedium, RequestOK
  <2>2. CASE Probing
    BY <2>2, <1>2 DEF Probing, GetFsType, ReadMagic, GetFsTypeReturn, GetFsTypeLKL, ReadMagicLKL,
                      GetFsTypeLKLReturn, RequestOK
  <2>3. CASE Volume
    <3>1. req = None /\ req' = req
      BY <2>3 DEF Volume, AllocateVolume, lkl_disk_add, Mount, lkl_disk_remove, RequestOK
    <3> QED BY <1>4, <3>1
  <2> QED BY <1>5, <2>1, <2>2, <2>3
<1>6. ASSUME NEW r \in Requests, uefi_blk_request(r)
      PROVE  RequestOK'
  <2> DEFINE from == r.sector * SectorUnits
             disk == content[media]
  <2>1. r.type \in Types /\ r.sector \in Nat /\ r.buf \in Seq(Seq(Values)) /\ SectorUnits \in Nat /\ from \in Nat
    BY DiskAssumption
  <2>2. PICK st \in Status :
           /\ req' = [type |-> r.type, sector |-> r.sector, buf |-> r.buf, off |-> from, i |-> 1, status |-> st,
                      before |-> disk, at |-> <<from>>]
           /\ st = "OK" => r.type \notin {"read", "write"}
    BY <1>6, <2>1 DEF uefi_blk_request, Status, Types
  <2>3. UNCHANGED <<content, media, phase>> /\ phase \in {"added", "probe_lkl", "mounted"}
    BY <1>6 DEF uefi_blk_request
  <2> HIDE DEF from
  <2>4. /\ req'.type = r.type /\ req'.sector = r.sector /\ req'.buf = r.buf /\ req'.off = from /\ req'.i = 1
        /\ req'.status = st /\ req'.before = disk /\ req'.at = <<from>>
    BY <2>2
  <2>5. Pieces(<<from>>, r.buf, 1, from, disk)
    <3>1. <<from>> \in Seq(Nat) /\ Len(<<from>>) = 1 /\ <<from>>[1] = from
      BY <2>1
    <3>2. 1 <= Len(r.buf) + 1 /\ 1 .. 1 - 1 = {}
      <4>1. Len(r.buf) \in Nat
        BY <2>1
      <4> QED BY <4>1
    <3> QED BY <2>1, <3>1, <3>2 DEF Pieces
  <2>6. Placed(req', disk)
    BY <2>4, <2>5, <2>1 DEF Placed, from
  <2>7. Written(req', disk)
    BY <2>4 DEF Written
  <2>8. Complete(req')
    BY <2>2, <2>4 DEF Complete
  <2> QED BY <2>3, <2>6, <2>7, <2>8 DEF RequestOK
<1>7. CASE do_rw_Return
  <2>1. /\ req # None /\ req.status = "pending" /\ req \in RequestRecords /\ UNCHANGED <<phase, media, content>>
        /\ req.i > Len(req.buf) /\ req' = [req EXCEPT !.status = "OK"]
    BY <1>7 DEF do_rw_Return, InLoop, DiskInv, TypeOK
  <2> DEFINE disk == content[media]
  <2>2. Placed(req, disk) /\ Written(req, disk) /\ phase \in {"added", "probe_lkl", "mounted"}
    BY <2>1 DEF RequestOK
  <2>3. SameUpTo(disk, disk, req.off)
    BY <1>1 DEF SameUpTo
  <2>4. Placed(req', disk) /\ Written(req', disk)
    <3>1. Torn(req, "OK", disk, disk) /\ disk \in Seq(Values)
      BY <1>1 DEF Torn
    <3> HIDE DEF disk
    <3> QED BY <2>1, <2>2, <2>3, <3>1, LeftOK
  <2>5. Complete(req')
    <3>1. req'.i = req.i /\ req'.buf = req.buf
      BY <2>1 DEF RequestRecords
    <3>2. req.i \in Nat /\ Len(req.buf) \in Nat /\ req.i <= Len(req.buf) + 1
      BY <2>2 DEF Placed, Pieces
    <3>3. req.i = Len(req.buf) + 1
      BY <2>1, <3>2
    <3> QED BY <3>1, <3>3 DEF Complete
  <2> QED BY <2>1, <2>2, <2>4, <2>5 DEF RequestOK
<1>8. CASE Answer
  BY <1>4, <1>8 DEF Answer
<1>9. CASE BlockDevice
  BY <1>6, <1>7, <1>8, <1>9, TransferExact, FailExact DEF BlockDevice
<1> QED BY <1>3, <1>5, <1>9 DEF Next

LEMMA RequestGivesExact ==
    ASSUME DiskInv, RequestOK
    PROVE  RequestExact
<1> SUFFICES ASSUME req # None
             PROVE  RequestExact
  BY DEF RequestExact
<1> DEFINE disk == content[media]
<1>1. Placed(req, disk) /\ Written(req, disk) /\ Complete(req)
  BY DEF RequestOK
<1>2. Pieces(req.at, req.buf, req.i, req.off, disk)
  BY <1>1 DEF Placed
<1>3. req.at[req.i] = req.off
  BY <1>2 DEF Pieces
<1>4. \A k \in 1 .. req.i - 1 :
         /\ req.at[k + 1] = req.at[k] + Len(req.buf[k])
         /\ req.at[k + 1] <= Len(disk) /\ Part(disk, req.at[k], Len(req.buf[k])) = req.buf[k]
  BY <1>2 DEF Pieces
<1> QED BY <1>1, <1>3, <1>4, Zenon DEF RequestExact, Placed, Written, Complete

\* A request of any length moves its buffers to and from their places and nothing
\* else, whatever the firmware refuses, and whenever the medium is changed.
THEOREM MovesItsBuffers == Spec => []RequestExact
<1>1. Init => RequestOK
  BY DEF Init, RequestOK
<1>2. DiskInv /\ RequestOK /\ [Next]_vars => RequestOK'
  BY RequestStep
<1>3. DiskInv /\ RequestOK => RequestExact
  BY RequestGivesExact
<1> QED BY <1>1, <1>2, <1>3, DiskInvariant, PTL DEF Spec
=============================================================================
