-------------------------- MODULE LKLVolumeProofs --------------------------
(***************************************************************************)
(* The properties of LKLVolume for any number of controllers, volumes and  *)
(* files, and any depth of calls of Start inside each other.               *)
(*                                                                         *)
(* The invariant follows a Start step by step.  Stage says what its volume *)
(* has in the Linux kernel at each point, and that what it has can be told *)
(* from the names that are set, which is what the clean-up goes by.  All   *)
(* the calls but the innermost are waiting in a step that does I/O.  A     *)
(* call whose medium is still there has its device open and, before        *)
(* Install, no file system on its handle; of several calls for one handle  *)
(* only the innermost is of that kind, and the others can only fail.  A    *)
(* volume that is being set up or cleaned up is in nobody else's hands.    *)
(***************************************************************************)
EXTENDS LKLVolume, TLAPS

Early == {"probe", "size", "readkey", "volume"}
Late == {"close", "return"}
Waiting == {"probe", "size", "readkey"} \cup OwnIo

\* What no clean-up removes.
Litter == {"dmnode", "dir"}

Full(r) == IF r.h \in Encrypted THEN Resources ELSE {"disk", "dir", "mount"}

\* What a volume has that clients may use.
Whole(r) == IF halted THEN {} ELSE Full(r)

\* BuiltBottomUp, of one record.
BottomUp(r) ==
    /\ r.has \subseteq Litter \/ "disk" \in r.has
    /\ "dm" \in r.has => "node" \in r.has
    /\ "active" \in r.has => "dm" \in r.has
    /\ "mount" \in r.has => "dir" \in r.has
    /\ "mount" \in r.has /\ r.h \in Encrypted => "active" \in r.has

Covered(r) ==
    /\ "node" \in r.has => "node" \in r.named
    /\ "dm" \in r.has \/ "active" \in r.has => "crypt" \in r.named
    /\ "mount" \in r.has => "mount" \in r.named

WithDm == {{"disk", "node", "dm", "dmnode"}, {"disk", "node", "dm", "dmnode", "active"}}
WithDir == {{"disk", "node", "dm", "dmnode", "dir"}, {"disk", "node", "dm", "dmnode", "active", "dir"}}

Stage(pc, r) ==
    /\ BottomUp(r)
    /\ Covered(r)
    /\ pc = "disk" => r.has = {}
    /\ pc \in {"devid", "node"} => r.has = {"disk"}
    /\ pc = "crypt" => r.has = {"disk", "node"}
    /\ pc \in {"fstype", "mkdir"} => r.has \in WithDm
    /\ pc \in {"devid", "node", "crypt", "fstype", "mkdir"} => r.h \in Encrypted
    /\ pc = "mount" => r.has \in IF r.h \in Encrypted THEN WithDir ELSE {{"disk"}}
    /\ pc \in {"install", "close", "return"} => r.has = Full(r)
    /\ pc = "revert" => "mount" \notin r.has
    /\ pc = "unlink" => r.has \subseteq {"disk", "node"} \cup Litter
    /\ pc = "remove" => r.has \subseteq {"disk"} \cup Litter
    /\ pc = "free" => r.has \subseteq Litter

\* Nobody but the Start that makes it knows of v.
Private(v) ==
    /\ \A h \in Handles : sfs[h] # v
    /\ \A f \in Files : files[f] # v

\* How the members of a call go together.
Shape(c) ==
    /\ c.pc \in Early => c.v = None /\ c.ok
    /\ c.pc \in SetUpSteps => c.v # None /\ c.ok
    /\ c.pc \in CleanUpSteps => c.v # None /\ ~c.ok
    /\ c.pc \in Late => (c.ok <=> c.v # None)
    /\ ~c.fresh => c.pc # "install" /\ (c.pc \in Late => ~c.ok)
    /\ c.pc = "probe" => c.key = None

\* The device of a call whose medium is still there.
DeviceOK(c) ==
    c.fresh => /\ c.h \in diskio
               /\ sfs[c.h] = IF c.pc \in Late THEN c.v ELSE None

VolumeOK(c) ==
    c.v # None =>
        /\ vol[c.v] \in VolumeRecords
        /\ vol[c.v].h = c.h
        /\ c.fresh /\ c.h \in diskio2 => vol[c.v].d2
        /\ Stage(c.pc, vol[c.v])
        /\ c.pc \notin Late => Private(c.v)
        /\ c.pc \in Late => vol[c.v].valid

KeyOK(c) == c.pc = "return" /\ c.key # None => files[c.key] = None \/ c.key \in lost

CallOK(c) == Shape(c) /\ DeviceOK(c) /\ VolumeOK(c) /\ KeyOK(c)

StackOK ==
    /\ \A i \in 1 .. Len(stack) : CallOK(stack[i])
    /\ \A i \in 1 .. Len(stack) : i # Len(stack) => stack[i].pc \in Waiting
    /\ \A i, j \in 1 .. Len(stack) : i < j /\ stack[i].h = stack[j].h => ~stack[i].fresh
    /\ \A i, j \in 1 .. Len(stack) : i # j /\ stack[i].v # None => stack[i].v # stack[j].v

\* The volumes outside of Start, the handles, and what is left in the kernel.
Settled ==
    /\ \A v \in Volumes : vol[v] # None /\ ~InStart(v) => vol[v].has = Whole(vol[v])
    /\ \A h \in Handles : ~StartingOn(h) => (h \in diskio <=> sfs[h] # None)
    /\ diskio2 \subseteq diskio
    /\ left \subseteq Litter

OnHandle ==
    \A h \in Handles : sfs[h] # None =>
        /\ vol[sfs[h]] \in VolumeRecords
        /\ vol[sfs[h]].h = h /\ vol[sfs[h]].valid /\ vol[sfs[h]].has = Whole(vol[sfs[h]])
        /\ h \in diskio /\ (h \in diskio2 => vol[sfs[h]].d2)

Backed ==
    \A f \in Files : files[f] # None =>
        vol[files[f]] \in VolumeRecords /\ (~halted => "mount" \in vol[files[f]].has)

KeysKnown ==
    \A f \in KeyFiles : files[f] # None => f \in lost \/ \E i \in DOMAIN stack : stack[i].key = f

VolumeInv == TypeOK /\ LockOwned /\ StackOK /\ Settled /\ OnHandle /\ Backed /\ KeysKnown

VolumeMaps == [Volumes -> VolumeRecords \cup {None}]

-----------------------------------------------------------------------------
(* The steps of one volume.                                                *)

\* A set-up step that succeeds.
LEMMA StageUp ==
    ASSUME NEW r \in VolumeRecords, NEW q \in VolumeRecords, NEW pc \in SetUpSteps \ {"install"},
           NEW x \in BOOLEAN,
           Stage(pc, r), q.h = r.h, NEW R \in Adds(pc, x), q.has = r.has \cup R,
           q.named = r.named \cup Names(pc) \cup (IF pc = "mount" THEN {"mount"} ELSE {}),
           pc = "mount" /\ r.h \in Encrypted => "active" \in r.has
    PROVE  Stage(After(pc, r.h \in Encrypted), q)
<1>1. CASE pc = "disk"
  BY <1>1 DEF Stage, BottomUp, Covered, Adds, After, Names, WithDm
<1>2. CASE pc = "devid"
  BY <1>2 DEF Stage, BottomUp, Covered, Adds, After, Names
<1>3. CASE pc = "node"
  BY <1>3 DEF Stage, BottomUp, Covered, Adds, After, Names
<1>4. CASE pc = "crypt"
  <2>1. r.has = {"disk", "node"} /\ r.h \in Encrypted /\ Covered(r)
    BY <1>4 DEF Stage
  <2>2. R \in {{"dm", "dmnode"}, {"dm", "dmnode", "active"}}
    BY <1>4 DEF Adds, CryptSuccess
  <2>3. q.has \in WithDm
    BY <2>1, <2>2 DEF WithDm
  <2>4. "node" \in q.named /\ "crypt" \in q.named
    BY <1>4, <2>1 DEF Covered, Names
  <2>5. After(pc, r.h \in Encrypted) = "fstype"
    BY <1>4 DEF After
  <2> QED BY <2>1, <2>3, <2>4, <2>5 DEF Stage, BottomUp, Covered, WithDm
<1>5. CASE pc = "fstype"
  <2>1. q.has = r.has /\ q.named = r.named /\ After(pc, r.h \in Encrypted) = "mkdir"
    BY <1>5 DEF Adds, After, Names
  <2> QED BY <1>5, <2>1 DEF Stage, BottomUp, Covered
<1>6. CASE pc = "mkdir"
  <2>1. r.has \in WithDm /\ r.h \in Encrypted /\ Covered(r)
    BY <1>6 DEF Stage
  <2>2. R = {"dir"} /\ After(pc, r.h \in Encrypted) = "mount"
    BY <1>6 DEF Adds, After
  <2>3. q.has \in WithDir
    BY <2>1, <2>2 DEF WithDm, WithDir
  <2>4. "node" \in q.named /\ "crypt" \in q.named
    BY <1>6, <2>1 DEF Covered, Names, WithDm
  <2> QED BY <2>1, <2>2, <2>3, <2>4 DEF Stage, BottomUp, Covered, WithDir
<1>7. CASE pc = "mount"
  <2>1. R = {"dir", "mount"} /\ After(pc, r.h \in Encrypted) = "install" /\ "mount" \in q.named
    BY <1>7 DEF Adds, After
  <2>2. q.has = Full(q)
    <3>1. CASE r.h \in Encrypted
      <4>1. r.has = {"disk", "node", "dm", "dmnode", "active", "dir"}
        BY <1>7, <3>1 DEF Stage, WithDir
      <4> QED BY <2>1, <3>1, <4>1 DEF Full, Resources
    <3>2. CASE r.h \notin Encrypted
      BY <1>7, <2>1, <3>2 DEF Stage, Full
    <3> QED BY <3>1, <3>2
  <2>3. Covered(q)
    BY <2>1 DEF Stage, Covered
  <2>4. BottomUp(q)
    BY <2>2 DEF Full, BottomUp, Resources
  <2> QED BY <2>1, <2>2, <2>3, <2>4 DEF Stage
<1> QED BY <1>1, <1>2, <1>3, <1>4, <1>5, <1>6, <1>7 DEF SetUpSteps

\* A set-up step that fails.
LEMMA StageFail ==
    ASSUME NEW r \in VolumeRecords, NEW q \in VolumeRecords, NEW pc \in SetUpSteps, NEW x \in BOOLEAN,
           Stage(pc, r), q.h = r.h, NEW R \in Leaves(pc, r.h \in Encrypted, x), q.has = r.has \cup R,
           r.named \cup Names(pc) \subseteq q.named
    PROVE  Stage("umount", q)
<1>1. CASE R = {}
  <2>1. q.has = r.has
    BY <1>1
  <2> QED BY <2>1 DEF Stage, BottomUp, Covered
<1>2. CASE pc = "crypt"
  <2>1. r.has = {"disk", "node"} /\ "node" \in r.named
    BY <1>2 DEF Stage, Covered
  <2>2. R \in {{}, {"dm"}, {"dm", "dmnode"}}
    BY <1>2 DEF Leaves, CryptFailure
  <2>3. q.has \in {{"disk", "node"}, {"disk", "node", "dm"}, {"disk", "node", "dm", "dmnode"}}
    BY <2>1, <2>2
  <2>4. "node" \in q.named /\ "crypt" \in q.named
    BY <1>2, <2>1 DEF Names
  <2> QED BY <2>3, <2>4 DEF Stage, BottomUp, Covered
<1>3. CASE pc = "mount" /\ r.h \notin Encrypted /\ R = {"dir"}
  <2>1. q.has = {"disk", "dir"}
    BY <1>3 DEF Stage
  <2> QED BY <2>1 DEF Stage, BottomUp, Covered
<1>4. R = {} \/ pc = "crypt" \/ (pc = "mount" /\ r.h \notin Encrypted /\ R = {"dir"})
  BY DEF Leaves
<1> QED BY <1>1, <1>2, <1>3, <1>4

\* The steps of the clean-up: what each takes away, and the point after it.
LEMMA StageDown ==
    ASSUME NEW r \in VolumeRecords, NEW q \in VolumeRecords, q.h = r.h, q.named = r.named
    PROVE  /\ /\ Stage("umount", r)
              /\ q.has = IF "mount" \in r.named THEN r.has \ {"mount"} ELSE r.has
              => Stage("revert", q)
           /\ /\ Stage("revert", r)
              /\ q.has = IF "crypt" \in r.named THEN r.has \ {"dm", "active"} ELSE r.has
              => Stage("unlink", q)
           /\ /\ Stage("unlink", r)
              /\ q.has = IF "node" \in r.named THEN r.has \ {"node"} ELSE r.has
              => Stage("remove", q)
           /\ /\ Stage("remove", r)
              /\ q.has = r.has \ {"disk"}
              => Stage("free", q)
<1>0. r.has \subseteq Resources
  BY DEF VolumeRecords
<1>1. ASSUME Stage("umount", r), q.has = IF "mount" \in r.named THEN r.has \ {"mount"} ELSE r.has
      PROVE  Stage("revert", q)
  <2>1. "mount" \notin q.has /\ \A x \in Resources : x # "mount" => (x \in q.has <=> x \in r.has)
    BY <1>1 DEF Stage, Covered
  <2>2. q.has \subseteq Litter \/ "disk" \in q.has
    <3>1. r.has \subseteq Litter => q.has \subseteq Litter
      BY <1>1
    <3> QED BY <1>1, <2>1, <3>1 DEF Stage, BottomUp, Resources
  <2> QED BY <1>1, <2>1, <2>2 DEF Stage, BottomUp, Covered, Resources
<1>2. ASSUME Stage("revert", r), q.has = IF "crypt" \in r.named THEN r.has \ {"dm", "active"} ELSE r.has
      PROVE  Stage("unlink", q)
  <2>1. q.has \subseteq {"disk", "node"} \cup Litter
    BY <1>0, <1>2 DEF Stage, Covered, Resources, Litter
  <2>2. \A x \in {"disk", "node", "dmnode", "dir"} : x \in q.has <=> x \in r.has
    BY <1>2
  <2>3. q.has \subseteq Litter \/ "disk" \in q.has
    <3>1. r.has \subseteq Litter => q.has \subseteq Litter
      BY <1>2
    <3> QED BY <1>2, <2>2, <3>1 DEF Stage, BottomUp
  <2>4. "dm" \notin q.has /\ "active" \notin q.has /\ "mount" \notin q.has
    BY <2>1 DEF Litter
  <2>5. "node" \in q.has => "node" \in q.named
    BY <1>2, <2>2 DEF Stage, Covered
  <2> QED BY <2>1, <2>3, <2>4, <2>5 DEF Stage, BottomUp, Covered
<1>3. ASSUME Stage("unlink", r), q.has = IF "node" \in r.named THEN r.has \ {"node"} ELSE r.has
      PROVE  Stage("remove", q)
  <2>1. q.has \subseteq {"disk"} \cup Litter
    BY <1>3 DEF Stage, Covered
  <2> QED BY <2>1 DEF Stage, BottomUp, Covered, Litter
<1>4. ASSUME Stage("remove", r), q.has = r.has \ {"disk"}
      PROVE  Stage("free", q)
  <2>1. q.has \subseteq Litter
    BY <1>4 DEF Stage
  <2> QED BY <2>1 DEF Stage, BottomUp, Covered, Litter
<1> QED BY <1>1, <1>2, <1>3, <1>4

-----------------------------------------------------------------------------
(* The stack of calls.                                                     *)

\* The innermost call goes on.
LEMMA StackUpdate ==
    ASSUME NEW s \in Seq(Calls), s # << >>, NEW c \in Calls, NEW t, t = [s EXCEPT ![Len(s)] = c]
    PROVE  /\ t \in Seq(Calls) /\ Len(t) = Len(s) /\ t # << >> /\ t[Len(t)] = c
           /\ \A i \in 1 .. Len(s) : i # Len(s) => t[i] = s[i]
OBVIOUS

\* A call is added.
LEMMA StackPush ==
    ASSUME NEW s \in Seq(Calls), NEW c \in Calls, NEW t, t = Append(s, c)
    PROVE  /\ t \in Seq(Calls) /\ Len(t) = Len(s) + 1 /\ t # << >> /\ t[Len(t)] = c
           /\ \A i \in 1 .. Len(s) : t[i] = s[i]
OBVIOUS

LEMMA SeqEmpty ==
    ASSUME NEW S, NEW s \in Seq(S)
    PROVE  s = << >> <=> Len(s) = 0
OBVIOUS

\* A call is gone.
LEMMA StackPop ==
    ASSUME NEW s \in Seq(Calls), s # << >>, NEW t, t = SubSeq(s, 1, Len(s) - 1)
    PROVE  /\ t \in Seq(Calls) /\ Len(t) = Len(s) - 1
           /\ \A i \in 1 .. Len(t) : t[i] = s[i]
           /\ t = << >> <=> Len(s) = 1
<1>1. Len(s) \in Nat \ {0} /\ DOMAIN s = 1 .. Len(s)
  OBVIOUS
<1>2. Len(t) = Len(s) - 1
  BY <1>1
<1>3. \A i \in 1 .. Len(t) : t[i] = s[i]
  BY <1>1, <1>2
<1>4. t \in Seq(Calls)
  BY <1>1
<1>5. t = << >> <=> Len(t) = 0
  BY <1>4, SeqEmpty
<1> QED BY <1>1, <1>2, <1>3, <1>4, <1>5

\* The calls, by number.
LEMMA StackDomain ==
    ASSUME VolumeInv
    PROVE  /\ stack \in Seq(Calls) /\ Len(stack) \in Nat /\ DOMAIN stack = 1 .. Len(stack)
           /\ \A i \in 1 .. Len(stack) : stack[i] \in Calls /\ CallOK(stack[i])
BY DEF VolumeInv, TypeOK, StackOK

\* The innermost call.
LEMMA TopCall ==
    ASSUME VolumeInv, Busy
    PROVE  /\ Len(stack) \in Nat \ {0} /\ stack \in Seq(Calls) /\ Len(stack) \in 1 .. Len(stack)
           /\ Top \in Calls /\ Top = stack[Len(stack)] /\ CallOK(Top) /\ Top.h \in Handles
<1>1. stack \in Seq(Calls) /\ stack # << >>
  BY DEF VolumeInv, TypeOK, Busy
<1>2. Len(stack) \in Nat \ {0} /\ Len(stack) \in 1 .. Len(stack)
  BY <1>1
<1>3. Top \in Calls
  BY <1>1, <1>2 DEF Top
<1> QED BY <1>1, <1>2, <1>3 DEF Top, VolumeInv, StackOK, Calls

\* The calls below it: each waits in a step that does I/O, has a volume of its
\* own if any, and is for another handle if its medium is still there.
LEMMA LowerCalls ==
    ASSUME VolumeInv, NEW i \in 1 .. Len(stack), i # Len(stack)
    PROVE  /\ stack[i] \in Calls /\ CallOK(stack[i]) /\ stack[i].pc \in Waiting
           /\ stack[i].fresh => stack[i].h # Top.h
           /\ stack[i].v # None => stack[i].v # Top.v
<1>1. stack \in Seq(Calls) /\ Len(stack) \in Nat /\ Len(stack) \in 1 .. Len(stack) /\ i < Len(stack)
  BY DEF VolumeInv, TypeOK
<1>2. CallOK(stack[i]) /\ stack[i].pc \in Waiting /\ stack[i] \in Calls
  BY <1>1 DEF VolumeInv, StackOK
<1>3. stack[i].fresh => stack[i].h # Top.h
  BY <1>1 DEF VolumeInv, StackOK, Top
<1>4. stack[i].v # None => stack[i].v # Top.v
  BY <1>1 DEF VolumeInv, StackOK, Top
<1> QED BY <1>2, <1>3, <1>4

LEMMA WaitingPoints == Waiting \cap Late = {} /\ "install" \notin Waiting /\ "return" \notin Waiting
BY DEF Waiting, Late, OwnIo

\* What a waiting call needs of the others.
LEMMA WaitingKept ==
    ASSUME NEW b \in Calls, CallOK(b), b.pc \in Waiting,
           b.fresh => b.h \in diskio' /\ sfs'[b.h] = None /\ (b.h \in diskio2' => b.h \in diskio2),
           b.v # None => vol'[b.v] = vol[b.v] /\ Private(b.v)'
    PROVE  CallOK(b)'
<1>1. b.pc \notin Late /\ b.pc # "return"
  BY WaitingPoints
<1>2. Shape(b)'
  BY DEF CallOK, Shape
<1>3. DeviceOK(b)'
  BY <1>1 DEF DeviceOK
<1>4. KeyOK(b)'
  BY <1>1 DEF KeyOK
<1>5. VolumeOK(b)'
  <2>1. SUFFICES ASSUME b.v # None PROVE VolumeOK(b)'
    BY DEF VolumeOK
  <2>2. /\ vol[b.v] \in VolumeRecords /\ vol[b.v].h = b.h /\ (b.fresh /\ b.h \in diskio2 => vol[b.v].d2)
        /\ Stage(b.pc, vol[b.v])
    BY <2>1 DEF CallOK, VolumeOK
  <2>3. Stage(b.pc, vol[b.v])'
    BY <2>1, <2>2 DEF Stage, BottomUp, Covered, Full
  <2> QED BY <1>1, <2>1, <2>2, <2>3 DEF VolumeOK, Private
<1> QED BY <1>2, <1>3, <1>4, <1>5 DEF CallOK

-----------------------------------------------------------------------------
\* How the Linux kernel's litter and the lost key files may change.
Grows == left' \subseteq Litter /\ lost \subseteq lost' /\ lost' \subseteq KeyFiles

\* How the files may change while the innermost call goes on as c.
FilesStep(c) ==
    /\ files' \in [Files -> Volumes \cup {None}]
    /\ \A f \in Files : files'[f] \in {None, files[f]} \/ \E h \in Handles : sfs[h] = files'[f] /\ vol' = vol
    /\ \A f \in KeyFiles : files'[f] # None => files[f] # None \/ f = c.key
    /\ Top.key = None \/ c.key = Top.key

\* The innermost call goes on as c: the calls below it are not concerned, and
\* the invariant is kept if it holds for c and other volumes stay as they are.
LEMMA ContinueInv ==
    ASSUME VolumeInv, Busy, ~halted, NEW c \in Calls, Continue(c),
           c.h = Top.h, c.mine = Top.mine, c.fresh = Top.fresh,
           UNCHANGED <<diskio, diskio2, lock, halted>>, Grows, FilesStep(c),
           sfs' \in [Handles -> Volumes \cup {None}],
           vol' \in [Volumes -> VolumeRecords \cup {None}],
           sfs' = sfs \/ (Top.fresh /\ sfs'[Top.h] = Top.v /\ \A h \in Handles : h # Top.h => sfs'[h] = sfs[h]),
           \A w \in Volumes : w # Top.v /\ w # c.v => vol'[w] = vol[w],
           Top.v # c.v /\ Top.v # None => vol'[Top.v] = None,
           Top.v # c.v /\ c.v # None => vol[c.v] = None,
           Top.v # None => Private(Top.v) \/ vol' = vol,
           CallOK(c)'
    PROVE  VolumeInv'
<1>1. /\ stack' \in Seq(Calls) /\ Len(stack') = Len(stack) /\ stack' # << >> /\ stack'[Len(stack')] = c
      /\ \A i \in 1 .. Len(stack) : i # Len(stack) => stack'[i] = stack[i]
  BY TopCall, StackUpdate DEF Continue, Busy
<1>2. /\ Len(stack) \in Nat \ {0} /\ Top \in Calls /\ Top = stack[Len(stack)] /\ CallOK(Top)
      /\ Len(stack) \in 1 .. Len(stack) /\ Top.h \in Handles
  BY TopCall
<1>d. DOMAIN stack = 1 .. Len(stack) /\ DOMAIN stack' = 1 .. Len(stack)
  BY <1>1, TopCall
<1>3. TypeOK'
  BY <1>1 DEF VolumeInv, TypeOK, Grows, FilesStep, Litter, Resources
<1>4. LockOwned'
  <2>2. \A i \in 1 .. Len(stack) : stack'[i].mine = stack[i].mine
    BY <1>1, <1>2
  <2>3. (lock <=> Busy) /\ \A i \in 1 .. Len(stack) : stack[i].mine <=> i = 1
    BY <1>d DEF VolumeInv, LockOwned
  <2>4. lock' <=> Busy'
    BY <1>1, <2>3 DEF Busy
  <2> QED BY <1>d, <2>2, <2>3, <2>4 DEF LockOwned
<1>5. ASSUME NEW i \in 1 .. Len(stack), i # Len(stack)
      PROVE  CallOK(stack[i])' /\ (stack[i].v # None => stack[i].v # c.v)
  <2>1. PICK b : b = stack[i]
    OBVIOUS
  <2>2. stack'[i] = b
    BY <1>1, <1>5, <2>1
  <2>3. /\ b \in Calls /\ CallOK(b) /\ b.pc \in Waiting /\ (b.fresh => b.h # Top.h)
        /\ (b.v # None => b.v # Top.v)
    BY <1>5, <2>1, LowerCalls
  <2>4. b.fresh => b.h \in diskio' /\ sfs'[b.h] = None
    <3>1. b.fresh => b.h \in diskio /\ sfs[b.h] = None /\ b.h \in Handles
      BY <2>3, WaitingPoints DEF CallOK, DeviceOK, Calls
    <3> QED BY <2>3, <3>1
  <2>5. ASSUME b.v # None PROVE vol'[b.v] = vol[b.v] /\ Private(b.v)' /\ b.v # c.v
    <3>1. b.v \in Volumes /\ vol[b.v] \in VolumeRecords /\ Private(b.v)
      BY <2>3, <2>5, WaitingPoints DEF CallOK, VolumeOK, Calls
    <3>2. b.v # c.v
      BY <2>3, <2>5, <3>1, VolumeAssumption
    <3>3. vol'[b.v] = vol[b.v]
      BY <2>3, <2>5, <3>1, <3>2
    <3>4. \A h \in Handles : sfs'[h] # b.v
      BY <2>3, <2>5, <3>1 DEF Private
    <3>5. \A f \in Files : files'[f] # b.v
      BY <2>5, <3>1 DEF Private, FilesStep
    <3> QED BY <3>2, <3>3, <3>4, <3>5 DEF Private
  <2>6. CallOK(b)'
    BY <2>3, <2>4, <2>5, WaitingKept
  <2>7. CallOK(stack[i])'
    BY <2>2, <2>6 DEF CallOK, Shape, DeviceOK, VolumeOK, KeyOK, Private
  <2> QED BY <2>1, <2>5, <2>7
<1>6. StackOK'
  <2>1. \A i \in 1 .. Len(stack) : stack'[i].h = stack[i].h /\ stack'[i].fresh = stack[i].fresh
    BY <1>1, <1>2
  <2>2. \A i, j \in 1 .. Len(stack') : i < j /\ stack'[i].h = stack'[j].h => ~stack'[i].fresh
    BY <1>1, <2>1 DEF VolumeInv, StackOK
  <2>3. \A i \in 1 .. Len(stack') : i # Len(stack') => stack'[i].pc \in Waiting
    BY <1>1 DEF VolumeInv, StackOK
  <2>4. ASSUME NEW i \in 1 .. Len(stack') PROVE CallOK(stack[i])'
    <3>1. CASE i # Len(stack)
      BY <1>1, <1>5, <3>1
    <3>2. CASE i = Len(stack)
      <4>1. stack'[i] = c
        BY <1>1, <3>2
      <4> QED BY <4>1 DEF CallOK, Shape, DeviceOK, VolumeOK, KeyOK, Private
    <3> QED BY <3>1, <3>2
  <2>5. ASSUME NEW i \in 1 .. Len(stack'), NEW j \in 1 .. Len(stack'), i # j, stack'[i].v # None
        PROVE  stack'[i].v # stack'[j].v
    <3>1. CASE i # Len(stack) /\ j # Len(stack)
      <4>1. stack'[i] = stack[i] /\ stack'[j] = stack[j]
        BY <1>1, <3>1
      <4> QED BY <1>1, <2>5, <4>1 DEF VolumeInv, StackOK
    <3>2. CASE i # Len(stack) /\ j = Len(stack)
      BY <1>1, <1>5, <2>5, <3>2
    <3>3. CASE i = Len(stack) /\ j # Len(stack)
      BY <1>1, <1>5, <2>5, <3>3
    <3> QED BY <2>5, <3>1, <3>2, <3>3
  <2> QED BY <2>2, <2>3, <2>4, <2>5 DEF StackOK
<1>8. Settled'
  <2>2. ASSUME NEW v \in Volumes, vol'[v] # None, ~InStart(v)' PROVE vol'[v].has = Whole(vol'[v])
    <3>1. \A i \in 1 .. Len(stack) : stack'[i].v # v
      BY <1>d, <2>2 DEF InStart
    <3>2. v # c.v
      BY <1>1, <1>2, <3>1
    <3>3. v # Top.v /\ vol'[v] = vol[v]
      BY <2>2, <3>2, VolumeAssumption
    <3>4. \A i \in 1 .. Len(stack) : stack[i].v # v
      BY <1>1, <1>2, <3>1, <3>3
    <3>5. ~InStart(v)
      BY <1>d, <3>4 DEF InStart
    <3> QED BY <2>2, <3>3, <3>5 DEF VolumeInv, Settled
  <2>3. ASSUME NEW h \in Handles, ~StartingOn(h)' PROVE h \in diskio' <=> sfs'[h] # None
    <3>1. \A i \in 1 .. Len(stack) : stack'[i].h = stack[i].h /\ stack'[i].fresh = stack[i].fresh
      BY <1>1, <1>2
    <3>2. ~StartingOn(h) /\ ~(h = Top.h /\ Top.fresh)
      BY <1>2, <1>d, <2>3, <3>1 DEF StartingOn
    <3>3. h \in diskio <=> sfs[h] # None
      BY <3>2 DEF VolumeInv, Settled
    <3>4. sfs'[h] = sfs[h]
      BY <3>2
    <3> QED BY <3>3, <3>4
  <2>4. (diskio2 \subseteq diskio)' /\ left' \subseteq Litter
    BY DEF VolumeInv, Settled, Grows
  <2>5. \A v \in Volumes : vol'[v] # None /\ ~InStart(v)' => vol'[v].has = Whole(vol'[v])
    BY <2>2
  <2>6. \A h \in Handles : ~StartingOn(h)' => (h \in diskio' <=> sfs'[h] # None)
    BY <2>3
  <2> QED BY <2>4, <2>5, <2>6 DEF Settled, Whole, Full
<1>9. OnHandle'
  <2> SUFFICES ASSUME NEW h \in Handles, sfs'[h] # None
               PROVE  /\ vol'[sfs'[h]] \in VolumeRecords
                      /\ vol'[sfs'[h]].h = h /\ vol'[sfs'[h]].valid /\ vol'[sfs'[h]].has = Whole(vol'[sfs'[h]])
                      /\ h \in diskio' /\ (h \in diskio2' => vol'[sfs'[h]].d2)
    BY DEF OnHandle, Whole, Full
  <2>1. CASE h = Top.h /\ Top.fresh
    <3>0. DeviceOK(c)' /\ VolumeOK(c)'
      BY DEF CallOK
    <3>1. c.pc \in Late /\ sfs'[h] = c.v /\ c.v # None /\ c.h \in diskio'
      BY <2>1, <3>0 DEF DeviceOK
    <3>2. /\ vol'[c.v] \in VolumeRecords /\ vol'[c.v].h = c.h
          /\ (c.h \in diskio2' => vol'[c.v].d2) /\ vol'[c.v].valid
      BY <2>1, <3>0, <3>1 DEF VolumeOK
    <3>3. Stage(c.pc, vol[c.v])'
      BY <3>0, <3>1 DEF VolumeOK
    <3>4. vol'[c.v].has = Whole(vol'[c.v])
      BY <3>1, <3>3 DEF Stage, Late, Full, Whole
    <3> QED BY <2>1, <3>1, <3>2, <3>4
  <2>2. CASE ~(h = Top.h /\ Top.fresh)
    <3> DEFINE w == sfs[h]
    <3>1. sfs'[h] = w /\ w # None /\ w \in Volumes
      BY <2>2 DEF VolumeInv, TypeOK
    <3>2. /\ vol[w] \in VolumeRecords /\ vol[w].h = h /\ vol[w].valid /\ vol[w].has = Whole(vol[w])
          /\ h \in diskio /\ (h \in diskio2 => vol[w].d2)
      BY <3>1 DEF VolumeInv, OnHandle
    <3> HIDE DEF w
    <3>3. w # Top.v
      <4>1. CASE h # Top.h
        BY <1>2, <3>1, <3>2, <4>1 DEF CallOK, VolumeOK
      <4>2. CASE ~Top.fresh
        <5>1. Top.v # None => Top.pc \notin Late
          BY <1>2, <4>2 DEF CallOK, Shape
        <5>2. Top.v # None => Private(Top.v)
          BY <1>2, <5>1 DEF CallOK, VolumeOK
        <5>3. sfs[h] = w
          BY DEF w
        <5> QED BY <3>1, <5>2, <5>3 DEF Private
      <4> QED BY <2>2, <4>1, <4>2
    <3>4. w # c.v
      BY <3>1, <3>2, <3>3, VolumeAssumption
    <3>5. vol'[w] = vol[w]
      BY <3>1, <3>3, <3>4
    <3>6. Whole(vol[w]) = Whole(vol'[w])
      BY <3>5
    <3> QED BY <3>1, <3>2, <3>5, <3>6
  <2> QED BY <2>1, <2>2
<1>10. Backed'
  <2> SUFFICES ASSUME NEW f \in Files, files'[f] # None
               PROVE  vol'[files'[f]] \in VolumeRecords /\ "mount" \in vol'[files'[f]].has
    BY DEF Backed
  <2> DEFINE w == files'[f]
  <2>1. CASE w = files[f]
    <3>1. w \in Volumes /\ vol[w] \in VolumeRecords /\ "mount" \in vol[w].has
      BY <2>1 DEF VolumeInv, Backed, TypeOK
    <3>2. w = Top.v => vol' = vol
      BY <2>1, <3>1, VolumeAssumption DEF Private
    <3>3. w # c.v \/ w = Top.v
      BY <3>1, VolumeAssumption
    <3>4. w # Top.v => vol'[w] = vol[w]
      BY <3>1, <3>3
    <3> QED BY <3>1, <3>2, <3>4
  <2>2. CASE \E h \in Handles : sfs[h] = w /\ vol' = vol
    <3>1. PICK h \in Handles : sfs[h] = w /\ vol' = vol
      BY <2>2
    <3>2. vol[w] \in VolumeRecords /\ vol[w].has = Full(vol[w])
      BY <3>1 DEF VolumeInv, OnHandle, Whole
    <3>3. "mount" \in vol[w].has
      BY <3>2 DEF Full, Resources
    <3> QED BY <3>1, <3>2, <3>3
  <2>3. w \in {None, files[f]} \/ \E h \in Handles : sfs[h] = w /\ vol' = vol
    BY DEF FilesStep
  <2> QED BY <2>1, <2>2, <2>3
<1>11. KeysKnown'
  <2> SUFFICES ASSUME NEW f \in KeyFiles, files'[f] # None, f \notin lost'
               PROVE  \E i \in DOMAIN stack' : stack'[i].key = f
    BY DEF KeysKnown
  <2>1. CASE f = c.key
    BY <1>1, <1>2, <1>d, <2>1
  <2>2. CASE files[f] # None
    <3>1. PICK i \in 1 .. Len(stack) : stack[i].key = f
      BY <1>d, <2>2 DEF VolumeInv, KeysKnown, Grows
    <3>2. CASE i = Len(stack)
      <4>1. c.key = f
        BY <1>2, <3>1, <3>2, VolumeAssumption DEF FilesStep
      <4> QED BY <1>1, <1>2, <1>d, <4>1
    <3>3. CASE i # Len(stack)
      BY <1>1, <1>d, <3>1, <3>3
    <3> QED BY <3>2, <3>3
  <2> QED BY <2>1, <2>2 DEF FilesStep
<1> QED BY <1>3, <1>4, <1>6, <1>8, <1>9, <1>10, <1>11 DEF VolumeInv

-----------------------------------------------------------------------------
(* The steps of Start, by what they do to its volume.                      *)

\* A call that has no volume goes on without one.
LEMMA NoVolumeStep ==
    ASSUME VolumeInv, Busy, ~halted, NEW c \in Calls, Continue(c),
           c.h = Top.h, c.mine = Top.mine, c.fresh = Top.fresh,
           UNCHANGED <<diskio, diskio2, sfs, vol, left, lock, halted>>, Grows, FilesStep(c),
           Top.v = None, c.v = None, Top.pc \in Early, c.pc \in Early \cup Late, c.pc # "probe",
           c.ok <=> c.pc \in Early, KeyOK(c)'
    PROVE  VolumeInv'
<1>1. CallOK(Top)
  BY TopCall
<1>2. Shape(c)'
  BY DEF Shape, Early, Late, SetUpSteps, CleanUpSteps
<1>3. DeviceOK(c)'
  BY <1>1 DEF CallOK, DeviceOK, Early, Late
<1>4. CallOK(c)'
  BY <1>2, <1>3 DEF CallOK, VolumeOK
<1>5. sfs' \in [Handles -> Volumes \cup {None}] /\ vol' \in [Volumes -> VolumeRecords \cup {None}]
  BY DEF VolumeInv, TypeOK
<1> QED BY <1>4, <1>5, ContinueInv

\* A call keeps its volume, and nobody else has it.
LEMMA VolumeStep ==
    ASSUME VolumeInv, Busy, ~halted, NEW c \in Calls, Continue(c),
           c.h = Top.h, c.mine = Top.mine, c.fresh = Top.fresh, c.key = Top.key,
           UNCHANGED <<diskio, diskio2, sfs, files, left, lost, lock, halted>>,
           vol' \in VolumeMaps, c.v = Top.v, \A w \in Volumes : w # Top.v => vol'[w] = vol[w],
           vol'[Top.v] \in VolumeRecords, vol'[Top.v].h = vol[Top.v].h, vol'[Top.v].d2 = vol[Top.v].d2,
           Stage(c.pc, vol'[Top.v]),
           Top.pc \in SetUpSteps \cup CleanUpSteps, c.pc \in SetUpSteps \cup CleanUpSteps,
           c.pc = "install" => Top.fresh,
           c.ok <=> c.pc \in SetUpSteps
    PROVE  VolumeInv'
<1>1. CallOK(Top)
  BY TopCall
<1>2. /\ c.pc \notin Early /\ c.pc \notin Late /\ c.pc # "return" /\ Top.pc \notin Late /\ c.pc # "probe"
      /\ (c.pc \in SetUpSteps => c.pc \notin CleanUpSteps)
  BY DEF SetUpSteps, CleanUpSteps, Early, Late
<1>3. Top.v # None /\ VolumeOK(Top) /\ Private(Top.v)
  BY <1>1, <1>2 DEF CallOK, VolumeOK, Shape
<1>4. VolumeOK(c)'
  BY <1>2, <1>3 DEF VolumeOK, Private, Stage, BottomUp, Covered, Full
<1>5. Shape(c)'
  BY <1>2, <1>3 DEF Shape
<1>6. DeviceOK(c)' /\ KeyOK(c)'
  BY <1>1, <1>2 DEF CallOK, DeviceOK, KeyOK
<1>7. CallOK(c)'
  BY <1>4, <1>5, <1>6 DEF CallOK
<1>8. sfs' \in [Handles -> Volumes \cup {None}] /\ Grows
  BY DEF VolumeInv, TypeOK, Grows, Settled
<1>9. FilesStep(c)
  BY DEF FilesStep, VolumeInv, TypeOK
<1> QED BY <1>3, <1>7, <1>8, <1>9, ContinueInv DEF VolumeMaps

-----------------------------------------------------------------------------
(* The actions.                                                            *)

\* The innermost call fails or goes on without a volume, its key file as before.
LEMMA NoVolumeGoes ==
    ASSUME VolumeInv, Busy, ~halted, Top.v = None, Top.ok, Top.pc \in Early,
           UNCHANGED <<diskio, diskio2, sfs, vol, files, left, lock, halted>>,
           lost \subseteq lost', lost' \subseteq KeyFiles,
           NEW p, \/ p \in {"readkey", "volume"} /\ GoTo(p)
                  \/ p = "close" /\ FailTo(p)
                  \/ p = "return" /\ FailTo(p) /\ (Top.key # None => Top.key \in lost')
    PROVE  VolumeInv'
<1>1. Top \in Calls
  BY TopCall
<1>2. PICK c : c = IF p \in Early THEN [Top EXCEPT !.pc = p] ELSE [Top EXCEPT !.pc = p, !.ok = FALSE]
  OBVIOUS
<1>3. Continue(c)
  BY <1>2 DEF GoTo, FailTo, Early
<1>4. /\ c \in Calls /\ c.h = Top.h /\ c.mine = Top.mine /\ c.fresh = Top.fresh /\ c.key = Top.key
      /\ c.pc = p /\ c.v = None /\ (c.ok <=> p \in Early)
  BY <1>1, <1>2 DEF Calls, Points, Early
<1>5. Grows
  BY DEF VolumeInv, Settled, Grows
<1>6. FilesStep(c)
  BY <1>4 DEF VolumeInv, TypeOK, FilesStep
<1>7. KeyOK(c)'
  BY <1>4 DEF KeyOK
<1>8. c.pc \in Early \cup Late /\ c.pc # "probe"
  BY <1>4 DEF Early, Late
<1> QED BY <1>3, <1>4, <1>5, <1>6, <1>7, <1>8, NoVolumeStep

LEMMA ProbeInv ==
    ASSUME VolumeInv, Probe
    PROVE  VolumeInv'
<1>1. Busy /\ ~halted /\ Top \in Calls /\ Top.pc = "probe" /\ CallOK(Top)
  BY TopCall DEF Probe, AtPoint
<1>2. Top.v = None /\ Top.ok /\ Top.key = None /\ Top.pc \in Early
  BY <1>1 DEF CallOK, Shape, Early
<1>3. UNCHANGED <<diskio, diskio2, sfs, vol, left, lock, halted>> /\ UNCHANGED lost
  BY DEF Probe
<1>4. /\ files \in [Files -> Volumes \cup {None}] /\ sfs \in [Handles -> Volumes \cup {None}]
      /\ lost \subseteq KeyFiles
  BY DEF VolumeInv, TypeOK
<1>5. CASE FailTo("return") /\ UNCHANGED files
  BY <1>1, <1>2, <1>3, <1>4, <1>5, NoVolumeGoes
<1>6. CASE GoTo("volume") /\ UNCHANGED files
  BY <1>1, <1>2, <1>3, <1>4, <1>6, NoVolumeGoes
<1>7. ASSUME NEW f \in KeyFiles, NEW v \in GetFileFromAnyPartition, files' = [files EXCEPT ![f] = v],
             Continue([Top EXCEPT !.pc = "size", !.key = f])
      PROVE  VolumeInv'
  <2>1. PICK c : c = [Top EXCEPT !.pc = "size", !.key = f]
    OBVIOUS
  <2>2. Continue(c)
    BY <1>7, <2>1
  <2>3. /\ c \in Calls /\ c.h = Top.h /\ c.mine = Top.mine /\ c.fresh = Top.fresh /\ c.pc = "size"
        /\ c.ok /\ c.v = None /\ c.key = f
    BY <1>1, <1>2, <2>1 DEF Calls, Points
  <2>4. PICK h \in Handles : sfs[h] = v
    BY <1>7 DEF GetFileFromAnyPartition
  <2>5. f \in Files /\ v \in Volumes \cup {None} /\ KeyFiles \subseteq Files
    BY <1>4, <2>4 DEF Files
  <2>6. files' \in [Files -> Volumes \cup {None}] /\ \A g \in Files : files'[g] = IF g = f THEN v ELSE files[g]
    BY <1>4, <1>7, <2>5
  <2>7. FilesStep(c)
    BY <1>2, <1>3, <2>3, <2>4, <2>5, <2>6 DEF FilesStep
  <2>8. Grows /\ KeyOK(c)'
    BY <1>3, <1>4, <2>3 DEF VolumeInv, Settled, Grows, KeyOK
  <2> QED BY <1>1, <1>2, <1>3, <2>2, <2>3, <2>7, <2>8, NoVolumeStep DEF Early, Late
<1> QED BY <1>5, <1>6, <1>7 DEF Probe

\* ReturnAtOnce gives up the key file.
LEMMA LostKey ==
    ASSUME VolumeInv, Top \in Calls, ReturnAtOnce
    PROVE  FailTo("return") /\ lost \subseteq lost' /\ lost' \subseteq KeyFiles /\ (Top.key # None => Top.key \in lost')
BY DEF ReturnAtOnce, VolumeInv, TypeOK, Calls

LEMMA GetKeyInv ==
    ASSUME VolumeInv, GetKey
    PROVE  VolumeInv'
<1>1. Busy /\ ~halted /\ Top \in Calls /\ Top.pc \in {"size", "readkey"} /\ CallOK(Top)
  BY TopCall DEF GetKey, AtPoint
<1>2. Top.v = None /\ Top.ok /\ Top.pc \in Early
  BY <1>1 DEF CallOK, Shape, Early
<1>3. UNCHANGED <<diskio, diskio2, sfs, vol, files, left, lock, halted>>
  BY DEF GetKey
<1>4. lost \subseteq KeyFiles
  BY DEF VolumeInv, TypeOK
<1>5. CASE ReturnAtOnce
  BY <1>1, <1>2, <1>3, <1>5, LostKey, NoVolumeGoes
<1>6. CASE UNCHANGED lost /\ (GoTo("readkey") \/ GoTo("volume") \/ FailTo("close"))
  BY <1>1, <1>2, <1>3, <1>4, <1>6, NoVolumeGoes
<1> QED BY <1>5, <1>6 DEF GetKey

LEMMA AllocateVolumeInv ==
    ASSUME VolumeInv, AllocateVolume
    PROVE  VolumeInv'
<1>1. Busy /\ ~halted /\ Top \in Calls /\ Top.pc = "volume" /\ CallOK(Top) /\ Top.h \in Handles
  BY TopCall DEF AllocateVolume, AtPoint, Calls
<1>2. Top.v = None /\ Top.ok /\ Top.pc \in Early /\ Top.pc \notin Late
  BY <1>1 DEF CallOK, Shape, Early, Late
<1>3. UNCHANGED <<diskio, diskio2, sfs, files, left, lock, halted>>
  BY DEF AllocateVolume
<1>4. /\ files \in [Files -> Volumes \cup {None}] /\ vol \in VolumeMaps
      /\ sfs \in [Handles -> Volumes \cup {None}] /\ lost \subseteq KeyFiles
  BY DEF VolumeInv, TypeOK, VolumeMaps
<1>5. CASE ReturnAtOnce /\ UNCHANGED vol
  BY <1>1, <1>2, <1>3, <1>5, LostKey, NoVolumeGoes
<1>6. ASSUME NEW v \in Volumes, vol[v] = None, vol' = [vol EXCEPT ![v] = NewVolume(Top.h)],
             Continue([Top EXCEPT !.pc = "disk", !.v = v]), UNCHANGED lost
      PROVE  VolumeInv'
  <2>1. PICK c : c = [Top EXCEPT !.pc = "disk", !.v = v]
    OBVIOUS
  <2>2. Continue(c)
    BY <1>6, <2>1
  <2>3. /\ c \in Calls /\ c.h = Top.h /\ c.mine = Top.mine /\ c.fresh = Top.fresh /\ c.key = Top.key
        /\ c.pc = "disk" /\ c.ok /\ c.v = v
    BY <1>1, <1>2, <2>1 DEF Calls, Points, SetUpSteps
  <2>4. PICK r : r = NewVolume(Top.h)
    OBVIOUS
  <2>5. /\ r \in VolumeRecords /\ r.h = Top.h /\ r.d2 = (Top.h \in diskio2) /\ r.has = {} /\ r.named = {}
    BY <1>1, <2>4 DEF NewVolume, VolumeRecords
  <2>6. vol' \in VolumeMaps /\ vol'[v] = r /\ \A w \in Volumes : w # v => vol'[w] = vol[w]
    BY <1>4, <1>6, <2>4, <2>5 DEF VolumeMaps
  <2>7. v # None /\ vol[v] \notin VolumeRecords
    BY <1>6, VolumeAssumption
  <2>8. Private(v)
    BY <2>7 DEF VolumeInv, OnHandle, Backed, Private
  <2>9. Stage("disk", r)
    BY <2>5 DEF Stage, BottomUp, Covered
  <2>10. VolumeOK(c)'
    <3>1. Private(v)'
      BY <1>3, <2>8 DEF Private
    <3>2. Stage(c.pc, vol[c.v])'
      BY <2>3, <2>6, <2>9 DEF Stage, BottomUp, Covered, Full
    <3> QED BY <1>3, <2>3, <2>5, <2>6, <3>1, <3>2 DEF VolumeOK, Late, Private
  <2>11. Shape(c)'
    BY <2>3, <2>7 DEF Shape, SetUpSteps, CleanUpSteps, Early, Late
  <2>12. DeviceOK(c)' /\ KeyOK(c)'
    BY <1>1, <1>2, <1>3, <2>3 DEF CallOK, DeviceOK, KeyOK, Late
  <2>13. CallOK(c)'
    BY <2>10, <2>11, <2>12 DEF CallOK
  <2>14. Grows /\ FilesStep(c)
    BY <1>3, <1>4, <1>6, <2>3 DEF VolumeInv, Settled, Grows, FilesStep
  <2> QED BY <1>1, <1>2, <1>3, <1>4, <1>6, <2>2, <2>3, <2>6, <2>13, <2>14, ContinueInv DEF VolumeMaps
<1> QED BY <1>5, <1>6 DEF AllocateVolume

\* The innermost call while it sets up or cleans up a volume.
LEMMA AtWork ==
    ASSUME VolumeInv, Busy, Top.pc \in SetUpSteps \cup CleanUpSteps
    PROVE  /\ Top \in Calls /\ Top.v \in Volumes /\ Top.h \in Handles /\ vol \in VolumeMaps
           /\ vol[Top.v] \in VolumeRecords /\ vol[Top.v].h = Top.h
           /\ Top.fresh /\ Top.h \in diskio2 => vol[Top.v].d2
           /\ vol[Top.v].has \subseteq Resources /\ vol[Top.v].named \subseteq {"node", "crypt", "mount"}
           /\ Stage(Top.pc, vol[Top.v]) /\ Private(Top.v)
           /\ (Top.ok <=> Top.pc \in SetUpSteps) /\ DeviceOK(Top) /\ Shape(Top) /\ Top.pc \notin Late
<1>1. Top \in Calls /\ CallOK(Top) /\ Top.h \in Handles
  BY TopCall
<1>2. Top.pc \notin Early /\ Top.pc \notin Late /\ (Top.pc \in SetUpSteps => Top.pc \notin CleanUpSteps)
  BY DEF SetUpSteps, CleanUpSteps, Early, Late
<1>3. /\ Top.v # None /\ VolumeOK(Top) /\ (Top.ok <=> Top.pc \in SetUpSteps) /\ DeviceOK(Top) /\ Shape(Top)
  BY <1>1, <1>2 DEF CallOK, Shape
<1>4. Top.v \in Volumes /\ vol \in VolumeMaps
  BY <1>1, <1>3 DEF Calls, VolumeInv, TypeOK, VolumeMaps
<1>5. /\ vol[Top.v] \in VolumeRecords /\ vol[Top.v].h = Top.h /\ Stage(Top.pc, vol[Top.v]) /\ Private(Top.v)
      /\ Top.fresh /\ Top.h \in diskio2 => vol[Top.v].d2
  BY <1>2, <1>3 DEF VolumeOK
<1>6. vol[Top.v].has \subseteq Resources /\ vol[Top.v].named \subseteq {"node", "crypt", "mount"}
  BY <1>5 DEF VolumeRecords
<1> QED BY <1>1, <1>2, <1>3, <1>4, <1>5, <1>6

\* What a step adds and names.
LEMMA StepTypes ==
    ASSUME NEW pc \in SetUpSteps \ {"install"}, NEW e \in BOOLEAN, NEW x \in BOOLEAN
    PROVE  /\ After(pc, e) \in SetUpSteps
           /\ After(pc, e) = "install" => pc = "mount"
           /\ Names(pc) \subseteq {"node", "crypt", "mount"}
           /\ \A r \in Adds(pc, x) : r \subseteq Resources
           /\ \A r \in Leaves(pc, e, x) : r \subseteq Resources
<1>1. After(pc, e) \in SetUpSteps /\ (After(pc, e) = "install" => pc = "mount")
  BY DEF After, SetUpSteps
<1>2. Names(pc) \subseteq {"node", "crypt", "mount"}
  BY DEF Names, SetUpSteps
<1>3. \A r \in Adds(pc, x) : r \subseteq Resources
  BY DEF Adds, SetUpSteps, CryptSuccess, Resources
<1>4. \A r \in Leaves(pc, e, x) : r \subseteq Resources
  BY DEF Leaves, SetUpSteps, CryptFailure, Resources
<1> QED BY <1>1, <1>2, <1>3, <1>4

LEMMA SetUpInv ==
    ASSUME VolumeInv, SetUp
    PROVE  VolumeInv'
<1> DEFINE v == Top.v
           pc == Top.pc
           enc == Top.h \in Encrypted
           Grow(r, names) == vol' = [vol EXCEPT ![v].has = @ \cup r,
                                                ![v].named = @ \cup Names(pc) \cup names]
<1>1. /\ Busy /\ ~halted /\ pc \in SetUpSteps \ {"install"}
      /\ UNCHANGED <<diskio, diskio2, sfs, files, left, lost, lock, halted>>
  BY DEF SetUp
<1>2. /\ Top \in Calls /\ v \in Volumes /\ vol \in VolumeMaps /\ vol[v] \in VolumeRecords /\ vol[v].h = Top.h
      /\ vol[v].has \subseteq Resources /\ vol[v].named \subseteq {"node", "crypt", "mount"}
      /\ Stage(pc, vol[v]) /\ Top.ok
  BY <1>1, AtWork
<1>3. ASSUME NEW r \in SUBSET Resources, NEW names \in SUBSET {"mount"}, Grow(r, names)
      PROVE  /\ vol' \in VolumeMaps /\ vol'[v] \in VolumeRecords /\ \A w \in Volumes : w # v => vol'[w] = vol[w]
             /\ vol'[v].h = vol[v].h /\ vol'[v].d2 = vol[v].d2 /\ vol'[v].has = vol[v].has \cup r
             /\ vol'[v].named = vol[v].named \cup Names(pc) \cup names
  <2> DEFINE H == vol[v].has \cup r
             N == vol[v].named \cup Names(pc) \cup names
             q == [vol[v] EXCEPT !.has = H, !.named = N]
  <2>1. H \in SUBSET Resources /\ N \in SUBSET {"node", "crypt", "mount"}
    BY <1>1, <1>2, StepTypes
  <2>2. vol' = [vol EXCEPT ![v] = q]
    <3>1. vol' = [vol EXCEPT ![v].has = H, ![v].named = N]
      BY <1>2, <1>3 DEF VolumeMaps, VolumeRecords
    <3> HIDE DEF H, N
    <3> QED BY <1>2, <3>1 DEF VolumeMaps, VolumeRecords
  <2>3. q \in VolumeRecords /\ q.h = vol[v].h /\ q.d2 = vol[v].d2 /\ q.has = H /\ q.named = N
    <3> HIDE DEF H, N
    <3> QED BY <1>2, <2>1 DEF VolumeRecords
  <2> HIDE DEF q
  <2>4. vol' \in VolumeMaps /\ vol'[v] = q /\ \A w \in Volumes : w # v => vol'[w] = vol[w]
    BY <1>2, <2>2, <2>3 DEF VolumeMaps
  <2> QED BY <2>3, <2>4
<1> HIDE DEF Grow
<1>4. ASSUME NEW x \in BOOLEAN, NEW r \in Adds(pc, x),
             pc = "mount" => Top.fresh /\ (enc => "active" \in vol[v].has),
             Grow(r, IF pc = "mount" THEN {"mount"} ELSE {}),
             GoTo(After(pc, enc))
      PROVE  VolumeInv'
  <2>0. enc \in BOOLEAN
    OBVIOUS
  <2>1. /\ r \in SUBSET Resources /\ After(pc, enc) \in SetUpSteps /\ After(pc, enc) \in Points
        /\ After(pc, enc) = "install" => pc = "mount"
    <3> HIDE DEF enc, pc
    <3> QED BY <1>1, <1>4, <2>0, StepTypes DEF Points
  <2>2. /\ vol' \in VolumeMaps /\ vol'[v] \in VolumeRecords /\ \A w \in Volumes : w # v => vol'[w] = vol[w]
        /\ vol'[v].h = vol[v].h /\ vol'[v].d2 = vol[v].d2 /\ vol'[v].has = vol[v].has \cup r
        /\ vol'[v].named = vol[v].named \cup Names(pc) \cup (IF pc = "mount" THEN {"mount"} ELSE {})
    <3>1. (IF pc = "mount" THEN {"mount"} ELSE {}) \in SUBSET {"mount"}
      OBVIOUS
    <3> QED BY <1>3, <1>4, <2>1, <3>1
  <2>3. Stage(After(pc, vol[v].h \in Encrypted), vol'[v])
    <3> HIDE DEF v, pc
    <3> QED BY <1>1, <1>2, <1>4, <2>2, StageUp
  <2>4. PICK c : c = [Top EXCEPT !.pc = After(pc, enc)]
    OBVIOUS
  <2>5. Continue(c)
    BY <1>4, <2>4 DEF GoTo
  <2>6. /\ c \in Calls /\ c.h = Top.h /\ c.mine = Top.mine /\ c.fresh = Top.fresh /\ c.key = Top.key
        /\ c.pc = After(pc, enc) /\ c.ok /\ c.v = v
    BY <1>2, <2>1, <2>4 DEF Calls
  <2>7. c.pc = "install" => Top.fresh
    BY <1>4, <2>1, <2>6
  <2>8. Stage(c.pc, vol'[v])
    BY <1>2, <2>3, <2>6
  <2> QED BY <1>1, <1>2, <2>1, <2>2, <2>5, <2>6, <2>7, <2>8, VolumeStep
<1>5. ASSUME NEW x \in BOOLEAN, NEW r \in Leaves(pc, enc, x), NEW names \in SUBSET {"mount"}, Grow(r, names),
             FailTo("umount")
      PROVE  VolumeInv'
  <2>0. enc \in BOOLEAN
    OBVIOUS
  <2>1. r \in SUBSET Resources
    <3> HIDE DEF enc, pc
    <3> QED BY <1>1, <1>5, <2>0, StepTypes
  <2>2. /\ vol' \in VolumeMaps /\ vol'[v] \in VolumeRecords /\ \A w \in Volumes : w # v => vol'[w] = vol[w]
        /\ vol'[v].h = vol[v].h /\ vol'[v].d2 = vol[v].d2 /\ vol'[v].has = vol[v].has \cup r
        /\ vol'[v].named = vol[v].named \cup Names(pc) \cup names
    BY <1>3, <1>5, <2>1
  <2>3. Stage("umount", vol'[v])
    <3>1. r \in Leaves(pc, vol[v].h \in Encrypted, x)
      BY <1>2, <1>5
    <3>2. vol[v].named \cup Names(pc) \subseteq vol'[v].named /\ pc \in SetUpSteps
      BY <1>1, <2>2
    <3> HIDE DEF v, pc
    <3> QED BY <1>2, <2>2, <3>1, <3>2, StageFail
  <2>4. PICK c : c = [Top EXCEPT !.pc = "umount", !.ok = FALSE]
    OBVIOUS
  <2>5. Continue(c)
    BY <1>5, <2>4 DEF FailTo
  <2>6. /\ c \in Calls /\ c.h = Top.h /\ c.mine = Top.mine /\ c.fresh = Top.fresh /\ c.key = Top.key
        /\ c.pc = "umount" /\ c.ok = FALSE /\ c.v = v
    BY <1>2, <2>4 DEF Calls, Points, CleanUpSteps
  <2> QED BY <1>1, <1>2, <2>2, <2>3, <2>5, <2>6, VolumeStep DEF SetUpSteps, CleanUpSteps
<1>6. \A x \in NodeExists : x \in BOOLEAN
  BY DEF NodeExists
<1> QED BY <1>4, <1>5, <1>6 DEF SetUp, Grow

LEMMA InstallInv ==
    ASSUME VolumeInv, Install
    PROVE  VolumeInv'
<1> DEFINE v == Top.v
<1>1. /\ Busy /\ ~halted /\ Top.pc = "install" /\ UNCHANGED <<diskio, diskio2, files, left, lost, lock, halted>>
  BY DEF Install, AtPoint
<1>2. /\ Top \in Calls /\ v \in Volumes /\ Top.h \in Handles /\ vol \in VolumeMaps /\ vol[v] \in VolumeRecords
      /\ vol[v].h = Top.h /\ (Top.fresh /\ Top.h \in diskio2 => vol[v].d2) /\ Stage("install", vol[v]) /\ Private(v)
      /\ Top.ok /\ DeviceOK(Top) /\ Shape(Top)
  BY <1>1, AtWork DEF SetUpSteps
<1>3. /\ files \in [Files -> Volumes \cup {None}] /\ sfs \in [Handles -> Volumes \cup {None}]
      /\ lost \subseteq KeyFiles /\ left \subseteq Litter
  BY DEF VolumeInv, TypeOK, Settled
<1>t. Top.fresh /\ Top.h \in diskio
  BY <1>1, <1>2 DEF Shape, DeviceOK
<1>4. CASE /\ sfs' = [sfs EXCEPT ![Top.h] = Top.v]
           /\ vol' = [vol EXCEPT ![Top.v].valid = TRUE]
           /\ GoTo("close")
  <2>1. PICK c : c = [Top EXCEPT !.pc = "close"]
    OBVIOUS
  <2>2. Continue(c)
    BY <1>4, <2>1 DEF GoTo
  <2>3. /\ c \in Calls /\ c.h = Top.h /\ c.mine = Top.mine /\ c.fresh = Top.fresh /\ c.key = Top.key
        /\ c.pc = "close" /\ c.ok /\ c.v = v
    BY <1>2, <2>1 DEF Calls, Points
  <2>4. /\ vol' \in VolumeMaps /\ vol'[v] \in VolumeRecords /\ \A w \in Volumes : w # v => vol'[w] = vol[w]
        /\ vol'[v].h = vol[v].h /\ vol'[v].d2 = vol[v].d2 /\ vol'[v].valid
        /\ vol'[v].has = vol[v].has /\ vol'[v].named = vol[v].named
    BY <1>2, <1>4 DEF VolumeMaps, VolumeRecords
  <2>5. /\ sfs' \in [Handles -> Volumes \cup {None}] /\ sfs'[Top.h] = v
        /\ \A h \in Handles : h # Top.h => sfs'[h] = sfs[h]
    BY <1>2, <1>3, <1>4
  <2>6. v # None
    BY <1>2, VolumeAssumption
  <2>7. Stage("close", vol'[v])
    BY <1>2, <2>4 DEF Stage, BottomUp, Covered, Full
  <2>8. VolumeOK(c)'
    <3>1. Stage(c.pc, vol[c.v])'
      BY <2>3, <2>7 DEF Stage, BottomUp, Covered, Full
    <3> QED BY <1>1, <1>2, <1>t, <2>3, <2>4, <3>1 DEF VolumeOK, Late
  <2>9. CallOK(c)'
    <3>1. Shape(c)'
      BY <1>t, <2>3, <2>6 DEF Shape, SetUpSteps, CleanUpSteps, Early, Late
    <3>2. DeviceOK(c)'
      BY <1>1, <1>t, <2>3, <2>5 DEF DeviceOK, Late
    <3>3. KeyOK(c)'
      BY <2>3 DEF KeyOK
    <3> QED BY <2>8, <3>1, <3>2, <3>3 DEF CallOK
  <2>10. Grows /\ FilesStep(c)
    BY <1>1, <1>3, <2>3 DEF Grows, FilesStep
  <2> QED BY <1>1, <1>2, <1>t, <2>2, <2>3, <2>4, <2>5, <2>9, <2>10, ContinueInv DEF VolumeMaps
<1>5. CASE FailTo("umount") /\ UNCHANGED <<sfs, vol>>
  <2>1. PICK c : c = [Top EXCEPT !.pc = "umount", !.ok = FALSE]
    OBVIOUS
  <2>2. Continue(c)
    BY <1>5, <2>1 DEF FailTo
  <2>3. /\ c \in Calls /\ c.h = Top.h /\ c.mine = Top.mine /\ c.fresh = Top.fresh /\ c.key = Top.key
        /\ c.pc = "umount" /\ c.ok = FALSE /\ c.v = v
    BY <1>2, <2>1 DEF Calls, Points, CleanUpSteps
  <2>4. Stage("umount", vol[v])
    BY <1>2 DEF Stage
  <2> QED BY <1>1, <1>2, <1>5, <2>2, <2>3, <2>4, VolumeStep DEF SetUpSteps, CleanUpSteps
<1> QED BY <1>4, <1>5 DEF Install

LEMMA CleanUpInv ==
    ASSUME VolumeInv, CleanUp
    PROVE  VolumeInv'
<1> DEFINE v == Top.v
           Undo(r) == vol' = [vol EXCEPT ![v].has = @ \ r]
           UndoIf(name, r) == IF name \in vol[v].named THEN Undo(r) ELSE UNCHANGED vol
<1>1. Busy /\ ~halted /\ Top.pc \in CleanUpSteps /\ UNCHANGED <<diskio, diskio2, sfs, files, lost, lock, halted>>
  BY DEF CleanUp, AtPoint, CleanUpSteps
<1>2. /\ Top \in Calls /\ v \in Volumes /\ Top.h \in Handles /\ vol \in VolumeMaps /\ vol[v] \in VolumeRecords
      /\ vol[v].has \subseteq Resources
      /\ vol[v].h = Top.h /\ Stage(Top.pc, vol[v]) /\ Private(v)
      /\ ~Top.ok /\ DeviceOK(Top) /\ Top.pc \notin Late
  BY <1>1, AtWork DEF SetUpSteps, CleanUpSteps
<1>3. /\ files \in [Files -> Volumes \cup {None}] /\ sfs \in [Handles -> Volumes \cup {None}]
      /\ v # None /\ lost \subseteq KeyFiles /\ left \subseteq Litter
  BY <1>2, VolumeAssumption DEF VolumeInv, TypeOK, Settled
<1>4. ASSUME NEW p \in CleanUpSteps, GoTo(p), UNCHANGED left,
             vol' \in VolumeMaps, vol'[v] \in VolumeRecords, \A w \in Volumes : w # v => vol'[w] = vol[w],
             vol'[v].h = vol[v].h, vol'[v].d2 = vol[v].d2, Stage(p, vol'[v])
      PROVE  VolumeInv'
  <2>1. PICK c : c = [Top EXCEPT !.pc = p]
    OBVIOUS
  <2>2. Continue(c)
    BY <1>4, <2>1 DEF GoTo
  <2>3. /\ c \in Calls /\ c.h = Top.h /\ c.mine = Top.mine /\ c.fresh = Top.fresh /\ c.key = Top.key
        /\ c.pc = p /\ ~c.ok /\ c.v = v
    BY <1>2, <2>1 DEF Calls, Points
  <2> QED BY <1>1, <1>2, <1>4, <2>2, <2>3, VolumeStep DEF SetUpSteps, CleanUpSteps
<1>5. ASSUME NEW r, Undo(r)
      PROVE  /\ vol' \in VolumeMaps /\ vol'[v] \in VolumeRecords /\ \A w \in Volumes : w # v => vol'[w] = vol[w]
             /\ vol'[v].h = vol[v].h /\ vol'[v].d2 = vol[v].d2
             /\ vol'[v].has = vol[v].has \ r /\ vol'[v].named = vol[v].named
  <2>1. vol[v].has \ r \in SUBSET Resources
    BY <1>2
  <2> QED BY <1>2, <1>5, <2>1 DEF VolumeMaps, VolumeRecords
<1>6. ASSUME NEW n, NEW r, UndoIf(n, r)
      PROVE  /\ vol' \in VolumeMaps /\ vol'[v] \in VolumeRecords /\ \A w \in Volumes : w # v => vol'[w] = vol[w]
             /\ vol'[v].h = vol[v].h /\ vol'[v].d2 = vol[v].d2
             /\ vol'[v].has = IF n \in vol[v].named THEN vol[v].has \ r ELSE vol[v].has
             /\ vol'[v].named = vol[v].named
  <2>1. CASE n \in vol[v].named
    <3>1. Undo(r)
      BY <1>6, <2>1
    <3> HIDE DEF Undo
    <3> QED BY <1>5, <2>1, <3>1
  <2>2. CASE n \notin vol[v].named
    BY <1>2, <1>6, <2>2
  <2> QED BY <2>1, <2>2
<1> HIDE DEF Undo, UndoIf, v
<1>7. CASE Top.pc = "umount" /\ UndoIf("mount", {"mount"}) /\ GoTo("revert") /\ UNCHANGED left
  <2>1. Stage("revert", vol'[v])
    BY <1>2, <1>6, <1>7, StageDown
  <2> QED BY <1>4, <1>6, <1>7, <2>1 DEF CleanUpSteps
<1>8. CASE Top.pc = "revert" /\ UndoIf("crypt", cryptfs_revert_ext_volume) /\ GoTo("unlink") /\ UNCHANGED left
  <2>1. Stage("unlink", vol'[v])
    BY <1>2, <1>6, <1>8, StageDown DEF cryptfs_revert_ext_volume
  <2> QED BY <1>4, <1>6, <1>8, <2>1 DEF CleanUpSteps
<1>9. CASE Top.pc = "unlink" /\ UndoIf("node", {"node"}) /\ GoTo("remove") /\ UNCHANGED left
  <2>1. Stage("remove", vol'[v])
    BY <1>2, <1>6, <1>9, StageDown
  <2> QED BY <1>4, <1>6, <1>9, <2>1 DEF CleanUpSteps
<1>10. CASE Top.pc = "remove" /\ Undo({"disk"}) /\ GoTo("free") /\ UNCHANGED left
  <2>0. /\ vol[v] \in VolumeRecords /\ vol'[v] \in VolumeRecords /\ vol'[v].h = vol[v].h
        /\ vol'[v].named = vol[v].named /\ Stage("remove", vol[v]) /\ vol'[v].has = vol[v].has \ {"disk"}
    BY <1>2, <1>5, <1>10
  <2>1. Stage("free", vol'[v])
    BY <2>0, StageDown
  <2> QED BY <1>4, <1>5, <1>10, <2>1 DEF CleanUpSteps
<1>11. CASE Top.pc = "free" /\ vol' = [vol EXCEPT ![v] = None] /\ left' = left \cup vol[v].has /\ Continue([Top EXCEPT !.pc = "close", !.v = None])
  <2>1. PICK c : c = [Top EXCEPT !.pc = "close", !.v = None]
    OBVIOUS
  <2>2. Continue(c)
    BY <1>11, <2>1
  <2>3. /\ c \in Calls /\ c.h = Top.h /\ c.mine = Top.mine /\ c.fresh = Top.fresh /\ c.key = Top.key
        /\ c.pc = "close" /\ ~c.ok /\ c.v = None
    BY <1>2, <2>1 DEF Calls, Points
  <2>4. CallOK(c)'
    <3>1. Shape(c)'
      BY <2>3 DEF Shape, Early, Late, SetUpSteps, CleanUpSteps
    <3>2. DeviceOK(c)'
      BY <1>1, <1>2, <2>3 DEF DeviceOK, Late
    <3> QED BY <2>3, <3>1, <3>2 DEF CallOK, VolumeOK, KeyOK
  <2>5. /\ vol' \in [Volumes -> VolumeRecords \cup {None}] /\ \A w \in Volumes : w # v => vol'[w] = vol[w]
        /\ vol'[v] = None
    BY <1>2, <1>11 DEF VolumeMaps
  <2>6. Grows
    <3>1. vol[v].has \subseteq Litter
      BY <1>2, <1>11 DEF Stage
    <3> QED BY <1>1, <1>3, <1>11, <3>1 DEF Grows
  <2>7. FilesStep(c)
    BY <1>1, <1>3, <2>3 DEF FilesStep
  <2> QED BY <1>1, <1>2, <1>3, <2>2, <2>3, <2>4, <2>5, <2>6, <2>7, ContinueInv DEF v
<1>12. \/ Top.pc = "umount" /\ UndoIf("mount", {"mount"}) /\ GoTo("revert") /\ UNCHANGED left
       \/ Top.pc = "revert" /\ UndoIf("crypt", cryptfs_revert_ext_volume) /\ GoTo("unlink") /\ UNCHANGED left
       \/ Top.pc = "unlink" /\ UndoIf("node", {"node"}) /\ GoTo("remove") /\ UNCHANGED left
       \/ Top.pc = "remove" /\ Undo({"disk"}) /\ GoTo("free") /\ UNCHANGED left
       \/ Top.pc = "free" /\ vol' = [vol EXCEPT ![v] = None] /\ left' = left \cup vol[v].has /\ Continue([Top EXCEPT !.pc = "close", !.v = None])
  BY DEF CleanUp, AtPoint, Undo, UndoIf, v
<1> QED BY <1>7, <1>8, <1>9, <1>10, <1>11, <1>12

LEMMA CloseKeyInv ==
    ASSUME VolumeInv, CloseKey
    PROVE  VolumeInv'
<1>1. Busy /\ ~halted /\ Top.pc = "close" /\ UNCHANGED <<diskio, diskio2, sfs, vol, left, lost, lock, halted>>
  BY DEF CloseKey, AtPoint
<1>2. Top \in Calls /\ CallOK(Top)
  BY <1>1, TopCall
<1>3. /\ files \in [Files -> Volumes \cup {None}] /\ vol \in [Volumes -> VolumeRecords \cup {None}]
      /\ sfs \in [Handles -> Volumes \cup {None}] /\ lost \subseteq KeyFiles /\ left \subseteq Litter
      /\ KeyFiles \subseteq Files
  BY DEF VolumeInv, TypeOK, Settled, Files
<1>4. /\ files' \in [Files -> Volumes \cup {None}] /\ \A f \in Files : files'[f] \in {None, files[f]}
      /\ Top.key # None => files'[Top.key] = None
  BY <1>2, <1>3 DEF CloseKey, Calls
<1>5. PICK c : c = [Top EXCEPT !.pc = "return"]
  OBVIOUS
<1>6. Continue(c)
  BY <1>5 DEF CloseKey, GoTo
<1>7. /\ c \in Calls /\ c.h = Top.h /\ c.mine = Top.mine /\ c.fresh = Top.fresh /\ c.key = Top.key
      /\ c.pc = "return" /\ c.ok = Top.ok /\ c.v = Top.v
  BY <1>2, <1>5 DEF Calls, Points
<1>8. VolumeOK(c)'
  <2>1. SUFFICES ASSUME c.v # None PROVE VolumeOK(c)'
    BY DEF VolumeOK
  <2>2. /\ vol[Top.v] \in VolumeRecords /\ vol[Top.v].h = Top.h
        /\ (Top.fresh /\ Top.h \in diskio2 => vol[Top.v].d2)
        /\ Stage("close", vol[Top.v]) /\ vol[Top.v].valid
    BY <1>1, <1>2, <1>7, <2>1 DEF CallOK, VolumeOK, Late
  <2>3. Stage(c.pc, vol[c.v])'
    BY <1>1, <1>7, <2>2 DEF Stage, BottomUp, Covered, Full
  <2> QED BY <1>1, <1>7, <2>2, <2>3 DEF VolumeOK, Late
<1>9. Shape(c)'
  BY <1>1, <1>2, <1>7 DEF CallOK, Shape, Early, Late, SetUpSteps, CleanUpSteps
<1>10. DeviceOK(c)'
  BY <1>1, <1>2, <1>7 DEF CallOK, DeviceOK, Late
<1>11. KeyOK(c)'
  BY <1>4, <1>7 DEF KeyOK
<1>12. CallOK(c)'
  BY <1>8, <1>9, <1>10, <1>11 DEF CallOK
<1>13. Grows
  BY <1>1, <1>3 DEF Grows
<1>14. FilesStep(c)
  <2>1. \A f \in KeyFiles : files'[f] # None => files[f] # None
    BY <1>3, <1>4
  <2> QED BY <1>4, <1>7, <2>1 DEF FilesStep
<1> QED BY <1>1, <1>3, <1>6, <1>7, <1>12, <1>13, <1>14, ContinueInv

-----------------------------------------------------------------------------
(* The driver binding called from outside, or while the running Start does *)
(* I/O: then every call in progress waits.                                 *)

LEMMA MayCallWaits ==
    ASSUME VolumeInv, NEW h \in Handles, MayCall(h)
    PROVE  ~halted /\ \A i \in 1 .. Len(stack) : stack[i].pc \in Waiting
<1>1. Busy => Top.pc \in Waiting
  BY DEF MayCall, DoesIo, Waiting
<1>2. ASSUME NEW i \in 1 .. Len(stack) PROVE stack[i].pc \in Waiting
  <2>1. Busy
    BY StackDomain DEF Busy
  <2>2. CASE i = Len(stack)
    BY <1>1, <2>1, <2>2 DEF Top
  <2>3. CASE i # Len(stack)
    BY <2>3, LowerCalls
  <2> QED BY <2>2, <2>3
<1> QED BY <1>2 DEF MayCall

\* What a waiting call has.
LEMMA WaitingCall ==
    ASSUME VolumeInv, NEW i \in 1 .. Len(stack), stack[i].pc \in Waiting
    PROVE  /\ stack[i] \in Calls /\ CallOK(stack[i]) /\ stack[i].h \in Handles
           /\ stack[i].fresh => stack[i].h \in diskio /\ sfs[stack[i].h] = None
           /\ stack[i].v # None => stack[i].v \in Volumes /\ Private(stack[i].v)
<1>1. PICK b : b = stack[i]
  OBVIOUS
<1>2. b \in Calls /\ CallOK(b) /\ b.pc \notin Late
  BY <1>1, StackDomain, WaitingPoints
<1>3. b.h \in Handles /\ (b.fresh => b.h \in diskio /\ sfs[b.h] = None)
  BY <1>2 DEF CallOK, DeviceOK, Calls
<1>4. b.v # None => b.v \in Volumes /\ Private(b.v)
  BY <1>2 DEF CallOK, VolumeOK, Calls
<1> QED BY <1>1, <1>2, <1>3, <1>4

LEMMA MediaChangeInv ==
    ASSUME VolumeInv, MediaChange
    PROVE  VolumeInv'
<1> DEFINE n == Len(stack)
<1>1. /\ Busy /\ Top.fresh /\ UNCHANGED <<sfs, vol, files, left, lost, lock, halted>>
      /\ diskio' = diskio \ {Top.h} /\ diskio2' = diskio2 \ {Top.h}
  BY DEF MediaChange
<1>2. /\ n \in Nat \ {0} /\ stack \in Seq(Calls) /\ n \in 1 .. n
      /\ Top \in Calls /\ Top = stack[n] /\ CallOK(Top) /\ Top.h \in Handles
  BY <1>1, TopCall
<1>3. ~halted /\ \A i \in 1 .. n : stack[i].pc \in Waiting
  BY <1>2, MayCallWaits DEF MediaChange
<1>4. sfs[Top.h] = None /\ (Top.v # None => Private(Top.v))
  BY <1>1, <1>2, <1>3, WaitingCall
<1>5. PICK c : c = [Top EXCEPT !.fresh = FALSE]
  OBVIOUS
<1>6. /\ c \in Calls /\ c.h = Top.h /\ c.mine = Top.mine /\ c.fresh = FALSE /\ c.key = Top.key
      /\ c.pc = Top.pc /\ c.ok = Top.ok /\ c.v = Top.v
  BY <1>2, <1>5 DEF Calls
<1>7. /\ stack' \in Seq(Calls) /\ Len(stack') = n /\ stack' # << >> /\ stack'[n] = c
      /\ \A i \in 1 .. n : i # n => stack'[i] = stack[i]
  <2>1. stack' = [stack EXCEPT ![Len(stack)] = c]
    BY <1>5 DEF MediaChange, Continue
  <2>2. stack # << >>
    BY <1>1 DEF Busy
  <2> QED BY <1>2, <1>6, <2>1, <2>2, StackUpdate
<1>d. DOMAIN stack = 1 .. n /\ DOMAIN stack' = 1 .. n
  BY <1>2, <1>7
<1>8. \A i \in 1 .. n : /\ stack'[i].h = stack[i].h /\ stack'[i].mine = stack[i].mine /\ stack'[i].pc = stack[i].pc
                        /\ stack'[i].v = stack[i].v /\ stack'[i].key = stack[i].key
                        /\ (stack'[i].fresh => stack[i].fresh /\ i # n)
  BY <1>2, <1>6, <1>7
<1> HIDE DEF n
<1>9. TypeOK'
  BY <1>1, <1>7 DEF VolumeInv, TypeOK
<1>10. LockOwned'
  BY <1>1, <1>7, <1>8, <1>d DEF VolumeInv, LockOwned, Busy
<1>11. ASSUME NEW i \in 1 .. n PROVE CallOK(stack[i])'
  <2>1. CASE i = n
    <3>1. c.pc \notin Late /\ c.pc # "install" /\ c.pc # "return"
      BY <1>2, <1>3, <1>6, WaitingPoints
    <3>2. Shape(c)'
      BY <1>2, <1>6, <3>1 DEF CallOK, Shape
    <3>3. DeviceOK(c)' /\ KeyOK(c)'
      BY <1>6, <3>1 DEF DeviceOK, KeyOK
    <3>4. VolumeOK(c)'
      <4>1. SUFFICES ASSUME c.v # None PROVE VolumeOK(c)'
        BY DEF VolumeOK
      <4>2. vol[c.v] \in VolumeRecords /\ vol[c.v].h = c.h /\ Stage(c.pc, vol[c.v])
        BY <1>2, <1>6, <4>1 DEF CallOK, VolumeOK
      <4>3. Stage(c.pc, vol[c.v])'
        BY <1>1, <4>2 DEF Stage, BottomUp, Covered, Full
      <4>4. Private(c.v)'
        BY <1>1, <1>4, <1>6, <4>1 DEF Private
      <4> QED BY <1>1, <1>6, <3>1, <4>2, <4>3, <4>4 DEF VolumeOK, Private
    <3>5. CallOK(c)'
      BY <3>2, <3>3, <3>4 DEF CallOK
    <3>6. stack'[i] = c
      BY <1>7, <2>1
    <3> QED BY <3>5, <3>6 DEF CallOK, Shape, DeviceOK, VolumeOK, KeyOK, Private
  <2>2. CASE i # n
    <3>1. PICK b : b = stack[i]
      OBVIOUS
    <3>2. b \in Calls /\ CallOK(b) /\ b.pc \in Waiting /\ (b.fresh => b.h # Top.h)
      BY <2>2, <3>1, LowerCalls DEF n
    <3>3. /\ b.fresh => b.h \in diskio /\ sfs[b.h] = None
          /\ b.v # None => Private(b.v)
      BY <1>3, <3>1, WaitingCall DEF n
    <3>4. b.fresh => b.h \in diskio' /\ sfs'[b.h] = None /\ (b.h \in diskio2' => b.h \in diskio2)
      BY <1>1, <3>2, <3>3
    <3>5. b.v # None => vol'[b.v] = vol[b.v] /\ Private(b.v)'
      BY <1>1, <3>3 DEF Private
    <3>6. CallOK(b)'
      BY <3>2, <3>4, <3>5, WaitingKept
    <3>7. stack'[i] = b
      BY <1>7, <2>2, <3>1
    <3> QED BY <3>6, <3>7 DEF CallOK, Shape, DeviceOK, VolumeOK, KeyOK, Private
  <2> QED BY <2>1, <2>2
<1>12. StackOK'
  <2>1. \A i \in 1 .. Len(stack') : CallOK(stack[i])'
    BY <1>7, <1>11
  <2>2. \A i \in 1 .. Len(stack') : i # Len(stack') => stack'[i].pc \in Waiting
    BY <1>3, <1>7, <1>8
  <2>3. \A i, j \in 1 .. Len(stack') : i < j /\ stack'[i].h = stack'[j].h => ~stack'[i].fresh
    BY <1>7, <1>8 DEF VolumeInv, StackOK, n
  <2>4. \A i, j \in 1 .. Len(stack') : i # j /\ stack'[i].v # None => stack'[i].v # stack'[j].v
    BY <1>7, <1>8 DEF VolumeInv, StackOK, n
  <2> QED BY <2>1, <2>2, <2>3, <2>4 DEF StackOK
<1>13. Settled'
  <2>1. ASSUME NEW v \in Volumes, vol'[v] # None, ~InStart(v)' PROVE vol'[v].has = Whole(vol'[v])
    <3>1. ~InStart(v)
      BY <1>8, <1>d, <2>1 DEF InStart
    <3> QED BY <1>1, <2>1, <3>1 DEF VolumeInv, Settled
  <2>2. ASSUME NEW k \in Handles, ~StartingOn(k)' PROVE k \in diskio' <=> sfs'[k] # None
    <3>1. CASE k = Top.h
      BY <1>1, <1>4, <3>1
    <3>2. CASE k # Top.h
      <4>1. \A i \in 1 .. n : stack[i].h = k => ~stack[i].fresh
        <5>1. \A i \in 1 .. n : stack[i].h = k => i # n /\ stack'[i] = stack[i]
          BY <1>2, <1>7, <3>2
        <5> QED BY <1>d, <2>2, <5>1 DEF StartingOn
      <4>2. ~StartingOn(k)
        BY <1>d, <4>1 DEF StartingOn
      <4>3. k \in diskio <=> sfs[k] # None
        BY <4>2 DEF VolumeInv, Settled
      <4> QED BY <1>1, <3>2, <4>3
    <3> QED BY <3>1, <3>2
  <2>3. (diskio2 \subseteq diskio)' /\ left' \subseteq Litter
    BY <1>1 DEF VolumeInv, Settled
  <2>4. \A v \in Volumes : vol'[v] # None /\ ~InStart(v)' => vol'[v].has = Whole(vol'[v])
    BY <2>1
  <2>5. \A k \in Handles : ~StartingOn(k)' => (k \in diskio' <=> sfs'[k] # None)
    BY <2>2
  <2> QED BY <1>1, <2>3, <2>4, <2>5 DEF Settled, Whole, Full
<1>14. OnHandle'
  <2> SUFFICES ASSUME NEW k \in Handles, sfs'[k] # None
               PROVE  /\ vol'[sfs'[k]] \in VolumeRecords
                      /\ vol'[sfs'[k]].h = k /\ vol'[sfs'[k]].valid /\ vol'[sfs'[k]].has = Whole(vol'[sfs'[k]])
                      /\ k \in diskio' /\ (k \in diskio2' => vol'[sfs'[k]].d2)
    BY <1>1 DEF OnHandle, Whole, Full
  <2>1. /\ vol[sfs[k]] \in VolumeRecords
        /\ vol[sfs[k]].h = k /\ vol[sfs[k]].valid /\ vol[sfs[k]].has = Whole(vol[sfs[k]])
        /\ k \in diskio /\ (k \in diskio2 => vol[sfs[k]].d2)
    BY <1>1 DEF VolumeInv, OnHandle
  <2>2. k # Top.h
    BY <1>1, <1>4
  <2> QED BY <1>1, <2>1, <2>2
<1>15. Backed'
  BY <1>1 DEF VolumeInv, Backed
<1>16. KeysKnown'
  BY <1>1, <1>8, <1>d DEF VolumeInv, KeysKnown
<1> QED BY <1>9, <1>10, <1>12, <1>13, <1>14, <1>15, <1>16 DEF VolumeInv

LEMMA StartInv ==
    ASSUME VolumeInv, NEW h \in Handles, LKLDriverBindingStart(h)
    PROVE  VolumeInv'
<1>1. /\ h \notin diskio /\ lock' = TRUE /\ diskio' = diskio \cup {h}
      /\ diskio2' \in {diskio2, diskio2 \cup {h}}
      /\ UNCHANGED <<sfs, vol, files, left, lost, halted>>
  BY DEF LKLDriverBindingStart, LKLDriverBindingSupported
<1>w. ~halted /\ \A i \in 1 .. Len(stack) : stack[i].pc \in Waiting
  BY MayCallWaits DEF LKLDriverBindingStart
<1>2. PICK c : c = [h |-> h, pc |-> "probe", mine |-> ~lock, ok |-> TRUE, fresh |-> TRUE, v |-> None, key |-> None]
  OBVIOUS
<1>3. /\ c \in Calls /\ c.h = h /\ c.pc = "probe" /\ c.mine = ~lock /\ c.ok /\ c.v = None /\ c.fresh /\ c.key = None
  BY <1>2 DEF Calls, Points
<1>4. stack' = Append(stack, c)
  BY <1>2 DEF LKLDriverBindingStart
<1>5. stack \in Seq(Calls) /\ Len(stack) \in Nat
  BY DEF VolumeInv, TypeOK
<1>6. /\ stack' \in Seq(Calls) /\ Len(stack') = Len(stack) + 1 /\ stack' # << >> /\ stack'[Len(stack')] = c
      /\ \A i \in 1 .. Len(stack) : stack'[i] = stack[i]
  BY <1>3, <1>4, <1>5, StackPush
<1>d. /\ DOMAIN stack = 1 .. Len(stack) /\ DOMAIN stack' = 1 .. Len(stack')
      /\ \A i \in 1 .. Len(stack) : i \in 1 .. Len(stack')
      /\ \A i \in 1 .. Len(stack') : i # Len(stack') => i \in 1 .. Len(stack)
      /\ Len(stack') \in 1 .. Len(stack')
  BY <1>5, <1>6
<1>7. /\ diskio \subseteq Handles /\ diskio2 \subseteq diskio
      /\ sfs \in [Handles -> Volumes \cup {None}]
  BY DEF VolumeInv, TypeOK, Settled
<1>8. (\A i \in 1 .. Len(stack) : stack[i].fresh => stack[i].h # h) /\ sfs[h] = None
  <2>1. \A i \in 1 .. Len(stack) : stack[i].fresh => stack[i].h # h
    BY <1>1, <1>w, WaitingCall
  <2>2. ~StartingOn(h)
    BY <1>d, <2>1 DEF StartingOn
  <2> QED BY <1>1, <2>1, <2>2 DEF VolumeInv, Settled
<1>9. TypeOK'
  BY <1>1, <1>6, <1>7 DEF VolumeInv, TypeOK
<1>10. LockOwned'
  <2>1. (lock <=> Busy) /\ lock \in BOOLEAN
    BY DEF VolumeInv, LockOwned, TypeOK
  <2>2. lock <=> Len(stack) # 0
    BY <1>5, <2>1, SeqEmpty DEF Busy
  <2>3. \A i \in 1 .. Len(stack) : stack[i].mine <=> i = 1
    BY <1>5 DEF VolumeInv, LockOwned
  <2>4. \A i \in 1 .. Len(stack') : stack'[i].mine <=> i = 1
    <3>1. ASSUME NEW i \in 1 .. Len(stack'), i # Len(stack') PROVE stack'[i].mine <=> i = 1
      BY <1>5, <1>6, <2>3, <3>1
    <3>2. stack'[Len(stack')].mine <=> Len(stack') = 1
      <4>1. Len(stack') = 1 <=> Len(stack) = 0
        BY <1>5, <1>6
      <4>2. stack'[Len(stack')].mine <=> ~lock
        BY <1>3, <1>6, Zenon
      <4> QED BY <2>2, <4>1, <4>2
    <3> QED BY <3>1, <3>2
  <2> QED BY <1>1, <1>6, <1>d, <2>4 DEF LockOwned, Busy
<1>11. StackOK'
  <2>1. CallOK(c)'
    <3>1. Shape(c)'
      BY <1>3 DEF Shape, Early, Late, SetUpSteps, CleanUpSteps
    <3>2. DeviceOK(c)'
      BY <1>1, <1>3, <1>8 DEF DeviceOK, Late
    <3> QED BY <1>3, <3>1, <3>2 DEF CallOK, VolumeOK, KeyOK
  <2>2. ASSUME NEW i \in 1 .. Len(stack) PROVE CallOK(stack[i])'
    <3>1. PICK b : b = stack[i]
      OBVIOUS
    <3>2. /\ b \in Calls /\ CallOK(b) /\ b.pc \in Waiting
          /\ b.fresh => b.h \in diskio /\ sfs[b.h] = None
          /\ b.v # None => Private(b.v)
      BY <1>w, <3>1, WaitingCall
    <3>3. b.fresh => b.h \in diskio' /\ sfs'[b.h] = None /\ (b.h \in diskio2' => b.h \in diskio2)
      BY <1>1, <3>2
    <3>4. b.v # None => vol'[b.v] = vol[b.v] /\ Private(b.v)'
      BY <1>1, <3>2 DEF Private
    <3>5. CallOK(b)'
      BY <3>2, <3>3, <3>4, WaitingKept
    <3>6. stack'[i] = b
      BY <1>6, <3>1
    <3> QED BY <3>5, <3>6 DEF CallOK, Shape, DeviceOK, VolumeOK, KeyOK, Private
  <2>3. ASSUME NEW i \in 1 .. Len(stack') PROVE CallOK(stack[i])'
    <3>1. CASE i # Len(stack')
      BY <1>d, <2>2, <3>1
    <3>2. CASE i = Len(stack')
      <4>1. stack'[i] = c
        BY <1>6, <3>2
      <4> QED BY <2>1, <4>1 DEF CallOK, Shape, DeviceOK, VolumeOK, KeyOK, Private
    <3> QED BY <3>1, <3>2
  <2>4. \A i \in 1 .. Len(stack') : i # Len(stack') => stack'[i].pc \in Waiting
    BY <1>6, <1>d, <1>w
  <2>5. ASSUME NEW i \in 1 .. Len(stack'), NEW j \in 1 .. Len(stack'), i < j, stack'[i].h = stack'[j].h
        PROVE  ~stack'[i].fresh
    <3>1. i # Len(stack') /\ i \in 1 .. Len(stack) /\ stack'[i] = stack[i]
      BY <1>5, <1>6, <1>d, <2>5
    <3>2. CASE j = Len(stack')
      BY <1>3, <1>6, <1>8, <2>5, <3>1, <3>2
    <3>3. CASE j # Len(stack')
      <4>1. j \in 1 .. Len(stack) /\ stack'[j] = stack[j]
        BY <1>6, <1>d, <3>3
      <4> QED BY <2>5, <3>1, <4>1 DEF VolumeInv, StackOK
    <3> QED BY <3>2, <3>3
  <2>6. ASSUME NEW i \in 1 .. Len(stack'), NEW j \in 1 .. Len(stack'), i # j, stack'[i].v # None
        PROVE  stack'[i].v # stack'[j].v
    <3>1. i # Len(stack')
      BY <1>3, <1>6, <2>6
    <3>2. i \in 1 .. Len(stack) /\ stack'[i] = stack[i]
      BY <1>6, <1>d, <3>1
    <3>3. CASE j = Len(stack')
      BY <1>3, <1>6, <2>6, <3>3
    <3>4. CASE j # Len(stack')
      <4>1. j \in 1 .. Len(stack) /\ stack'[j] = stack[j]
        BY <1>6, <1>d, <3>4
      <4> QED BY <2>6, <3>2, <4>1 DEF VolumeInv, StackOK
    <3> QED BY <3>3, <3>4
  <2> QED BY <2>3, <2>4, <2>5, <2>6 DEF StackOK
<1>12. Settled'
  <2>1. ASSUME NEW v \in Volumes, vol'[v] # None, ~InStart(v)' PROVE vol'[v].has = Whole(vol'[v])
    <3>1. ~InStart(v)
      BY <1>6, <1>d, <2>1 DEF InStart
    <3> QED BY <1>1, <2>1, <3>1 DEF VolumeInv, Settled
  <2>2. ASSUME NEW k \in Handles, ~StartingOn(k)' PROVE k \in diskio' <=> sfs'[k] # None
    <3>1. k # h
      BY <1>3, <1>6, <1>d, <2>2 DEF StartingOn
    <3>2. ~StartingOn(k)
      BY <1>6, <1>d, <2>2 DEF StartingOn
    <3>3. k \in diskio <=> sfs[k] # None
      BY <3>2 DEF VolumeInv, Settled
    <3> QED BY <1>1, <3>1, <3>3
  <2>3. (diskio2 \subseteq diskio)' /\ left' \subseteq Litter
    BY <1>1, <1>7 DEF VolumeInv, Settled
  <2>4. \A v \in Volumes : vol'[v] # None /\ ~InStart(v)' => vol'[v].has = Whole(vol'[v])
    BY <2>1
  <2>5. \A k \in Handles : ~StartingOn(k)' => (k \in diskio' <=> sfs'[k] # None)
    BY <2>2
  <2> QED BY <1>1, <2>3, <2>4, <2>5 DEF Settled, Whole, Full
<1>13. OnHandle'
  BY <1>1, <1>8 DEF VolumeInv, OnHandle, Whole, Full
<1>14. Backed'
  BY <1>1 DEF VolumeInv, Backed
<1>15. KeysKnown'
  BY <1>1, <1>6, <1>d DEF VolumeInv, KeysKnown
<1> QED BY <1>9, <1>10, <1>11, <1>12, <1>13, <1>14, <1>15 DEF VolumeInv

LEMMA StartReturnInv ==
    ASSUME VolumeInv, StartReturn
    PROVE  VolumeInv'
<1> DEFINE n == Len(stack)
<1>1. /\ Busy /\ ~halted /\ Top.pc = "return" /\ UNCHANGED <<sfs, vol, files, left, lost, halted>>
      /\ lock' = (lock /\ ~Top.mine)
  BY DEF StartReturn, AtPoint
<1>2. /\ stack \in Seq(Calls) /\ stack # << >> /\ n \in Nat \ {0} /\ n \in 1 .. n
      /\ Top \in Calls /\ Top = stack[n] /\ CallOK(Top) /\ Top.h \in Handles
  BY <1>1, TopCall DEF Busy
<1>3. /\ stack' \in Seq(Calls) /\ Len(stack') = n - 1
      /\ \A i \in 1 .. Len(stack') : stack'[i] = stack[i]
      /\ stack' = << >> <=> n = 1
  BY <1>2, StackPop DEF StartReturn
<1>4. /\ (Top.ok <=> Top.v # None) /\ (~Top.fresh => ~Top.ok)
      /\ Top.fresh => Top.h \in diskio /\ sfs[Top.h] = Top.v
      /\ Top.v # None => vol[Top.v] \in VolumeRecords /\ vol[Top.v].has = Full(vol[Top.v])
  <2>1. (Top.ok <=> Top.v # None) /\ (~Top.fresh => ~Top.ok)
    BY <1>1, <1>2 DEF CallOK, Shape, Late
  <2>2. Top.fresh => Top.h \in diskio /\ sfs[Top.h] = Top.v
    BY <1>1, <1>2 DEF CallOK, DeviceOK, Late
  <2>3. Top.v # None => vol[Top.v] \in VolumeRecords /\ Stage("return", vol[Top.v])
    BY <1>1, <1>2 DEF CallOK, VolumeOK
  <2> QED BY <2>1, <2>2, <2>3 DEF Stage
<1>5. /\ sfs[Top.h] = None => diskio' = diskio \ {Top.h} /\ diskio2' = diskio2 \ {Top.h}
      /\ sfs[Top.h] # None => diskio' = diskio /\ diskio2' = diskio2
  BY <1>4 DEF StartReturn
<1>6. \A i \in 1 .. Len(stack') : i \in 1 .. n /\ i # n
  BY <1>2, <1>3
<1>d. /\ DOMAIN stack = 1 .. n /\ DOMAIN stack' = 1 .. Len(stack')
      /\ \A i \in 1 .. n : i # n => i \in 1 .. Len(stack')
  BY <1>2, <1>3
<1>7. diskio \subseteq Handles /\ diskio2 \subseteq diskio
  BY DEF VolumeInv, TypeOK, Settled
<1>8. TypeOK'
  BY <1>1, <1>3, <1>5 DEF VolumeInv, TypeOK
<1>9. LockOwned'
  <2>1. lock /\ \A i \in 1 .. n : stack[i].mine <=> i = 1
    BY <1>1, <1>2 DEF VolumeInv, LockOwned
  <2>2. Top.mine <=> n = 1
    BY <1>2, <2>1
  <2>3. lock' <=> stack' # << >>
    BY <1>1, <1>3, <2>1, <2>2
  <2>4. \A i \in 1 .. Len(stack') : stack'[i].mine <=> i = 1
    BY <1>3, <1>6, <2>1
  <2> QED BY <1>d, <2>3, <2>4 DEF LockOwned, Busy
<1>10. StackOK'
  <2>1. ASSUME NEW i \in 1 .. Len(stack') PROVE CallOK(stack[i])' /\ stack'[i].pc \in Waiting
    <3>1. PICK b : b = stack[i]
      OBVIOUS
    <3>2. b \in Calls /\ CallOK(b) /\ b.pc \in Waiting /\ (b.fresh => b.h # Top.h)
      BY <1>6, <3>1, LowerCalls
    <3>3. /\ b.fresh => b.h \in diskio /\ sfs[b.h] = None
          /\ b.v # None => Private(b.v)
      BY <1>6, <3>1, <3>2, WaitingCall
    <3>4. b.fresh => b.h \in diskio' /\ sfs'[b.h] = None /\ (b.h \in diskio2' => b.h \in diskio2)
      BY <1>1, <1>5, <3>2, <3>3
    <3>5. b.v # None => vol'[b.v] = vol[b.v] /\ Private(b.v)'
      BY <1>1, <3>3 DEF Private
    <3>6. CallOK(b)'
      BY <3>2, <3>4, <3>5, WaitingKept
    <3>7. stack'[i] = b
      BY <1>3, <3>1
    <3> QED BY <3>2, <3>6, <3>7 DEF CallOK, Shape, DeviceOK, VolumeOK, KeyOK, Private
  <2>2. /\ \A i, j \in 1 .. Len(stack') : i < j /\ stack'[i].h = stack'[j].h => ~stack'[i].fresh
        /\ \A i, j \in 1 .. Len(stack') : i # j /\ stack'[i].v # None => stack'[i].v # stack'[j].v
    <3>1. /\ \A i, j \in 1 .. n : i < j /\ stack[i].h = stack[j].h => ~stack[i].fresh
          /\ \A i, j \in 1 .. n : i # j /\ stack[i].v # None => stack[i].v # stack[j].v
      BY <1>2 DEF VolumeInv, StackOK
    <3>2. \A i \in 1 .. Len(stack') : i \in 1 .. n /\ stack'[i] = stack[i]
      BY <1>3, <1>6
    <3> QED BY <3>1, <3>2
  <2> QED BY <2>1, <2>2 DEF StackOK
<1>11. Settled'
  <2>1. ASSUME NEW v \in Volumes, vol'[v] # None, ~InStart(v)' PROVE vol'[v].has = Whole(vol'[v])
    <3>1. CASE v = Top.v
      <4>1. v # None
        BY VolumeAssumption
      <4> QED BY <1>1, <1>4, <3>1, <4>1 DEF Whole
    <3>2. CASE v # Top.v
      <4>1. \A i \in 1 .. Len(stack') : stack[i].v # v
        BY <1>3, <1>d, <2>1 DEF InStart
      <4>2. ~InStart(v)
        BY <1>2, <1>d, <3>2, <4>1 DEF InStart
      <4> QED BY <1>1, <2>1, <4>2 DEF VolumeInv, Settled
    <3> QED BY <3>1, <3>2
  <2>2. ASSUME NEW k \in Handles, ~StartingOn(k)' PROVE k \in diskio' <=> sfs'[k] # None
    <3>1. CASE k = Top.h
      <4>1. sfs[k] # None => k \in diskio
        BY DEF VolumeInv, OnHandle
      <4> QED BY <1>1, <1>5, <3>1, <4>1
    <3>2. CASE k # Top.h
      <4>1. \A i \in 1 .. Len(stack') : stack[i].h = k => ~stack[i].fresh
        BY <1>3, <1>d, <2>2 DEF StartingOn
      <4>2. ~StartingOn(k)
        BY <1>2, <1>d, <3>2, <4>1 DEF StartingOn
      <4>3. k \in diskio <=> sfs[k] # None
        BY <4>2 DEF VolumeInv, Settled
      <4> QED BY <1>1, <1>5, <3>2, <4>3
    <3> QED BY <3>1, <3>2
  <2>3. (diskio2 \subseteq diskio)' /\ left' \subseteq Litter
    BY <1>1, <1>5, <1>7 DEF VolumeInv, Settled
  <2>4. \A v \in Volumes : vol'[v] # None /\ ~InStart(v)' => vol'[v].has = Whole(vol'[v])
    BY <2>1
  <2>5. \A k \in Handles : ~StartingOn(k)' => (k \in diskio' <=> sfs'[k] # None)
    BY <2>2
  <2> QED BY <1>1, <2>3, <2>4, <2>5 DEF Settled, Whole, Full
<1>12. OnHandle'
  <2> SUFFICES ASSUME NEW k \in Handles, sfs'[k] # None
               PROVE  /\ vol'[sfs'[k]] \in VolumeRecords
                      /\ vol'[sfs'[k]].h = k /\ vol'[sfs'[k]].valid /\ vol'[sfs'[k]].has = Whole(vol'[sfs'[k]])
                      /\ k \in diskio' /\ (k \in diskio2' => vol'[sfs'[k]].d2)
    BY <1>1 DEF OnHandle, Whole, Full
  <2>1. /\ vol[sfs[k]] \in VolumeRecords
        /\ vol[sfs[k]].h = k /\ vol[sfs[k]].valid /\ vol[sfs[k]].has = Whole(vol[sfs[k]])
        /\ k \in diskio /\ (k \in diskio2 => vol[sfs[k]].d2)
    BY <1>1 DEF VolumeInv, OnHandle
  <2>2. k \in diskio' /\ (k \in diskio2' => k \in diskio2)
    BY <1>1, <1>5, <2>1
  <2> QED BY <1>1, <2>1, <2>2
<1>13. Backed'
  BY <1>1 DEF VolumeInv, Backed
<1>14. KeysKnown'
  <2> SUFFICES ASSUME NEW f \in KeyFiles, files'[f] # None, f \notin lost'
               PROVE  \E i \in DOMAIN stack' : stack'[i].key = f
    BY DEF KeysKnown
  <2>1. PICK i \in 1 .. n : stack[i].key = f
    BY <1>1, <1>d DEF VolumeInv, KeysKnown
  <2>2. i # n
    <3>1. f # None
      BY VolumeAssumption
    <3>2. KeyOK(Top)
      BY <1>2 DEF CallOK
    <3> QED BY <1>1, <1>2, <2>1, <3>1, <3>2 DEF KeyOK
  <2> QED BY <1>3, <1>d, <2>1, <2>2
<1> QED BY <1>8, <1>9, <1>10, <1>11, <1>12, <1>13, <1>14 DEF VolumeInv

LEMMA DriverBindingStopInv ==
    ASSUME VolumeInv, NEW h \in Handles, LKLDriverBindingStop(h)
    PROVE  VolumeInv'
<1> DEFINE w == sfs[h]
<1>1. ~halted /\ w # None /\ UNCHANGED <<files, left, lost, lock, stack, halted>>
  BY DEF LKLDriverBindingStop, MayCall, LKLAbandonVolume
<1>w. \A i \in 1 .. Len(stack) : stack[i].pc \in Waiting
  BY MayCallWaits DEF LKLDriverBindingStop
<1>2. /\ sfs \in [Handles -> Volumes \cup {None}] /\ vol \in VolumeMaps /\ diskio2 \subseteq diskio
      /\ files \in [Files -> Volumes \cup {None}] /\ stack \in Seq(Calls) /\ diskio \subseteq Handles
      /\ left \subseteq Litter
  BY DEF VolumeInv, TypeOK, VolumeMaps, Settled
<1>3. /\ w \in Volumes /\ vol[w] \in VolumeRecords /\ vol[w].h = h /\ vol[w].has = Full(vol[w])
      /\ h \in diskio2 => vol[w].d2
  BY <1>1, <1>2 DEF VolumeInv, OnHandle, Whole
<1>4. sfs' = [sfs EXCEPT ![h] = None] /\ vol' = [vol EXCEPT ![w].valid = FALSE]
  BY <1>3 DEF LKLDriverBindingStop, LKLAbandonVolume
<1>5. /\ sfs' \in [Handles -> Volumes \cup {None}]
      /\ \A k \in Handles : sfs'[k] = IF k = h THEN None ELSE sfs[k]
  BY <1>2, <1>4
<1>6. /\ vol' \in VolumeMaps /\ vol'[w] \in VolumeRecords /\ vol'[w].h = vol[w].h /\ vol'[w].has = vol[w].has
      /\ \A v \in Volumes : v # w => vol'[v] = vol[v]
  <2> HIDE DEF w
  <2> QED BY <1>2, <1>3, <1>4 DEF VolumeMaps, VolumeRecords
<1>7. diskio' = diskio \ {h} /\ diskio2' = diskio2 \ {h}
  BY <1>3 DEF LKLDriverBindingStop
<1>8. TypeOK'
  BY <1>1, <1>2, <1>5, <1>6, <1>7 DEF VolumeInv, TypeOK, VolumeMaps
<1>9. LockOwned'
  BY <1>1 DEF VolumeInv, LockOwned, Busy
<1>10. StackOK'
  <2>1. ASSUME NEW i \in 1 .. Len(stack) PROVE CallOK(stack[i])'
    <3>1. PICK b : b = stack[i]
      OBVIOUS
    <3>2. /\ b \in Calls /\ CallOK(b) /\ b.pc \in Waiting /\ b.h \in Handles
          /\ b.fresh => b.h \in diskio /\ sfs[b.h] = None
          /\ b.v # None => b.v \in Volumes /\ Private(b.v)
      BY <1>w, <3>1, WaitingCall
    <3>3. b.fresh => b.h \in diskio' /\ sfs'[b.h] = None /\ (b.h \in diskio2' => b.h \in diskio2)
      BY <1>1, <1>5, <1>7, <3>2
    <3>4. ASSUME b.v # None PROVE vol'[b.v] = vol[b.v] /\ Private(b.v)'
      <4>1. b.v # w
        BY <3>2, <3>4 DEF Private
      <4>2. \A k \in Handles : sfs'[k] # b.v
        BY <1>5, <3>2, <3>4 DEF Private
      <4> QED BY <1>1, <1>6, <3>2, <3>4, <4>1, <4>2 DEF Private
    <3>5. CallOK(b)'
      BY <3>2, <3>3, <3>4, WaitingKept
    <3>6. stack'[i] = b
      BY <1>1, <3>1
    <3> QED BY <3>5, <3>6 DEF CallOK, Shape, DeviceOK, VolumeOK, KeyOK, Private
  <2>2. \A i \in 1 .. Len(stack') : CallOK(stack[i])'
    BY <1>1, <2>1
  <2> QED BY <1>1, <2>2 DEF VolumeInv, StackOK
<1>11. Settled'
  <2>1. ASSUME NEW v \in Volumes, vol'[v] # None, ~InStart(v)' PROVE vol'[v].has = Whole(vol'[v])
    <3>1. ~InStart(v)
      BY <1>1, <2>1 DEF InStart
    <3>2. CASE v = w
      BY <1>1, <1>3, <1>6, <3>2 DEF Whole, Full
    <3>3. CASE v # w
      BY <1>6, <2>1, <3>1, <3>3 DEF VolumeInv, Settled
    <3> QED BY <3>2, <3>3
  <2>2. ASSUME NEW k \in Handles, ~StartingOn(k)' PROVE k \in diskio' <=> sfs'[k] # None
    <3>1. ~StartingOn(k)
      BY <1>1, <2>2 DEF StartingOn
    <3>2. k \in diskio <=> sfs[k] # None
      BY <3>1 DEF VolumeInv, Settled
    <3> QED BY <1>5, <1>7, <3>2
  <2>3. (diskio2 \subseteq diskio)' /\ left' \subseteq Litter
    BY <1>1, <1>2, <1>7
  <2>4. \A v \in Volumes : vol'[v] # None /\ ~InStart(v)' => vol'[v].has = Whole(vol'[v])
    BY <2>1
  <2>5. \A k \in Handles : ~StartingOn(k)' => (k \in diskio' <=> sfs'[k] # None)
    BY <2>2
  <2> QED BY <1>1, <2>3, <2>4, <2>5 DEF Settled, Whole, Full
<1>12. OnHandle'
  <2> SUFFICES ASSUME NEW k \in Handles, sfs'[k] # None
               PROVE  /\ vol'[sfs'[k]] \in VolumeRecords
                      /\ vol'[sfs'[k]].h = k /\ vol'[sfs'[k]].valid /\ vol'[sfs'[k]].has = Whole(vol'[sfs'[k]])
                      /\ k \in diskio' /\ (k \in diskio2' => vol'[sfs'[k]].d2)
    BY <1>1 DEF OnHandle, Whole, Full
  <2>1. k # h /\ sfs'[k] = sfs[k] /\ sfs[k] # None
    BY <1>5
  <2>2. /\ sfs[k] \in Volumes /\ vol[sfs[k]] \in VolumeRecords
        /\ vol[sfs[k]].h = k /\ vol[sfs[k]].valid /\ vol[sfs[k]].has = Whole(vol[sfs[k]])
        /\ k \in diskio /\ (k \in diskio2 => vol[sfs[k]].d2)
    BY <1>2, <2>1 DEF VolumeInv, OnHandle
  <2>3. vol'[sfs[k]] = vol[sfs[k]]
    BY <1>3, <1>6, <2>1, <2>2
  <2> QED BY <1>7, <2>1, <2>2, <2>3
<1>13. Backed'
  <2> SUFFICES ASSUME NEW f \in Files, files'[f] # None
               PROVE  vol'[files'[f]] \in VolumeRecords /\ "mount" \in vol'[files'[f]].has
    BY DEF Backed
  <2>1. files' = files /\ files[f] \in Volumes /\ vol[files[f]] \in VolumeRecords /\ "mount" \in vol[files[f]].has
    BY <1>1, <1>2 DEF VolumeInv, Backed
  <2> QED BY <1>6, <2>1
<1>14. KeysKnown'
  BY <1>1 DEF VolumeInv, KeysKnown
<1> QED BY <1>8, <1>9, <1>10, <1>11, <1>12, <1>13, <1>14 DEF VolumeInv

\* The kernel is halted: what it held is gone, what the firmware holds is not.
LEMMA UnloadInv ==
    ASSUME VolumeInv, NEW S \in SUBSET Handles, LKLUnload(S)
    PROVE  VolumeInv'
<1>1. /\ ~Busy /\ ~halted /\ UNCHANGED <<files, lost, lock, stack>> /\ halted' = TRUE /\ left' = {}
      /\ \A h \in S : sfs[h] # None
      /\ diskio' = diskio \ S /\ diskio2' = diskio2 \ {h \in S : vol[sfs[h]].d2}
  BY DEF LKLUnload
<1>2. /\ sfs \in [Handles -> Volumes \cup {None}] /\ vol \in VolumeMaps
      /\ stack \in Seq(Calls) /\ stack = << >> /\ Len(stack) = 0 /\ DOMAIN stack = {}
      /\ files \in [Files -> Volumes \cup {None}] /\ diskio2 \subseteq diskio /\ diskio \subseteq Handles
  BY <1>1 DEF VolumeInv, TypeOK, VolumeMaps, Busy, Settled
<1>3. /\ sfs' \in [Handles -> Volumes \cup {None}]
      /\ \A h \in Handles : sfs'[h] = IF h \in S THEN None ELSE sfs[h]
  BY <1>2 DEF LKLUnload
<1>4. \A h \in Handles : sfs[h] # None =>
        /\ sfs[h] \in Volumes /\ vol[sfs[h]] \in VolumeRecords /\ vol[sfs[h]].h = h /\ vol[sfs[h]].valid
        /\ h \in diskio /\ (h \in diskio2 => vol[sfs[h]].d2)
  BY <1>2 DEF VolumeInv, OnHandle
<1>5. ASSUME NEW v \in Volumes
      PROVE  /\ vol[v] = None => vol'[v] = None
             /\ vol[v] # None => /\ vol'[v] \in VolumeRecords /\ vol'[v].h = vol[v].h /\ vol'[v].has = {}
                                 /\ vol'[v].d2 = vol[v].d2
                                 /\ ((\A h \in S : sfs[h] # v) /\ vol[v].valid => vol'[v].valid)
  <2>1. CASE vol[v] = None
    BY <2>1 DEF LKLUnload
  <2>2. CASE vol[v] # None
    <3>1. vol[v] \in VolumeRecords
      BY <1>2, <2>2 DEF VolumeMaps
    <3>2. PICK x : x = (vol[v].valid /\ ~(\E h \in S : sfs[h] = v))
      OBVIOUS
    <3>3. x \in BOOLEAN /\ ((\A h \in S : sfs[h] # v) /\ vol[v].valid => x)
      BY <3>2
    <3>4. vol'[v] = [vol[v] EXCEPT !.has = {}, !.valid = x]
      BY <2>2, <3>1, <3>2 DEF LKLUnload, VolumeRecords
    <3>5. vol'[v] \in VolumeRecords /\ vol'[v].h = vol[v].h /\ vol'[v].has = {} /\ vol'[v].d2 = vol[v].d2 /\ vol'[v].valid = x
      BY <3>1, <3>3, <3>4 DEF VolumeRecords
    <3> QED BY <2>2, <3>3, <3>5
  <2> QED BY <2>1, <2>2
<1>6. vol' \in VolumeMaps
  <2>1. vol' = [v \in Volumes |-> vol'[v]]
    BY DEF LKLUnload
  <2>2. \A v \in Volumes : vol'[v] \in VolumeRecords \cup {None}
    BY <1>5
  <2> QED BY <2>1, <2>2 DEF VolumeMaps
<1>7. TypeOK'
  BY <1>1, <1>2, <1>3, <1>6 DEF VolumeInv, TypeOK, VolumeMaps
<1>8. LockOwned' /\ KeysKnown'
  BY <1>1 DEF VolumeInv, LockOwned, Busy, KeysKnown
<1>9. StackOK'
  BY <1>1, <1>2 DEF StackOK
<1>10. Settled'
  <2>1. \A v \in Volumes : vol'[v] # None => vol'[v].has = {}
    BY <1>5
  <2>2. ASSUME NEW k \in Handles PROVE k \in diskio' <=> sfs'[k] # None
    <3>1. ~StartingOn(k)
      BY <1>2 DEF StartingOn
    <3>2. k \in diskio <=> sfs[k] # None
      BY <3>1 DEF VolumeInv, Settled
    <3> QED BY <1>1, <1>3, <3>2
  <2>3. \A k \in Handles : k \in S => k \notin diskio2'
    BY <1>1, <1>4
  <2>4. diskio2' \subseteq diskio'
    BY <1>1, <1>2, <2>3
  <2> QED BY <1>1, <2>1, <2>2, <2>4 DEF Settled, Whole
<1>11. OnHandle'
  <2> SUFFICES ASSUME NEW k \in Handles, sfs'[k] # None
               PROVE  /\ vol'[sfs'[k]] \in VolumeRecords
                      /\ vol'[sfs'[k]].h = k /\ vol'[sfs'[k]].valid /\ vol'[sfs'[k]].has = {}
                      /\ k \in diskio' /\ (k \in diskio2' => vol'[sfs'[k]].d2)
    BY <1>1 DEF OnHandle, Whole
  <2>1. k \notin S /\ sfs'[k] = sfs[k] /\ sfs[k] # None
    BY <1>3
  <2>2. \A h \in S : sfs[h] # sfs[k]
    BY <1>1, <1>4, <2>1
  <2>3. PICK w \in Volumes : w = sfs[k] /\ vol[w] \in VolumeRecords /\ vol[w].h = k /\ vol[w].valid
    BY <1>4, <2>1
  <2>4. vol[w] # None
    BY <2>3, VolumeAssumption
  <2>5. vol'[w] \in VolumeRecords /\ vol'[w].h = k /\ vol'[w].valid /\ vol'[w].has = {} /\ vol'[w].d2 = vol[w].d2
    BY <1>5, <2>2, <2>3, <2>4
  <2> QED BY <1>1, <1>4, <2>1, <2>3, <2>5
<1>12. Backed'
  <2> SUFFICES ASSUME NEW f \in Files, files'[f] # None
               PROVE  vol'[files'[f]] \in VolumeRecords
    BY <1>1 DEF Backed
  <2>1. files' = files /\ files[f] \in Volumes /\ vol[files[f]] \in VolumeRecords
    BY <1>1, <1>2 DEF VolumeInv, Backed
  <2> QED BY <1>5, <2>1, VolumeAssumption
<1> QED BY <1>7, <1>8, <1>9, <1>10, <1>11, <1>12 DEF VolumeInv

\* A client opens or closes a file.
LEMMA FilesInv ==
    ASSUME VolumeInv, UNCHANGED <<diskio, diskio2, sfs, vol, left, lost, lock, stack, halted>>, ~Busy, ~halted,
           NEW f \in ClientFiles, NEW v \in Volumes \cup {None}, files' = [files EXCEPT ![f] = v],
           v # None => \E h \in Handles : sfs[h] = v
    PROVE  VolumeInv'
<1>1. /\ stack \in Seq(Calls) /\ Len(stack) = 0 /\ files \in [Files -> Volumes \cup {None}]
      /\ f \in Files /\ f \notin KeyFiles /\ KeyFiles \subseteq Files
  BY VolumeAssumption DEF VolumeInv, TypeOK, Busy, Files
<1>2. TypeOK'
  BY <1>1 DEF VolumeInv, TypeOK
<1>3. LockOwned'
  BY DEF VolumeInv, LockOwned, Busy
<1>4. StackOK'
  BY <1>1 DEF StackOK
<1>5. Settled'
  BY DEF VolumeInv, Settled, InStart, StartingOn, Whole, Full
<1>6. OnHandle'
  BY DEF VolumeInv, OnHandle, Whole, Full
<1>7. Backed'
  <2> SUFFICES ASSUME NEW g \in Files, files'[g] # None
               PROVE  vol'[files'[g]] \in VolumeRecords /\ "mount" \in vol'[files'[g]].has
    BY DEF Backed
  <2>1. CASE g = f
    <3>1. PICK h \in Handles : sfs[h] = v /\ v # None /\ files'[g] = v
      BY <1>1, <2>1
    <3>2. vol[v] \in VolumeRecords /\ vol[v].has = Full(vol[v])
      BY <3>1 DEF VolumeInv, OnHandle, Whole
    <3> QED BY <3>1, <3>2 DEF Full, Resources
  <2>2. CASE g # f
    BY <1>1, <2>2 DEF VolumeInv, Backed
  <2> QED BY <2>1, <2>2
<1>8. KeysKnown'
  <2>1. \A g \in KeyFiles : files'[g] = files[g]
    BY <1>1
  <2> QED BY <2>1 DEF VolumeInv, KeysKnown
<1> QED BY <1>2, <1>3, <1>4, <1>5, <1>6, <1>7, <1>8 DEF VolumeInv

LEMMA InitInv == Init => VolumeInv
<1> SUFFICES ASSUME Init PROVE VolumeInv
  OBVIOUS
<1>1. stack = << >> /\ Len(stack) = 0
  BY DEF Init
<1>2. TypeOK
  <2>1. stack \in Seq(Calls)
    BY <1>1
  <2>2. /\ sfs \in [Handles -> Volumes \cup {None}] /\ files \in [Files -> Volumes \cup {None}]
        /\ vol \in [Volumes -> VolumeRecords \cup {None}]
    BY DEF Init
  <2>3. /\ diskio \subseteq Handles /\ diskio2 \subseteq Handles /\ lock \in BOOLEAN /\ halted \in BOOLEAN
        /\ left \subseteq Resources /\ lost \subseteq KeyFiles
    BY DEF Init
  <2> QED BY <2>1, <2>2, <2>3 DEF TypeOK
<1>3. LockOwned
  BY DEF Init, LockOwned, Busy
<1>4. StackOK
  BY <1>1 DEF StackOK
<1>5. Settled
  BY DEF Init, Settled
<1>6. OnHandle /\ Backed /\ KeysKnown
  BY DEF Init, OnHandle, Backed, KeysKnown, Files
<1> QED BY <1>2, <1>3, <1>4, <1>5, <1>6 DEF VolumeInv

LEMMA NextInv == VolumeInv /\ [Next]_vars => VolumeInv'
<1> SUFFICES ASSUME VolumeInv, [Next]_vars PROVE VolumeInv'
  OBVIOUS
<1>1. CASE UNCHANGED vars
  <2>1. UNCHANGED <<diskio, diskio2, sfs, vol, files, left, lost, lock, stack, halted>>
    BY <1>1 DEF vars
  <2>2. (TypeOK /\ LockOwned /\ KeysKnown)'
    BY <2>1 DEF VolumeInv, TypeOK, LockOwned, Busy, KeysKnown
  <2>3. ASSUME NEW i \in 1 .. Len(stack) PROVE CallOK(stack[i])'
    <3>1. CallOK(stack[i])
      BY StackDomain
    <3> QED BY <2>1, <3>1 DEF CallOK, Shape, DeviceOK, VolumeOK, KeyOK, Private, Stage, BottomUp, Covered, Full
  <2>4. StackOK'
    BY <2>1, <2>3 DEF VolumeInv, StackOK
  <2>5. (Settled /\ OnHandle /\ Backed)'
    BY <2>1 DEF VolumeInv, Settled, InStart, StartingOn, Whole, Full, OnHandle, Backed
  <2> QED BY <2>2, <2>4, <2>5 DEF VolumeInv
<1>2. ASSUME NEW h \in Handles, LKLDriverBindingStart(h) \/ LKLDriverBindingStop(h) PROVE VolumeInv'
  BY <1>2, StartInv, DriverBindingStopInv
<1>3. CASE MediaChange \/ Probe \/ GetKey \/ AllocateVolume \/ SetUp \/ Install \/ CleanUp \/ CloseKey \/ StartReturn
  BY <1>3, MediaChangeInv, ProbeInv, GetKeyInv, AllocateVolumeInv, SetUpInv, InstallInv, CleanUpInv, CloseKeyInv,
     StartReturnInv
<1>4. ASSUME NEW S \in SUBSET Handles, LKLUnload(S) PROVE VolumeInv'
  BY <1>4, UnloadInv
<1>5. ASSUME NEW f \in ClientFiles, LKLClose(f) PROVE VolumeInv'
  <2>1. None \in Volumes \cup {None}
    OBVIOUS
  <2> QED BY <1>5, <2>1, FilesInv DEF LKLClose
<1>6. ASSUME NEW f \in ClientFiles, NEW h \in Handles, LKLOpenVolume(h, f) PROVE VolumeInv'
  <2>1. sfs[h] \in Volumes \cup {None}
    BY DEF VolumeInv, TypeOK
  <2> QED BY <1>6, <2>1, FilesInv DEF LKLOpenVolume
<1> QED BY <1>1, <1>2, <1>3, <1>4, <1>5, <1>6 DEF Next

-----------------------------------------------------------------------------
LEMMA VolumeInvAlways == Spec => []VolumeInv
BY InitInv, NextInv, PTL DEF Spec

\* However calls of LKLDriverBindingStart are nested in each other, also for the
\* same handle, LKLFsLock is held exactly while the outermost one runs.
THEOREM LockHeldByOutermost == Spec => []LockOwned
<1>1. VolumeInv => LockOwned
  BY DEF VolumeInv
<1> QED BY <1>1, VolumeInvAlways, PTL

\* Wherever a Start fails, and whatever calls came inside it, all that it leaves
\* in the Linux kernel is the node dm-N and the directory of the mount point; a
\* key file stays open only by the returns that do not come to the common end;
\* the volumes that remain are complete until the kernel is halted, and the
\* devices are open for the handles in use.
THEOREM WhatFailedStartLeaves == Spec => []NothingElseLeftBehind
<1>1. VolumeInv => NothingElseLeftBehind
  <2>1. ASSUME VolumeInv PROVE Settled /\ KeysKnown
    BY <2>1 DEF VolumeInv
  <2>2. \A v : ~halted => (Complete(v) <=> vol[v].has = Whole(vol[v]))
    BY DEF Complete, Full, Whole
  <2>3. left \subseteq Litter <=> left \subseteq {"dmnode", "dir"}
    BY DEF Litter
  <2>4. Settled /\ KeysKnown => NothingElseLeftBehind
    BY <2>2, <2>3, Zenon DEF Settled, KeysKnown, NothingElseLeftBehind
  <2> QED BY <2>1, <2>4
<1> QED BY <1>1, VolumeInvAlways, PTL

\* No device and no mount of a volume exists in the Linux kernel without what it
\* is built on, at any point of the set-up and of the clean-up.
THEOREM SetUpInOrder == Spec => []BuiltBottomUp
<1>1. ASSUME VolumeInv, NEW v \in Volumes, vol[v] # None PROVE BottomUp(vol[v])
  <2>1. CASE InStart(v)
    <3>1. PICK i \in 1 .. Len(stack) : stack[i].v = v
      BY <1>1, <2>1, StackDomain DEF InStart
    <3>2. CallOK(stack[i]) /\ stack[i].v # None
      BY <1>1, <3>1, StackDomain, VolumeAssumption
    <3>3. Stage(stack[i].pc, vol[v])
      BY <3>1, <3>2 DEF CallOK, VolumeOK
    <3> QED BY <3>3 DEF Stage
  <2>2. CASE ~InStart(v)
    <3>1. vol[v].has = Whole(vol[v])
      BY <1>1, <2>2 DEF VolumeInv, Settled
    <3> QED BY <3>1 DEF Whole, Full, BottomUp, Resources
  <2> QED BY <2>1, <2>2
<1>2. VolumeInv => BuiltBottomUp
  BY <1>1 DEF BuiltBottomUp, BottomUp, Litter
<1> QED BY <1>2, VolumeInvAlways, PTL

\* Until the kernel is halted, the file system protocol that clients find on a
\* handle is that of a valid, mounted volume of the handle, whose device is open,
\* also when an outer Start of that handle fails after an inner one installed it.
THEOREM ProtocolIsUsable == Spec => []InstalledIsUsable
<1>1. None \notin VolumeRecords
  BY VolumeAssumption
<1>2. VolumeInv => InstalledIsUsable
  BY <1>1 DEF VolumeInv, OnHandle, InstalledIsUsable, Complete, Whole, Full
<1> QED BY <1>2, VolumeInvAlways, PTL

\* Until the kernel is halted, neither stopping a controller in the middle of
\* another Start nor the clean-up of a failed Start takes the volume away from
\* under an open file.
THEOREM OpenFilesKeepVolume == Spec => []FilesBacked
<1>1. None \notin VolumeRecords
  BY VolumeAssumption
<1>2. ASSUME VolumeInv, NEW f \in Files, files[f] # None, NEW i \in DOMAIN stack, stack[i].v = files[f]
      PROVE  stack[i].pc \in {"close", "return"}
  <2>1. CallOK(stack[i]) /\ stack[i].v # None
    BY <1>2, StackDomain
  <2>2. stack[i].pc \in Late
    BY <1>2, <2>1 DEF CallOK, VolumeOK, Private
  <2> QED BY <2>2 DEF Late
<1>3. VolumeInv => FilesBacked
  BY <1>1, <1>2 DEF VolumeInv, Backed, FilesBacked
<1> QED BY <1>3, VolumeInvAlways, PTL
=============================================================================
