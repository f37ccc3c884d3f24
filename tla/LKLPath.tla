------------------------------ MODULE LKLPath ------------------------------
(***************************************************************************)
(* How LKLOpen finds the file a client names: the path it builds from the  *)
(* mount point, the parent handle and the client's name (Open.c), RealPath *)
(* and its helpers (Misc.c), the test for the mount point and the open.    *)
(*                                                                         *)
(* A path in the making is the sequence of its components: names, "." and  *)
(* "..", and Empty where two separators meet or the text ends in one.      *)
(* Both separators are '/' by then (PathToUnixAscii).  A resolved path is  *)
(* a sequence of names; << >> is the root of the Linux kernel.  RealPath   *)
(* is one step per turn of its loop.  I/O errors and lack of memory are    *)
(* left out: they end in the same NOT_FOUND as a missing file.             *)
(***************************************************************************)
EXTENDS Naturals, Sequences

CONSTANTS
    Names,        \* file names
    LKLMountPoint,
    Lookalikes,   \* names that begin with the last name of the mount point and go on
    Trees,        \* the directory trees a call may meet
    Parents,      \* FilePath of the handles LKLOpen may be called on
    FileNames,    \* what clients ask for: [abs, text]
    MaxLinks,     \* 40
    PathMax       \* room for the text that is left to resolve, in components

Dot == "."
DotDot == ".."
Empty == ""
Components == Names \cup {Dot, DotDot, Empty}
Texts == [abs : BOOLEAN, text : Seq(Components)]
Nowhere == [kind |-> "none"]

Front(s) == SubSeq(s, 1, Len(s) - 1)
Last(s) == s[Len(s)]
IsPrefix(s, t) == Len(s) <= Len(t) /\ s = SubSeq(t, 1, Len(s))

(* A tree maps the paths that exist to what is there; everything but the   *)
(* root lies in a directory.                                               *)
Entries == [kind : {"dir", "file"}] \cup [kind : {"link"}, to : Texts]

IsTree(fs) ==
    /\ DOMAIN fs \subseteq Seq(Names)
    /\ << >> \in DOMAIN fs /\ fs[<< >>].kind = "dir"
    /\ \A p \in DOMAIN fs : /\ fs[p] \in Entries
                            /\ p # << >> => Front(p) \in DOMAIN fs /\ fs[Front(p)].kind = "dir"

ASSUME PathAssumption ==
    /\ {Dot, DotDot, Empty} \cap Names = {}
    /\ LKLMountPoint \in Seq(Names) /\ LKLMountPoint # << >>
    /\ Lookalikes \subseteq Names \ {Last(LKLMountPoint)}
    /\ \A fs \in Trees : IsTree(fs) /\ LKLMountPoint \in DOMAIN fs
                         /\ fs[LKLMountPoint].kind = "dir"
    /\ Parents \subseteq Seq(Components)
    /\ \A f \in FileNames : f.abs \in BOOLEAN /\ f.text \in Seq(Components)
    /\ MaxLinks \in Nat /\ PathMax \in Nat

VARIABLES
    fs,         \* the tree
    name,       \* NewFileName, from the root, as RealPath gets it
    mode,       \* "read", or "file" or "dir" with EFI_FILE_MODE_CREATE
    base,       \* BaseName
    pc,         \* "start", "walk", "resolved", "notfound", "refused", "open"
    dest,       \* rpath up to dest
    rest,       \* the text from end on
    num_links,
    target,     \* AbsFilePath once it is resolved
    file        \* where the file lies that lkl_sys_open has opened

vars == <<fs, name, mode, base, pc, dest, rest, num_links, target, file>>

TypeOK ==
    /\ IsTree(fs)
    /\ name \in Seq(Components) /\ base \in Components
    /\ mode \in {"read", "file", "dir"}
    /\ pc \in {"start", "walk", "resolved", "notfound", "refused", "open"}
    /\ dest \in Seq(Names) /\ rest \in Seq(Components)
    /\ num_links \in Nat /\ target \in Seq(Components) /\ file \in Seq(Names)

-----------------------------------------------------------------------------
\* NewFileName
NewFileName(parent, f) ==
    LKLMountPoint \o (IF f.abs THEN f.text ELSE parent \o f.text)

\* RemoveTrailingSlashes: the text up to its last component.
RemoveTrailingSlashes(s) ==
    LET keep == CHOOSE n \in 0 .. Len(s) :
                   /\ \A i \in n + 1 .. Len(s) : s[i] = Empty
                   /\ n > 0 => s[n] # Empty
    IN  SubSeq(s, 1, keep)

\* GetBasenamePtr of a text that does not end in a separator
GetBasenamePtr(s) == Last(s)

\* LKLOpen is called: the name that RealPath gets, without its last component
\* when the file is to be created.
Init ==
    /\ fs \in Trees
    /\ mode \in {"read", "file", "dir"}
    /\ \E parent \in Parents, f \in FileNames :
          LET whole == NewFileName(parent, f)
              short == RemoveTrailingSlashes(whole)
          IN  IF mode = "read" THEN name = whole /\ base = Empty
              ELSE name = Front(short) /\ base = GetBasenamePtr(short)
    /\ pc = "start"
    /\ dest = << >> /\ rest = << >> /\ num_links = 0 /\ target = << >> /\ file = << >>

\* The beginning of RealPath
Start ==
    /\ pc = "start" /\ pc' = "walk"
    /\ dest' = << >> /\ rest' = name /\ num_links' = 0
    /\ UNCHANGED <<fs, name, mode, base, target, file>>

lstat(p) == IF p \in DOMAIN fs THEN fs[p] ELSE Nowhere

Component == Head(rest)
Walking == pc = "walk" /\ rest # << >>
\* The text of a link does not fit in front of what is left behind the link.
NoRoom ==
    LET p == Append(dest, Component) IN
    lstat(p).kind = "link" /\ Len(fs[p].to.text) + Len(rest) - 1 >= PathMax

Fail == pc' = "notfound" /\ UNCHANGED <<dest, rest, num_links>>

\* A component that says nothing, or goes up.
Dots ==
    /\ Walking /\ Component \notin Names
    /\ dest' = IF Component = DotDot /\ dest # << >> THEN Front(dest) ELSE dest
    /\ rest' = Tail(rest)
    /\ UNCHANGED <<fs, name, mode, base, pc, num_links, target, file>>

\* Mutant for ResolvedIsReal: whether the file is there is not asked.
Step_Blind ==
    /\ Walking /\ Component \in Names
    /\ lstat(Append(dest, Component)).kind # "link"
    /\ dest' = Append(dest, Component) /\ rest' = Tail(rest)
    /\ UNCHANGED <<pc, num_links>>
    /\ UNCHANGED <<fs, name, mode, base, target, file>>

\* A name that is not a link
Step ==
    /\ Walking /\ Component \in Names
    /\ LET p == Append(dest, Component) IN
       /\ lstat(p).kind # "link"
       /\ IF lstat(p) = Nowhere THEN Fail
          ELSE /\ dest' = p /\ rest' = Tail(rest)
               /\ UNCHANGED <<pc, num_links>>
    /\ UNCHANGED <<fs, name, mode, base, target, file>>

\* Mutant for ResolutionEnds: links are not counted.
Follow_Uncounted ==
    /\ Walking /\ Component \in Names
    /\ LET p == Append(dest, Component) IN
       /\ lstat(p).kind = "link"
       /\ IF NoRoom THEN Fail
          ELSE /\ rest' = fs[p].to.text \o Tail(rest)
               /\ dest' = IF fs[p].to.abs THEN << >> ELSE dest
               /\ UNCHANGED <<pc, num_links>>
    /\ UNCHANGED <<fs, name, mode, base, target, file>>

\* Mutant for AgreesWithLinux: an absolute link is taken from where it is.
Follow_Relative ==
    /\ Walking /\ Component \in Names
    /\ LET p == Append(dest, Component) IN
       /\ lstat(p).kind = "link"
       /\ IF num_links + 1 > MaxLinks \/ NoRoom THEN Fail
          ELSE /\ num_links' = num_links + 1
               /\ rest' = fs[p].to.text \o Tail(rest)
               /\ UNCHANGED <<pc, dest>>
    /\ UNCHANGED <<fs, name, mode, base, target, file>>

\* A link: its text replaces it in front of what is left.
Follow ==
    /\ Walking /\ Component \in Names
    /\ LET p == Append(dest, Component) IN
       /\ lstat(p).kind = "link"
       /\ IF num_links + 1 > MaxLinks \/ NoRoom THEN Fail
          ELSE /\ num_links' = num_links + 1
               /\ rest' = fs[p].to.text \o Tail(rest)
               /\ dest' = IF fs[p].to.abs THEN << >> ELSE dest
               /\ UNCHANGED pc
    /\ UNCHANGED <<fs, name, mode, base, target, file>>

\* RealPath returns; LKLOpen puts the name of a new file behind its directory.
Resolved ==
    /\ pc = "walk" /\ rest = << >>
    /\ pc' = "resolved"
    /\ target' = IF mode = "read" THEN dest ELSE Append(dest, base)
    /\ UNCHANGED <<fs, name, mode, base, dest, rest, num_links, file>>

-----------------------------------------------------------------------------
(* How the Linux kernel walks the tree t: from dir along text, with   *)
(* links followed before.  A link is walked to its end before the walk     *)
(* goes on behind it, and a component is looked up in directories only if  *)
(* strict.                                                                 *)
WalkPoints == [dir : Seq(Names), text : Seq(Components), links : 0 .. MaxLinks]
Point(d, s, n) == [dir |-> d, text |-> s, links |-> n]

Arrived(d, n) == [ok |-> TRUE, path |-> d, links |-> n]
Lost == [ok |-> FALSE, path |-> << >>, links |-> 0]

\* The walk from x, by the walk W from the points behind it.
WalkOn(strict, t, W, x) ==
    LET c == Head(x.text)
        p == Append(x.dir, c)
        On(d) == W[Point(d, Tail(x.text), x.links)]
    IN  IF x.text = << >> THEN Arrived(x.dir, x.links)
        ELSE IF strict /\ t[x.dir].kind # "dir" THEN Lost
        ELSE IF c \in {Dot, Empty} THEN On(x.dir)
        ELSE IF c = DotDot THEN On(IF x.dir = << >> THEN x.dir ELSE Front(x.dir))
        ELSE IF p \notin DOMAIN t THEN Lost
        ELSE IF t[p].kind # "link" THEN On(p)
        ELSE IF x.links = MaxLinks THEN Lost
        ELSE LET r == W[Point(IF t[p].to.abs THEN << >> ELSE x.dir, t[p].to.text, x.links + 1)]
             IN  IF r.ok THEN W[Point(r.path, Tail(x.text), r.links)] ELSE Lost

LinuxWalk(strict, t) ==
    LET W[x \in WalkPoints] == WalkOn(strict, t, W, x) IN W

\* Where the text of the link at p starts from.
Behind(t, p, n) == Point(IF t[p].to.abs THEN << >> ELSE Front(p), t[p].to.text, n)

\* Where open with O_CREAT ends up: the last component need not exist, and is
\* followed while it is a link.  Lost where there is no file to open or to make.
LinuxCreate(t) ==
    LET C[x \in WalkPoints] ==
            LET up == LinuxWalk(TRUE, t)[Point(x.dir, Front(x.text), x.links)]
                p == Append(up.path, Last(x.text))
            IN  IF x.text = << >> \/ Last(x.text) \notin Names \/ ~up.ok THEN Lost
                ELSE IF p \notin DOMAIN t \/ t[p].kind # "link" THEN Arrived(p, up.links)
                ELSE IF up.links = MaxLinks THEN Lost
                ELSE C[Behind(t, p, up.links + 1)]
    IN  C

-----------------------------------------------------------------------------
\* StartsWith compares characters, so the mount point's last name may go on.
Beside(p) ==
    /\ Len(p) >= Len(LKLMountPoint)
    /\ SubSeq(p, 1, Len(LKLMountPoint) - 1) = Front(LKLMountPoint)
    /\ p[Len(LKLMountPoint)] \in Lookalikes

StartsWith(p) == IsPrefix(LKLMountPoint, p) \/ Beside(p)

\* What lkl_sys_mkdir and lkl_sys_open with LKL_O_CREAT can make.
CanMake(p) ==
    /\ p \notin DOMAIN fs
    /\ \E d \in DOMAIN fs, n \in Names : fs[d].kind = "dir" /\ p = Append(d, n)

Make(p, kind) == [q \in DOMAIN fs \cup {p} |-> IF q = p THEN [kind |-> kind] ELSE fs[q]]

\* Mutant for Contained: the test for the mount point is left out.
OpenExisting_Anywhere ==
    /\ pc = "resolved" /\ mode = "read"
    /\ pc' = "open" /\ file' = target
    /\ UNCHANGED <<fs, name, mode, base, dest, rest, num_links, target>>

\* lkl_sys_open of what RealPath found
OpenExisting ==
    /\ pc = "resolved" /\ mode = "read"
    /\ IF StartsWith(target) THEN pc' = "open" /\ file' = target
       ELSE pc' = "notfound" /\ UNCHANGED file
    /\ UNCHANGED <<fs, name, mode, base, dest, rest, num_links, target>>

\* With EFI_FILE_DIRECTORY the directory is made before the test for the mount
\* point.
OpenNewDir ==
    /\ pc = "resolved" /\ mode = "dir"
    /\ \/ /\ ~CanMake(target)
          /\ pc' = "refused" /\ UNCHANGED <<fs, file>>
       \/ /\ CanMake(target) /\ fs' = Make(target, "dir")
          /\ IF StartsWith(target) THEN pc' = "open" /\ file' = target
             ELSE pc' = "notfound" /\ UNCHANGED file
    /\ UNCHANGED <<name, mode, base, dest, rest, num_links, target>>

\* lkl_sys_open with LKL_O_CREAT, which follows a link in the last component to
\* where it leads and makes the file there.
OpenNewFile ==
    /\ pc = "resolved" /\ mode = "file"
    /\ LET p == IF lstat(target).kind = "link" THEN LinuxCreate(fs)[Behind(fs, target, 1)].path
                ELSE target
       IN  \/ /\ ~StartsWith(target)
              /\ pc' = "notfound" /\ UNCHANGED <<fs, file>>
           \/ /\ StartsWith(target) /\ CanMake(p)
              /\ pc' = "open" /\ file' = p /\ fs' = Make(p, "file")
           \/ /\ StartsWith(target) /\ lstat(p).kind = "file"
              /\ pc' = "open" /\ file' = p /\ UNCHANGED fs
           \/ /\ StartsWith(target) /\ ~CanMake(p) /\ lstat(p).kind # "file"
              /\ pc' = "refused" /\ UNCHANGED <<fs, file>>
    /\ UNCHANGED <<name, mode, base, dest, rest, num_links, target>>

\* LKLOpen has returned.
Returned == pc \in {"notfound", "refused", "open"} /\ UNCHANGED vars

RealPath == Start \/ Dots \/ Step \/ Follow \/ Resolved
Next == RealPath \/ OpenExisting \/ OpenNewDir \/ OpenNewFile \/ Returned

Spec == Init /\ [][Next]_vars
FairSpec == Spec /\ WF_vars(Next)

-----------------------------------------------------------------------------
\* Whatever links and dots the text holds, what RealPath has resolved so far is
\* a path that exists, without a link in it and with directories in front of
\* its end: the mount-point test and the path a handle keeps are about the file
\* itself.
ResolvedIsReal ==
    pc \in {"walk", "resolved"} =>
        /\ dest \in DOMAIN fs
        /\ \A n \in 1 .. Len(dest) - 1 : fs[SubSeq(dest, 1, n)].kind = "dir"
        /\ fs[dest].kind # "link"

\* A handle is on a file or a directory that exists, and IFile->FilePath leads
\* to it again unless the client's path with CREATE ends in a link.  It lies
\* below the mount point, with the two exceptions that the comment at the test
\* ("return error if we're outside the mountpoint's root directory") does not
\* have: a path beside the mount point that begins with its characters, and that
\* link, which Linux follows behind the test.
Contained ==
    pc = "open" =>
        /\ lstat(file).kind \in {"file", "dir"}
        /\ \/ file = target /\ (IsPrefix(LKLMountPoint, target) \/ Beside(target))
           \/ mode = "file" /\ lstat(target).kind = "link"

\* RealPath resolves what Linux resolves, to the same file, in the iterative way
\* and with the same count of links.  What it finds beyond that is what Linux
\* would find if it went on behind a file as behind a directory.  It finds
\* nothing only where there is nothing, outside the mount point, or for lack of
\* room for the text.
AgreesWithLinux ==
    LET linux == LinuxWalk(TRUE, fs)[Point(<< >>, name, 0)]
        lax == LinuxWalk(FALSE, fs)[Point(<< >>, name, 0)]
    IN  /\ pc = "resolved" => /\ linux.ok => linux.path = dest
                              /\ lax = Arrived(dest, num_links)
        /\ pc = "notfound" /\ mode = "read" /\ lax.ok =>
              ~StartsWith(lax.path) \/ (rest # << >> /\ NoRoom)

\* RealPath ends, also on links that lead to each other, and LKLOpen returns.
ResolutionEnds == <>(pc \in {"notfound", "refused", "open"})
=============================================================================
