--------------------------- MODULE LKLPathProofs ---------------------------
(***************************************************************************)
(* ResolvedIsReal, Contained and AgreesWithLinux for every tree, every     *)
(* client text and any number of links.                                    *)
(*                                                                         *)
(* The first invariant, PathInv: until LKLOpen acts on the path the tree   *)
(* is a tree, what is resolved is real, and what LKLOpen acts on is what   *)
(* was resolved.  The second, AgreeInv: what RealPath still has to walk    *)
(* has, for Linux, the result of the whole.  It needs to know what the     *)
(* recursive LinuxWalk computes: that such a function exists               *)
(* (RecursionWorks, WalkEquation), and that to walk a text in front of     *)
(* another is to walk the two one after the other (WalkJoins), which is    *)
(* what RealPath relies on when it puts the text of a link in front of the *)
(* rest.  Both are proved by a least counterexample.                       *)
(***************************************************************************)
EXTENDS LKLPath, TLAPS, WellFoundedInduction, SequenceTheorems

\* What ResolvedIsReal says of a path p in the tree t.
RealIn(t, p) ==
    /\ p \in DOMAIN t
    /\ \A n \in 1 .. Len(p) - 1 : t[SubSeq(p, 1, n)].kind = "dir"
    /\ t[p].kind # "link"

PathInv ==
    /\ pc \in {"start", "walk", "resolved"} => IsTree(fs)
    /\ pc \in {"walk", "resolved"} => dest \in Seq(Names) /\ RealIn(fs, dest)
    /\ pc = "resolved" /\ mode = "read" => target = dest
    /\ Contained

\* The first n elements of a sequence, as a sequence.
LEMMA Prefix ==
    ASSUME NEW S, NEW s \in Seq(S), NEW n \in 0 .. Len(s)
    PROVE  /\ SubSeq(s, 1, n) \in Seq(S) /\ Len(SubSeq(s, 1, n)) = n
           /\ \A i \in 1 .. n : SubSeq(s, 1, n)[i] = s[i]
           /\ n = Len(s) => SubSeq(s, 1, n) = s
<1>1. /\ SubSeq(s, 1, n) \in Seq(S) /\ Len(SubSeq(s, 1, n)) = n
      /\ \A i \in 1 .. n : SubSeq(s, 1, n)[i] = s[i]
  OBVIOUS
<1> QED BY <1>1, SeqEqual

\* Sequences that agree on their first n elements have the same prefix.
LEMMA SamePrefix ==
    ASSUME NEW S, NEW s \in Seq(S), NEW t \in Seq(S), NEW n \in Nat, n <= Len(s), n <= Len(t),
           \A i \in 1 .. n : s[i] = t[i]
    PROVE  SubSeq(s, 1, n) = SubSeq(t, 1, n)
<1>1. n \in 0 .. Len(s) /\ n \in 0 .. Len(t)
  OBVIOUS
<1>2. SubSeq(s, 1, n) \in Seq(S) /\ Len(SubSeq(s, 1, n)) = n /\ \A i \in 1 .. n : SubSeq(s, 1, n)[i] = s[i]
  BY <1>1, Prefix
<1>3. SubSeq(t, 1, n) \in Seq(S) /\ Len(SubSeq(t, 1, n)) = n /\ \A i \in 1 .. n : SubSeq(t, 1, n)[i] = t[i]
  BY <1>1, Prefix
<1> QED BY <1>2, <1>3, SeqEqual

\* A component that exists below a real path leads to a real path, if it is not
\* a link itself.
LEMMA StepIsReal ==
    ASSUME NEW t, IsTree(t), NEW p \in Seq(Names), RealIn(t, p), NEW c \in Names,
           Append(p, c) \in DOMAIN t, t[Append(p, c)].kind # "link"
    PROVE  RealIn(t, Append(p, c))
<1> DEFINE q == Append(p, c)
<1>1. Front(q) = p /\ Len(q) = Len(p) + 1 /\ q # << >> /\ Len(p) \in Nat
  BY DEF Front
<1>2. t[p].kind = "dir"
  BY <1>1 DEF IsTree
<1>3. ASSUME NEW n \in 1 .. Len(q) - 1
      PROVE  t[SubSeq(q, 1, n)].kind = "dir"
  <2>0. n \in 1 .. Len(p) /\ q \in Seq(Names) /\ \A i \in 1 .. n : q[i] = p[i]
    BY <1>1
  <2>1. n \in 1 .. Len(p) /\ SubSeq(q, 1, n) = SubSeq(p, 1, n)
    BY <1>1, <2>0, SamePrefix
  <2>2. CASE n = Len(p)
    <3>1. SubSeq(p, 1, n) = p
      BY <2>1, <2>2, Prefix
    <3> QED BY <2>1, <3>1, <1>2
  <2>3. CASE n # Len(p)
    <3>1. n \in 1 .. Len(p) - 1
      BY <2>1, <2>3, <1>1
    <3>2. t[SubSeq(p, 1, n)].kind = "dir"
      BY <3>1 DEF RealIn
    <3> QED BY <2>1, <3>2
  <2> QED BY <2>2, <2>3
<1> HIDE DEF q
<1>4. q \in DOMAIN t /\ t[q].kind # "link"
  BY DEF q
<1>5. RealIn(t, q)
  BY <1>3, <1>4 DEF RealIn
<1> QED BY <1>5 DEF q

\* The directory a real path lies in is real.
LEMMA UpIsReal ==
    ASSUME NEW t, IsTree(t), NEW p \in Seq(Names), p # << >>, RealIn(t, p)
    PROVE  Front(p) \in Seq(Names) /\ RealIn(t, Front(p))
<1> DEFINE q == Front(p)
<1>1. p \in DOMAIN t /\ Len(p) \in Nat \ {0}
  BY DEF RealIn
<1>2. q \in Seq(Names) /\ Len(q) = Len(p) - 1 /\ \A i \in 1 .. Len(p) - 1 : q[i] = p[i]
  <2>1. Len(p) - 1 \in 0 .. Len(p)
    BY <1>1
  <2> QED BY <2>1, Prefix DEF Front
<1>3. q \in DOMAIN t /\ t[q].kind = "dir"
  BY <1>1 DEF IsTree
<1>4. ASSUME NEW n \in 1 .. Len(q) - 1
      PROVE  t[SubSeq(q, 1, n)].kind = "dir"
  <2> HIDE DEF q
  <2>0. n \in 1 .. Len(p) - 1 /\ \A i \in 1 .. n : q[i] = p[i]
    BY <1>1, <1>2
  <2>1. SubSeq(q, 1, n) = SubSeq(p, 1, n) /\ n \in 1 .. Len(p) - 1
    BY <1>1, <1>2, <2>0, SamePrefix
  <2> QED BY <2>1 DEF RealIn
<1>5. t[q].kind # "link"
  BY <1>3
<1> HIDE DEF q
<1>6. RealIn(t, q)
  BY <1>3, <1>4, <1>5 DEF RealIn
<1> QED BY <1>2, <1>6 DEF q

\* The root is real.
LEMMA RootIsReal ==
    ASSUME NEW t, IsTree(t)
    PROVE  << >> \in Seq(Names) /\ RealIn(t, << >>)
BY DEF IsTree, RealIn

\* The invariant holds when LKLOpen is called.
LEMMA PathInit == Init => PathInv
BY PathAssumption DEF Init, PathInv, Contained

\* RealPath keeps the invariant.
LEMMA WalkKeeps == PathInv /\ RealPath => PathInv'
<1> SUFFICES ASSUME PathInv, RealPath PROVE PathInv'
  OBVIOUS
<1>1. CASE Start
  <2>1. IsTree(fs) /\ dest' = << >> /\ fs' = fs /\ pc' = "walk"
    BY <1>1 DEF Start, PathInv
  <2> QED BY <2>1, RootIsReal DEF PathInv, Contained
<1>2. CASE Dots
  <2>1. pc = "walk" /\ pc' = "walk" /\ fs' = fs /\ IsTree(fs) /\ dest \in Seq(Names) /\ RealIn(fs, dest)
    BY <1>2 DEF Dots, Walking, PathInv
  <2>2. dest' = dest \/ (dest # << >> /\ dest' = Front(dest))
    BY <1>2 DEF Dots
  <2>3. dest' \in Seq(Names) /\ RealIn(fs, dest')
    BY <2>1, <2>2, UpIsReal
  <2> QED BY <2>1, <2>3 DEF PathInv, Contained
<1>3. CASE Step
  <2> DEFINE p == Append(dest, Component)
  <2>1. pc = "walk" /\ fs' = fs /\ IsTree(fs) /\ dest \in Seq(Names) /\ RealIn(fs, dest) /\ Component \in Names
    BY <1>3 DEF Step, Walking, PathInv
  <2>2. CASE lstat(p) = Nowhere
    <3>1. pc' = "notfound"
      BY <1>3, <2>2 DEF Step, Fail
    <3> QED BY <3>1 DEF PathInv, Contained
  <2>3. CASE lstat(p) # Nowhere
    <3>1. p \in DOMAIN fs /\ fs[p].kind # "link" /\ dest' = p /\ pc' = pc
      BY <1>3, <2>3 DEF Step, lstat
    <3>2. RealIn(fs, p) /\ p \in Seq(Names)
      BY <2>1, <3>1, StepIsReal
    <3> QED BY <2>1, <3>1, <3>2 DEF PathInv, Contained
  <2> QED BY <2>2, <2>3
<1>4. CASE Follow
  <2>1. pc = "walk" /\ fs' = fs /\ IsTree(fs) /\ dest \in Seq(Names) /\ RealIn(fs, dest)
    BY <1>4 DEF Follow, Walking, PathInv
  <2>2. \/ pc' = "notfound"
        \/ pc' = pc /\ dest' \in {<< >>, dest}
    BY <1>4 DEF Follow, Fail
  <2>3. CASE pc' = "notfound"
    BY <2>3 DEF PathInv, Contained
  <2>4. CASE pc' = pc /\ dest' \in {<< >>, dest}
    <3>1. dest' \in Seq(Names) /\ RealIn(fs, dest')
      BY <2>1, <2>4, RootIsReal
    <3> QED BY <2>1, <2>4, <3>1 DEF PathInv, Contained
  <2> QED BY <2>2, <2>3, <2>4
<1>5. CASE Resolved
  BY <1>5 DEF Resolved, PathInv, Contained
<1> QED BY <1>1, <1>2, <1>3, <1>4, <1>5 DEF RealPath

\* LKLOpen keeps it when it acts on the resolved path.
LEMMA OpenKeeps == PathInv /\ (OpenExisting \/ OpenNewDir \/ OpenNewFile) => PathInv'
<1> SUFFICES ASSUME PathInv, OpenExisting \/ OpenNewDir \/ OpenNewFile PROVE PathInv'
  OBVIOUS
<1>1. pc = "resolved" /\ pc' \in {"open", "notfound", "refused"} /\ target' = target /\ mode' = mode
  BY DEF OpenExisting, OpenNewDir, OpenNewFile
<1>2. ASSUME pc' = "open" PROVE Contained'
  <2>0. ASSUME NEW p, NEW kind \in {"file", "dir"}, fs' = Make(p, kind), CanMake(p)
        PROVE  /\ p \in DOMAIN fs' /\ fs'[p].kind = kind
               /\ \A q \in DOMAIN fs : q \in DOMAIN fs' /\ fs'[q] = fs[q]
    BY <2>0 DEF Make, CanMake
  <2>1. CASE OpenExisting
    <3>1. mode = "read" /\ fs' = fs /\ StartsWith(target) /\ file' = target
      BY <1>2, <2>1 DEF OpenExisting
    <3>2. target \in DOMAIN fs /\ fs[target] \in Entries /\ fs[target].kind # "link"
      BY <1>1, <3>1 DEF PathInv, RealIn, IsTree
    <3>3. fs[target].kind \in {"file", "dir"}
      BY <3>2 DEF Entries
    <3> QED BY <1>1, <3>1, <3>2, <3>3 DEF Contained, StartsWith, Beside, lstat
  <2>2. CASE OpenNewDir
    <3>1. StartsWith(target) /\ fs' = Make(target, "dir") /\ CanMake(target) /\ file' = target
      BY <1>2, <2>2 DEF OpenNewDir
    <3> QED BY <1>1, <2>0, <3>1 DEF Contained, StartsWith, Beside, lstat
  <2>3. CASE OpenNewFile
    <3> DEFINE p == IF lstat(target).kind = "link" THEN LinuxCreate(fs)[Behind(fs, target, 1)].path
                    ELSE target
    <3>1. /\ mode = "file" /\ StartsWith(target) /\ file' = p
          /\ \/ CanMake(p) /\ fs' = Make(p, "file")
             \/ lstat(p).kind = "file" /\ fs' = fs
      BY <1>2, <2>3 DEF OpenNewFile
    <3>2. p = target \/ lstat(target).kind = "link"
      BY DEF p
    <3> HIDE DEF p
    <3>3. lstat(file)'.kind = "file"
      BY <2>0, <3>1 DEF lstat, Nowhere
    <3>4. lstat(target).kind = "link" => lstat(target)'.kind = "link"
      <4>1. lstat(target).kind = "link" => target \in DOMAIN fs
        BY DEF lstat, Nowhere
      <4> QED BY <1>1, <2>0, <3>1, <4>1 DEF lstat
    <3> QED BY <1>1, <3>1, <3>2, <3>3, <3>4 DEF Contained, StartsWith, Beside
  <2> QED BY <2>1, <2>2, <2>3
<1> QED BY <1>1, <1>2 DEF PathInv, Contained

\* The invariant holds in every state.
LEMMA PathInvariant == Spec => []PathInv
<1>1. PathInv /\ [Next]_vars => PathInv'
  <2> SUFFICES ASSUME PathInv, [Next]_vars PROVE PathInv'
    OBVIOUS
  <2>1. CASE UNCHANGED vars \/ Returned
    BY <2>1 DEF vars, Returned, PathInv, Contained, RealIn, lstat, Beside
  <2> QED BY <2>1, WalkKeeps, OpenKeeps DEF Next
<1> QED BY <1>1, PathInit, PTL DEF Spec

\* Whatever links and dots a client's text leads through, in any tree, what
\* RealPath has resolved exists and holds no link.
THEOREM ResolvesToReal == Spec => []ResolvedIsReal
<1>1. PathInv => ResolvedIsReal
  BY DEF PathInv, ResolvedIsReal, RealIn
<1> QED BY <1>1, PathInvariant, PTL

\* In any tree, a handle that LKLOpen gives out is on the file or directory its
\* path names, below the mount point or, since StartsWith compares characters,
\* beside it; only a path that ends in a link is opened, with CREATE, where Linux
\* follows the link to.
THEOREM HandlesContained == Spec => []Contained
<1>1. PathInv => Contained
  BY DEF PathInv
<1> QED BY <1>1, PathInvariant, PTL

-----------------------------------------------------------------------------
(* Recursion along a well-founded order: a function that is computed from  *)
(* its own values at smaller arguments exists.                             *)

\* y is x or before it.
UpTo(R, y, x) == y = x \/ <<y, x>> \in R

\* The functions on S whose value at x is in V[x].
Choices(S, V) == {g \in [S -> UNION {V[x] : x \in S}] : \A x \in S : g[x] \in V[x]}

\* g and h agree before x.
SameBefore(S, R, g, h, x) == \A y \in S : <<y, x>> \in R => g[y] = h[y]

\* H computes the value at x from the values before x.
LooksBack(S, R, V, H) ==
    /\ \A x \in S : V[x] # {}
    /\ H \in [Choices(S, V) -> Choices(S, V)]
    /\ \A g, h \in Choices(S, V), x \in S : SameBefore(S, R, g, h, x) => H[g][x] = H[h][x]

\* R is a well-founded order on S.
WFOrder(S, R) ==
    /\ IsWellFoundedOn(R, S)
    /\ \A x, y, z \in S : <<x, y>> \in R /\ <<y, z>> \in R => <<x, z>> \in R

\* g is a fixed point of H up to x.
FixedUpTo(S, R, V, H, g, x) == g \in Choices(S, V) /\ \A y \in S : UpTo(R, y, x) => g[y] = H[g][y]

\* G has a fixed point for each member of D, which holds all that is before it.
FixedOn(S, R, V, H, G, D) ==
    /\ D \subseteq S /\ \A x \in D : FixedUpTo(S, R, V, H, G[x], x)
    /\ \A x \in D, y \in S : <<y, x>> \in R => y \in D

\* f has at x the value of the fixed point for x.
Diagonal(f, G, D) == \A x \in D : f[x] = G[x][x]

\* A function with its values in V is a choice.
LEMMA MakeChoice ==
    ASSUME NEW S, NEW V, NEW f, f = [x \in S |-> f[x]], \A x \in S : f[x] \in V[x]
    PROVE  f \in Choices(S, V)
<1>1. \A x \in S : f[x] \in UNION {V[y] : y \in S}
  OBVIOUS
<1> QED BY <1>1 DEF Choices

\* Fixed points agree as far as they both go.
LEMMA FixedUnique ==
    ASSUME NEW S, NEW R, NEW V, NEW H, WFOrder(S, R), LooksBack(S, R, V, H),
           NEW x \in S, NEW z \in S, NEW g, NEW h, FixedUpTo(S, R, V, H, g, x), FixedUpTo(S, R, V, H, h, z),
           NEW y \in S, UpTo(R, y, x), UpTo(R, y, z)
    PROVE  g[y] = h[y]
<1> DEFINE T == {u \in S : UpTo(R, u, x) /\ UpTo(R, u, z) /\ g[u] # h[u]}
<1> SUFFICES ASSUME T # {} PROVE FALSE
  OBVIOUS
<1>1. IsWellFoundedOn(R, S) /\ T \subseteq S
  BY DEF WFOrder
<1> HIDE DEF T
<1>2. PICK m \in T : \A u \in T : ~(<<u, m>> \in R)
  BY <1>1, WFMin, Zenon
<1>3. m \in S /\ UpTo(R, m, x) /\ UpTo(R, m, z) /\ g[m] # h[m]
  BY <1>2 DEF T
<1>4. SameBefore(S, R, g, h, m)
  <2>1. ASSUME NEW u \in S, <<u, m>> \in R PROVE g[u] = h[u]
    <3>1. UpTo(R, u, x) /\ UpTo(R, u, z)
      BY <1>3, <2>1 DEF WFOrder, UpTo
    <3> QED BY <1>2, <2>1, <3>1 DEF T
  <2> QED BY <2>1 DEF SameBefore
<1>5. H[g][m] = H[h][m]
  BY <1>3, <1>4 DEF LooksBack, FixedUpTo
<1> QED BY <1>3, <1>5 DEF FixedUpTo

\* The function made of the fixed points before x.
LEMMA FixedGlued ==
    ASSUME NEW S, NEW R, NEW V, NEW H, WFOrder(S, R), LooksBack(S, R, V, H), NEW G, NEW D,
           FixedOn(S, R, V, H, G, D), NEW f \in Choices(S, V), Diagonal(f, G, D)
    PROVE  \A x \in D : f[x] = H[f][x]
<1> SUFFICES ASSUME NEW x \in D PROVE f[x] = H[f][x]
  OBVIOUS
<1> USE DEF FixedOn, Diagonal
<1>1. G[x] \in Choices(S, V) /\ G[x][x] = H[G[x]][x] /\ x \in S
  BY DEF FixedUpTo, UpTo
<1>2. SameBefore(S, R, f, G[x], x)
  <2>1. ASSUME NEW y \in S, <<y, x>> \in R PROVE f[y] = G[x][y]
    <3>1. y \in D /\ f[y] = G[y][y] /\ UpTo(R, y, y) /\ UpTo(R, y, x) /\ x \in S
      BY <2>1 DEF UpTo
    <3>2. FixedUpTo(S, R, V, H, G[y], y) /\ FixedUpTo(S, R, V, H, G[x], x)
      BY <3>1
    <3>3. G[y][y] = G[x][y]
      BY <3>1, <3>2, FixedUnique
    <3> QED BY <3>1, <3>3
  <2> QED BY <2>1 DEF SameBefore
<1>3. H[f][x] = H[G[x]][x]
  BY <1>1, <1>2 DEF LooksBack
<1> QED BY <1>1, <1>3

\* A least point without a fixed point up to it would get one from those before.
LEMMA FixedExists ==
    ASSUME NEW S, NEW R, NEW V, NEW H, WFOrder(S, R), LooksBack(S, R, V, H)
    PROVE  \A x \in S : \E g : FixedUpTo(S, R, V, H, g, x)
<1> DEFINE T == {x \in S : ~\E g : FixedUpTo(S, R, V, H, g, x)}
<1> SUFFICES ASSUME T # {} PROVE FALSE
  OBVIOUS
<1>1. IsWellFoundedOn(R, S) /\ T \subseteq S
  BY DEF WFOrder
<1>2. PICK m \in T : \A u \in T : ~(<<u, m>> \in R)
  <2> HIDE DEF T
  <2> QED BY <1>1, WFMin, Zenon
<1> DEFINE D == {y \in S : <<y, m>> \in R}
           G == [y \in S |-> CHOOSE g : FixedUpTo(S, R, V, H, g, y)]
           k == [y \in S |-> IF y \in D THEN G[y][y] ELSE CHOOSE v : v \in V[y]]
           f == [y \in S |-> IF y = m THEN H[k][m] ELSE k[y]]
<1>3. m \in S /\ <<m, m>> \notin R /\ ~\E g : FixedUpTo(S, R, V, H, g, m)
  BY <1>2
<1>4. \A y \in D : FixedUpTo(S, R, V, H, G[y], y)
  <2> SUFFICES ASSUME NEW y \in D PROVE FixedUpTo(S, R, V, H, G[y], y)
    OBVIOUS
  <2>1. \E g : FixedUpTo(S, R, V, H, g, y)
    BY <1>2
  <2>2. FixedUpTo(S, R, V, H, CHOOSE g : FixedUpTo(S, R, V, H, g, y), y)
    BY <2>1, Zenon
  <2> QED BY <2>2
<1>5. k \in Choices(S, V)
  <2>1. ASSUME NEW y \in S PROVE k[y] \in V[y]
    <3>1. CASE y \in D
      <4>1. G[y] \in Choices(S, V)
        BY <1>4, <3>1 DEF FixedUpTo
      <4>2. G[y][y] \in V[y]
        BY <4>1 DEF Choices
      <4> QED BY <3>1, <4>2
    <3>2. CASE y \notin D
      <4>1. V[y] # {}
        BY DEF LooksBack
      <4>2. (CHOOSE v : v \in V[y]) \in V[y]
        BY <4>1, Zenon
      <4> QED BY <3>2, <4>2
    <3> QED BY <3>1, <3>2
  <2>2. k = [x \in S |-> k[x]]
    OBVIOUS
  <2> HIDE DEF k
  <2> QED BY <2>1, <2>2, MakeChoice
<1>6. \A y \in D : k[y] = H[k][y]
  <2>1. \A x \in D, y \in S : <<y, x>> \in R => y \in D
    BY <1>3 DEF WFOrder
  <2>2. D \in SUBSET S /\ \A y \in D : k[y] = G[y][y]
    OBVIOUS
  <2> HIDE DEF k, D, G
  <2>3. FixedOn(S, R, V, H, G, D) /\ Diagonal(k, G, D)
    BY <1>4, <2>1, <2>2 DEF FixedOn, Diagonal
  <2> QED BY <1>5, <2>3, FixedGlued
<1>7. H[k] \in Choices(S, V)
  BY <1>5 DEF LooksBack
<1>8. f \in Choices(S, V)
  <2>1. \A y \in S : H[k][y] \in V[y] /\ k[y] \in V[y]
    <3> HIDE DEF k
    <3> QED BY <1>5, <1>7 DEF Choices
  <2>2. \A y \in S : f[y] \in V[y]
    <3> HIDE DEF k
    <3> QED BY <2>1
  <2>3. f = [x \in S |-> f[x]]
    OBVIOUS
  <2> HIDE DEF f
  <2> QED BY <2>2, <2>3, MakeChoice
<1>9. \A y \in S : y # m => f[y] = k[y]
  <2> HIDE DEF k
  <2> QED OBVIOUS
<1>10. f[m] = H[k][m]
  BY <1>3
<1> HIDE DEF f, k, G
<1>11. ASSUME NEW y \in S, UpTo(R, y, m) PROVE f[y] = H[f][y]
  <2>1. SameBefore(S, R, f, k, y)
    <3>1. ASSUME NEW z \in S, <<z, y>> \in R PROVE z # m
      BY <1>3, <1>11, <3>1 DEF WFOrder, UpTo
    <3> QED BY <1>9, <3>1 DEF SameBefore
  <2>2. H[f][y] = H[k][y]
    BY <1>5, <1>8, <2>1 DEF LooksBack
  <2>3. CASE y = m
    BY <1>10, <2>2, <2>3
  <2>4. CASE y # m
    <3>1. y \in D
      BY <1>11, <2>4 DEF UpTo
    <3> QED BY <1>6, <1>9, <2>2, <2>4, <3>1
  <2> QED BY <2>3, <2>4
<1>12. FixedUpTo(S, R, V, H, f, m)
  BY <1>8, <1>11 DEF FixedUpTo
<1> QED BY <1>3, <1>12

\* What is computed from smaller arguments can be computed for all.
LEMMA RecursionWorks ==
    ASSUME NEW S, NEW R, NEW V, NEW H, WFOrder(S, R), LooksBack(S, R, V, H)
    PROVE  \E f \in Choices(S, V) : f = H[f]
<1> DEFINE G == [y \in S |-> CHOOSE g : FixedUpTo(S, R, V, H, g, y)]
           f == [y \in S |-> G[y][y]]
<1>1. \A y \in S : FixedUpTo(S, R, V, H, G[y], y)
  <2> SUFFICES ASSUME NEW y \in S PROVE FixedUpTo(S, R, V, H, G[y], y)
    OBVIOUS
  <2>1. \E g : FixedUpTo(S, R, V, H, g, y)
    BY FixedExists
  <2>2. FixedUpTo(S, R, V, H, CHOOSE g : FixedUpTo(S, R, V, H, g, y), y)
    BY <2>1, Zenon
  <2> QED BY <2>2
<1>2. f \in Choices(S, V)
  <2>1. \A y \in S : f[y] \in V[y]
    <3> HIDE DEF G
    <3>1. \A y \in S : G[y][y] \in V[y]
      BY <1>1 DEF FixedUpTo, Choices
    <3> QED BY <3>1
  <2>2. f = [x \in S |-> f[x]]
    OBVIOUS
  <2> HIDE DEF f
  <2> QED BY <2>1, <2>2, MakeChoice
<1>3. \A y \in S : f[y] = G[y][y]
  <2> HIDE DEF G
  <2> QED OBVIOUS
<1> HIDE DEF f, G
<1>4. \A y \in S : f[y] = H[f][y]
  <2>1. FixedOn(S, R, V, H, G, S) /\ Diagonal(f, G, S)
    BY <1>1, <1>3 DEF FixedOn, Diagonal
  <2> QED BY <1>2, <2>1, FixedGlued
<1>5. H[f] \in Choices(S, V)
  BY <1>2 DEF LooksBack
<1>6. f = H[f]
  BY <1>2, <1>4, <1>5 DEF Choices
<1> QED BY <1>2, <1>6
-----------------------------------------------------------------------------
(* The walk of the Linux kernel exists: every turn leads to a point with   *)
(* more links behind it or with less text in front of it.                  *)

\* y comes after x on a walk.
Less(y, x) == x.links < y.links \/ (x.links = y.links /\ Len(y.text) < Len(x.text))

WalkOrder == {yx \in WalkPoints \X WalkPoints : Less(yx[1], yx[2])}

\* What a walk from x may return.
WalkResults(x) == {Lost} \cup {Arrived(d, n) : d \in Seq(Names), n \in x.links .. MaxLinks}

\* The parts of a point made of a directory, a text and a number of links
LEMMA PointTyped ==
    ASSUME NEW d \in Seq(Names), NEW s \in Seq(Components), NEW n \in 0 .. MaxLinks
    PROVE  /\ Point(d, s, n) \in WalkPoints
           /\ Point(d, s, n).dir = d /\ Point(d, s, n).text = s /\ Point(d, s, n).links = n
BY DEF Point, WalkPoints

\* The types of the parts of any point
LEMMA PointParts ==
    ASSUME NEW x \in WalkPoints
    PROVE  /\ x.dir \in Seq(Names) /\ x.text \in Seq(Components) /\ x.links \in 0 .. MaxLinks
           /\ x.links \in Nat /\ Len(x.text) \in Nat /\ x = Point(x.dir, x.text, x.links)
BY PathAssumption DEF Point, WalkPoints

\* A walk that is lost did not arrive.
LEMMA LostParts == ~Lost.ok
<1>1. Lost.ok = FALSE
  BY DEF Lost
<1> QED BY <1>1, Zenon

\* A result is lost, or arrived with no fewer links than there were at the start.
LEMMA ResultParts ==
    ASSUME NEW x \in WalkPoints, NEW r \in WalkResults(x)
    PROVE  /\ ~r.ok => r = Lost
           /\ r.ok => /\ r = Arrived(r.path, r.links) /\ r.path \in Seq(Names)
                      /\ r.links \in x.links .. MaxLinks /\ r.links \in 0 .. MaxLinks
<1>1. x.links \in 0 .. MaxLinks /\ MaxLinks \in Nat
  BY PointParts, PathAssumption
<1>2. CASE r = Lost
  BY <1>2, LostParts, SMT
<1>3. CASE \E d \in Seq(Names), n \in x.links .. MaxLinks : r = Arrived(d, n)
  BY <1>1, <1>3 DEF Arrived
<1> QED BY <1>2, <1>3 DEF WalkResults

\* A set of numbers has a smallest element.
LEMMA SmallestNat ==
    ASSUME NEW T, T \subseteq Nat, T # {}
    PROVE  \E m \in T : \A y \in T : m <= y
<1>1. PICK m \in T : \A y \in T : ~(<<y, m>> \in OpToRel(<, Nat))
  BY NatLessThanWellFounded, WFMin
<1>2. ASSUME NEW y \in T PROVE m <= y
  <2>1. <<y, m>> \in Nat \X Nat /\ <<y, m>>[1] = y /\ <<y, m>>[2] = m
    OBVIOUS
  <2>2. ~(<<y, m>>[1] < <<y, m>>[2])
    BY <1>1, <2>1, Zenon DEF OpToRel
  <2>3. ~(y < m)
    BY <2>1, <2>2, Zenon
  <2> QED BY <2>3
<1> QED BY <1>2

\* The order on the points is one, and every walk ends.
LEMMA WalkOrdered == WFOrder(WalkPoints, WalkOrder)
<1>0. MaxLinks \in Nat
  BY PathAssumption
<1>1. ASSUME NEW x \in WalkPoints, NEW y \in WalkPoints, NEW z \in WalkPoints,
             <<x, y>> \in WalkOrder, <<y, z>> \in WalkOrder
      PROVE  <<x, z>> \in WalkOrder
  <2>1. Less(x, y) /\ Less(y, z)
    BY <1>1 DEF WalkOrder
  <2>2. Less(x, z)
    BY <2>1, PointParts DEF Less
  <2> QED BY <2>2 DEF WalkOrder
<1>2. ASSUME NEW T \in SUBSET WalkPoints, T # {}
      PROVE  \E x \in T : \A y \in T : ~(<<y, x>> \in WalkOrder)
  <2> DEFINE L == {MaxLinks - x.links : x \in T}
  <2>1. L \subseteq Nat /\ L # {}
    BY <1>0, <1>2, PointParts
  <2>2. PICK l \in L : \A j \in L : l <= j
    <3> HIDE DEF L
    <3> QED BY <2>1, SmallestNat
  <2>3. PICK w \in T : l = MaxLinks - w.links
    BY <2>2
  <2>4. ASSUME NEW y \in T PROVE y.links <= w.links
    <3>1. l <= MaxLinks - y.links
      BY <2>2
    <3>2. y.links \in Nat /\ w.links \in Nat
      BY PointParts
    <3> QED BY <1>0, <2>3, <3>1, <3>2
  <2> DEFINE K == {u \in T : u.links = w.links}
             M == {Len(x.text) : x \in K}
  <2>5. M \subseteq Nat /\ M # {}
    <3>1. w \in K /\ \A x \in K : Len(x.text) \in Nat
      BY <2>3, PointParts
    <3> HIDE DEF K
    <3> QED BY <3>1
  <2>6. PICK m \in M : \A j \in M : m <= j
    <3> HIDE DEF M
    <3> QED BY <2>5, SmallestNat
  <2>7. PICK x \in T : x.links = w.links /\ m = Len(x.text)
    BY <2>6
  <2>8. ASSUME NEW y \in T PROVE ~Less(y, x)
    <3>1. y.links <= x.links /\ (y.links = x.links => Len(x.text) <= Len(y.text))
      BY <2>4, <2>6, <2>7
    <3>2. y.links \in Nat /\ x.links \in Nat /\ Len(y.text) \in Nat /\ Len(x.text) \in Nat
      BY PointParts
    <3> QED BY <3>1, <3>2 DEF Less
  <2>9. ASSUME NEW y \in T PROVE ~(<<y, x>> \in WalkOrder)
    BY <2>8 DEF WalkOrder
  <2> QED BY <2>9
<1>3. IsWellFoundedOn(WalkOrder, WalkPoints)
  BY <1>2, MinWF
<1> QED BY <1>1, <1>3 DEF WFOrder

\* The three ways a turn of the walk can go: it fails, it goes on in another
\* directory, or it has a link to follow first.  They depend on the directory,
\* the component and the number of links only.
LostAt(strict, t, d, c, n) ==
    \A W, s : s # << >> /\ Head(s) = c => WalkOn(strict, t, W, Point(d, s, n)) = Lost

OnTo(strict, t, d, c, n, e) ==
    \A W, s : s # << >> /\ Head(s) = c =>
                 WalkOn(strict, t, W, Point(d, s, n)) = W[Point(e, Tail(s), n)]

After(W, r, s) == IF r.ok THEN W[Point(r.path, s, r.links)] ELSE Lost

LinkTo(strict, t, d, c, n, e, u) ==
    \A W, s : s # << >> /\ Head(s) = c =>
                 WalkOn(strict, t, W, Point(d, s, n)) = After(W, W[Point(e, u, n + 1)], Tail(s))

\* A turn of the walk ends it, goes on in the text, or takes a link.
LEMMA TurnGoes ==
    ASSUME NEW strict \in BOOLEAN, NEW t, IsTree(t), NEW d \in Seq(Names), NEW c \in Components, NEW n \in 0 .. MaxLinks
    PROVE  \/ LostAt(strict, t, d, c, n)
           \/ \E e \in Seq(Names) : OnTo(strict, t, d, c, n, e)
           \/ \E e \in Seq(Names), u \in Seq(Components) : n + 1 \in 0 .. MaxLinks /\ LinkTo(strict, t, d, c, n, e, u)
<1> DEFINE p == Append(d, c)
<1>0. \A s : Point(d, s, n).dir = d /\ Point(d, s, n).text = s /\ Point(d, s, n).links = n
  BY DEF Point
<1>1. CASE strict /\ t[d].kind # "dir"
  <2>1. LostAt(strict, t, d, c, n)
    BY <1>0, <1>1 DEF LostAt, WalkOn
  <2> QED BY <2>1
<1>2. CASE ~(strict /\ t[d].kind # "dir") /\ c \in {Dot, Empty}
  <2>1. OnTo(strict, t, d, c, n, d)
    BY <1>0, <1>2 DEF OnTo, WalkOn
  <2> QED BY <2>1
<1>3. CASE ~(strict /\ t[d].kind # "dir") /\ c = DotDot
  <2> DEFINE e == IF d = << >> THEN d ELSE Front(d)
  <2>1. OnTo(strict, t, d, c, n, e)
    BY <1>0, <1>3 DEF OnTo, WalkOn, Dot, DotDot, Empty
  <2>2. e \in Seq(Names)
    <3>1. CASE d # << >>
      <4>1. Len(d) - 1 \in 0 .. Len(d)
        BY <3>1
      <4>2. Front(d) \in Seq(Names)
        BY <4>1, Prefix DEF Front
      <4> QED BY <3>1, <4>2
    <3> QED BY <3>1
  <2> QED BY <2>1, <2>2
<1>4. CASE ~(strict /\ t[d].kind # "dir") /\ c \notin {Dot, Empty, DotDot} /\ (p \notin DOMAIN t \/ (t[p].kind = "link" /\ n = MaxLinks))
  <2>1. LostAt(strict, t, d, c, n)
    BY <1>0, <1>4 DEF LostAt, WalkOn
  <2> QED BY <2>1
<1>5. CASE ~(strict /\ t[d].kind # "dir") /\ c \notin {Dot, Empty, DotDot} /\ p \in DOMAIN t /\ t[p].kind # "link"
  <2>1. OnTo(strict, t, d, c, n, p)
    BY <1>0, <1>5 DEF OnTo, WalkOn
  <2>2. p \in Seq(Names)
    BY <1>5 DEF Components
  <2> QED BY <2>1, <2>2
<1>6. CASE ~(strict /\ t[d].kind # "dir") /\ c \notin {Dot, Empty, DotDot} /\ p \in DOMAIN t /\ t[p].kind = "link" /\ n # MaxLinks
  <2> DEFINE e == IF t[p].to.abs THEN << >> ELSE d
             u == t[p].to.text
  <2>1. ASSUME NEW W, NEW s, s # << >>, Head(s) = c
        PROVE  WalkOn(strict, t, W, Point(d, s, n)) = After(W, W[Point(e, u, n + 1)], Tail(s))
    BY <1>0, <1>6, <2>1 DEF After, WalkOn
  <2>2. e \in Seq(Names) /\ u \in Seq(Components)
    <3>1. t[p] \in Entries
      BY <1>6 DEF IsTree
    <3>2. t[p].to \in Texts
      BY <1>6, <3>1 DEF Entries
    <3> QED BY <3>2 DEF Texts
  <2>3. n + 1 \in 0 .. MaxLinks
    BY <1>6, PathAssumption
  <2> HIDE DEF e, u
  <2>4. LinkTo(strict, t, d, c, n, e, u)
    BY <2>1 DEF LinkTo
  <2> QED BY <2>2, <2>3, <2>4
<1> QED BY <1>1, <1>2, <1>3, <1>4, <1>5, <1>6

\* The first component of a text and what is behind it
LEMMA TailParts ==
    ASSUME NEW s \in Seq(Components), s # << >>
    PROVE  Head(s) \in Components /\ Tail(s) \in Seq(Components) /\ Len(Tail(s)) < Len(s)
OBVIOUS

\* A turn of the walk from x, in terms of the points it leads to.
Fails(strict, t, x) == \A W : WalkOn(strict, t, W, x) = Lost
GoesTo(strict, t, x, y) ==
    y \in WalkPoints /\ Less(y, x) /\ y.links = x.links /\ \A W : WalkOn(strict, t, W, x) = W[y]
Follows(strict, t, x, y) ==
    /\ y \in WalkPoints /\ Less(y, x) /\ y.links = x.links + 1
    /\ \A W : WalkOn(strict, t, W, x) = After(W, W[y], Tail(x.text))

\* The same, as what WalkOn is of a walk W: lost, W at a later point, or W behind
\* where W takes the link.
LEMMA TurnLeads ==
    ASSUME NEW strict \in BOOLEAN, NEW t, IsTree(t), NEW x \in WalkPoints, x.text # << >>
    PROVE  Fails(strict, t, x) \/ (\E y : GoesTo(strict, t, x, y)) \/ (\E y : Follows(strict, t, x, y))
<1> DEFINE d == x.dir
           s == x.text
           n == x.links
           c == Head(s)
<1>1. d \in Seq(Names) /\ s \in Seq(Components) /\ n \in 0 .. MaxLinks /\ n \in Nat /\ Len(s) \in Nat /\ x = Point(d, s, n)
  BY PointParts
<1>2. c \in Components /\ Tail(s) \in Seq(Components) /\ Len(Tail(s)) < Len(s) /\ s # << >>
  BY <1>1, TailParts
<1> HIDE DEF d, s, n, c
<1>3. CASE LostAt(strict, t, d, c, n)
  <2>1. Fails(strict, t, x)
    BY <1>1, <1>2, <1>3 DEF Fails, LostAt, c
  <2> QED BY <2>1
<1>4. ASSUME NEW e \in Seq(Names), OnTo(strict, t, d, c, n, e) PROVE \E y : GoesTo(strict, t, x, y)
  <2> DEFINE w == Tail(s)
             y == Point(e, w, n)
  <2>1. y \in WalkPoints /\ y.text = w /\ y.links = n
    <3>1. w \in Seq(Components)
      BY <1>2
    <3> HIDE DEF w
    <3> QED BY <1>1, <3>1, PointTyped
  <2>2. Less(y, x)
    BY <1>2, <2>1 DEF Less, n, s
  <2>3. \A W : WalkOn(strict, t, W, x) = W[y]
    BY <1>1, <1>2, <1>4 DEF OnTo, c
  <2> HIDE DEF y
  <2>4. GoesTo(strict, t, x, y)
    BY <2>1, <2>2, <2>3 DEF GoesTo, n
  <2> QED BY <2>4
<1>5. ASSUME NEW e \in Seq(Names), NEW u \in Seq(Components), n + 1 \in 0 .. MaxLinks, LinkTo(strict, t, d, c, n, e, u)
      PROVE  \E y : Follows(strict, t, x, y)
  <2> DEFINE y == Point(e, u, n + 1)
  <2>1. y \in WalkPoints /\ y.links = n + 1
    BY <1>5, PointTyped
  <2>2. Less(y, x)
    BY <1>1, <2>1 DEF Less, n
  <2>3. \A W : WalkOn(strict, t, W, x) = After(W, W[y], Tail(s))
    BY <1>1, <1>2, <1>5 DEF LinkTo, c
  <2> HIDE DEF y
  <2>4. Follows(strict, t, x, y)
    BY <2>1, <2>2, <2>3 DEF Follows, n, s
  <2> QED BY <2>4
<1> QED BY <1>1, <1>2, <1>3, <1>4, <1>5, TurnGoes

\* The point where the walk goes on behind a link.
LEMMA AfterLink ==
    ASSUME NEW x \in WalkPoints, x.text # << >>, NEW y \in WalkPoints, y.links = x.links + 1,
           NEW r \in WalkResults(y), r.ok
    PROVE  /\ Point(r.path, Tail(x.text), r.links) \in WalkPoints
           /\ Less(Point(r.path, Tail(x.text), r.links), x)
           /\ Point(r.path, Tail(x.text), r.links).links \in x.links .. MaxLinks
<1>1. r.path \in Seq(Names) /\ r.links \in y.links .. MaxLinks /\ r.links \in 0 .. MaxLinks
  BY ResultParts
<1>2. x.links \in Nat /\ x.text \in Seq(Components) /\ Tail(x.text) \in Seq(Components) /\ MaxLinks \in Nat
  BY PointParts, TailParts, PathAssumption
<1> DEFINE z == Point(r.path, Tail(x.text), r.links)
<1>3. z \in WalkPoints /\ z.links = r.links
  BY <1>1, <1>2, PointTyped
<1> HIDE DEF z
<1>4. Less(z, x) /\ z.links \in x.links .. MaxLinks
  BY <1>1, <1>2, <1>3 DEF Less
<1> QED BY <1>3, <1>4 DEF z

\* A result of a walk with more links is one of a walk with fewer.
LEMMA LaterResults ==
    ASSUME NEW x \in WalkPoints, NEW y \in WalkPoints, y.links \in x.links .. MaxLinks, NEW r \in WalkResults(y)
    PROVE  r \in WalkResults(x)
<1>1. x.links \in Nat /\ MaxLinks \in Nat
  BY PointParts, PathAssumption
<1>2. y.links .. MaxLinks \subseteq x.links .. MaxLinks
  BY <1>1
<1> QED BY <1>2 DEF WalkResults

\* g has results for all points behind x.
ResultsBehind(g, x) == \A y \in WalkPoints : Less(y, x) => g[y] \in WalkResults(y)

\* A turn has a result if the points behind it have.
LEMMA WalkOnTyped ==
    ASSUME NEW strict \in BOOLEAN, NEW t, IsTree(t), NEW x \in WalkPoints, NEW g, ResultsBehind(g, x)
    PROVE  WalkOn(strict, t, g, x) \in WalkResults(x)
<1>0. Lost \in WalkResults(x)
  BY DEF WalkResults
<1>1. CASE x.text = << >>
  <2>1. WalkOn(strict, t, g, x) = Arrived(x.dir, x.links)
    BY <1>1 DEF WalkOn
  <2>2. x.dir \in Seq(Names) /\ x.links \in x.links .. MaxLinks
    BY PointParts, PathAssumption
  <2> QED BY <2>1, <2>2 DEF WalkResults
<1>2. CASE x.text # << >> /\ Fails(strict, t, x)
  BY <1>0, <1>2 DEF Fails
<1>3. ASSUME x.text # << >>, NEW y, GoesTo(strict, t, x, y) PROVE WalkOn(strict, t, g, x) \in WalkResults(x)
  <2>1. y \in WalkPoints /\ Less(y, x) /\ y.links = x.links /\ WalkOn(strict, t, g, x) = g[y]
    BY <1>3 DEF GoesTo
  <2>2. g[y] \in WalkResults(y)
    BY <2>1 DEF ResultsBehind
  <2> QED BY <2>1, <2>2 DEF WalkResults
<1>4. ASSUME x.text # << >>, NEW y, Follows(strict, t, x, y) PROVE WalkOn(strict, t, g, x) \in WalkResults(x)
  <2> DEFINE r == g[y]
             z == Point(r.path, Tail(x.text), r.links)
  <2>1. y \in WalkPoints /\ Less(y, x) /\ y.links = x.links + 1 /\ WalkOn(strict, t, g, x) = After(g, g[y], Tail(x.text))
    BY <1>4 DEF Follows
  <2>2. r \in WalkResults(y)
    BY <2>1 DEF ResultsBehind
  <2>3. CASE r.ok
    <3>1. z \in WalkPoints /\ Less(z, x) /\ z.links \in x.links .. MaxLinks
      <4> HIDE DEF r
      <4> QED BY <1>4, <2>1, <2>2, <2>3, AfterLink
    <3>2. g[z] \in WalkResults(z)
      BY <3>1 DEF ResultsBehind
    <3>3. WalkOn(strict, t, g, x) = g[z]
      BY <2>1, <2>3 DEF After
    <3> HIDE DEF z
    <3> QED BY <3>1, <3>2, <3>3, LaterResults
  <2>4. CASE ~r.ok
    BY <1>0, <2>1, <2>4 DEF After
  <2> QED BY <2>3, <2>4
<1> QED BY <1>1, <1>2, <1>3, <1>4, TurnLeads

\* A turn looks only at the points behind it.
LEMMA WalkOnSame ==
    ASSUME NEW strict \in BOOLEAN, NEW t, IsTree(t), NEW x \in WalkPoints, NEW g, NEW h, ResultsBehind(g, x),
           \A y \in WalkPoints : Less(y, x) => g[y] = h[y]
    PROVE  WalkOn(strict, t, g, x) = WalkOn(strict, t, h, x)
<1>1. CASE x.text = << >>
  BY <1>1 DEF WalkOn
<1>2. CASE x.text # << >> /\ Fails(strict, t, x)
  BY <1>2 DEF Fails
<1>3. ASSUME x.text # << >>, NEW y, GoesTo(strict, t, x, y) PROVE WalkOn(strict, t, g, x) = WalkOn(strict, t, h, x)
  BY <1>3 DEF GoesTo
<1>4. ASSUME x.text # << >>, NEW y, Follows(strict, t, x, y) PROVE WalkOn(strict, t, g, x) = WalkOn(strict, t, h, x)
  <2> DEFINE r == g[y]
             z == Point(r.path, Tail(x.text), r.links)
  <2>1. /\ y \in WalkPoints /\ Less(y, x) /\ y.links = x.links + 1
        /\ WalkOn(strict, t, g, x) = After(g, g[y], Tail(x.text)) /\ WalkOn(strict, t, h, x) = After(h, h[y], Tail(x.text))
    BY <1>4 DEF Follows
  <2>2. r \in WalkResults(y) /\ h[y] = r
    BY <2>1 DEF ResultsBehind
  <2>3. CASE r.ok
    <3>1. z \in WalkPoints /\ Less(z, x)
      <4> HIDE DEF r
      <4> QED BY <1>4, <2>1, <2>2, <2>3, AfterLink
    <3>2. g[z] = h[z]
      BY <3>1
    <3> QED BY <2>1, <2>2, <2>3, <3>2 DEF After
  <2>4. CASE ~r.ok
    BY <2>1, <2>2, <2>4 DEF After
  <2> QED BY <2>3, <2>4
<1> QED BY <1>1, <1>2, <1>3, <1>4, TurnLeads

\* The walk is what its definition says.
LEMMA WalkEquation ==
    ASSUME NEW strict \in BOOLEAN, NEW t, IsTree(t)
    PROVE  LinuxWalk(strict, t) = [x \in WalkPoints |-> WalkOn(strict, t, LinuxWalk(strict, t), x)]
<1> DEFINE S == WalkPoints
           V == [x \in S |-> WalkResults(x)]
           H == [g \in Choices(S, V) |-> [x \in S |-> WalkOn(strict, t, g, x)]]
<1>1. ASSUME NEW g \in Choices(S, V), NEW x \in S PROVE ResultsBehind(g, x)
  BY DEF Choices, ResultsBehind
<1>2. ASSUME NEW g \in Choices(S, V) PROVE H[g] \in Choices(S, V)
  <2> DEFINE f == [x \in S |-> WalkOn(strict, t, g, x)]
  <2>1. \A x \in S : WalkOn(strict, t, g, x) \in WalkResults(x)
    <3> HIDE DEF V
    <3> QED BY <1>1, WalkOnTyped
  <2>2. \A x \in S : f[x] \in V[x]
    BY <2>1
  <2>3. f = [x \in S |-> f[x]]
    OBVIOUS
  <2>4. f \in Choices(S, V)
    <3> HIDE DEF f, V
    <3> QED BY <2>2, <2>3, MakeChoice
  <2> QED BY <2>4
<1>3. ASSUME NEW g \in Choices(S, V), NEW h \in Choices(S, V), NEW x \in S, SameBefore(S, WalkOrder, g, h, x)
      PROVE  H[g][x] = H[h][x]
  <2>1. \A y \in WalkPoints : Less(y, x) => g[y] = h[y]
    <3> SUFFICES ASSUME NEW y \in WalkPoints, Less(y, x) PROVE g[y] = h[y]
      OBVIOUS
    <3>1. <<y, x>> \in WalkOrder
      BY DEF WalkOrder
    <3> QED BY <1>3, <3>1 DEF SameBefore
  <2>2. WalkOn(strict, t, g, x) = WalkOn(strict, t, h, x)
    <3> HIDE DEF V
    <3> QED BY <1>1, <2>1, WalkOnSame
  <2> QED BY <2>2
<1>4. LooksBack(S, WalkOrder, V, H)
  <2>1. \A x \in S : V[x] # {}
    BY DEF WalkResults
  <2>2. H \in [Choices(S, V) -> Choices(S, V)]
    <3> DEFINE C == Choices(S, V)
    <3>1. \A g \in C : H[g] \in C
      BY <1>2
    <3>2. H = [g \in C |-> H[g]]
      OBVIOUS
    <3>3. H \in [C -> C]
      <4> HIDE DEF H, C
      <4> QED BY <3>1, <3>2
    <3> QED BY <3>3
  <2> HIDE DEF H, V, S
  <2> QED BY <1>3, <2>1, <2>2 DEF LooksBack
<1>5. PICK f \in Choices(S, V) : f = H[f]
  <2> HIDE DEF H, V, S
  <2> QED BY <1>4, WalkOrdered, RecursionWorks DEF S
<1>6. f = [x \in WalkPoints |-> WalkOn(strict, t, f, x)]
  BY <1>5
<1> QED BY <1>6 DEF LinuxWalk

\* A property of the points that holds whenever it holds behind, holds: the least
\* point without it is none.
LEMMA WalkMinimal ==
    ASSUME NEW T, T \subseteq WalkPoints, T # {}
    PROVE  \E x \in T : \A y \in WalkPoints : Less(y, x) => y \notin T
<1>1. PICK x \in T : \A y \in T : ~(<<y, x>> \in WalkOrder)
  BY WalkOrdered, WFMin DEF WFOrder
<1>2. ASSUME NEW y \in WalkPoints, Less(y, x) PROVE y \notin T
  BY <1>1, <1>2 DEF WalkOrder
<1> QED BY <1>2

\* What the walk returns
LEMMA WalkTyped ==
    ASSUME NEW strict \in BOOLEAN, NEW t, IsTree(t), NEW x \in WalkPoints
    PROVE  /\ LinuxWalk(strict, t)[x] = WalkOn(strict, t, LinuxWalk(strict, t), x)
           /\ LinuxWalk(strict, t)[x] \in WalkResults(x)
<1> DEFINE W == LinuxWalk(strict, t)
           T == {y \in WalkPoints : W[y] \notin WalkResults(y)}
<1>1. \A y \in WalkPoints : W[y] = WalkOn(strict, t, W, y)
  <2>1. W = [y \in WalkPoints |-> WalkOn(strict, t, W, y)]
    BY WalkEquation
  <2> HIDE DEF W
  <2> QED BY <2>1
<1> HIDE DEF W
<1>2. ASSUME T # {} PROVE FALSE
  <2>1. PICK y \in T : \A z \in WalkPoints : Less(z, y) => z \notin T
    <3>1. T \subseteq WalkPoints
      OBVIOUS
    <3> HIDE DEF T
    <3> QED BY <1>2, <3>1, WalkMinimal
  <2>2. ResultsBehind(W, y)
    BY <2>1 DEF ResultsBehind
  <2>3. WalkOn(strict, t, W, y) \in WalkResults(y)
    BY <2>2, WalkOnTyped
  <2> QED BY <1>1, <2>3
<1> QED BY <1>1, <1>2 DEF W

\* Walking a text and then another one is walking both in one.  RealPath puts the
\* text of a link in front of what is left, Linux walks it on its own.
Joined(strict, t, x, s) ==
    LinuxWalk(strict, t)[Point(x.dir, x.text \o s, x.links)]
        = After(LinuxWalk(strict, t), LinuxWalk(strict, t)[x], s)

\* A text in front of another
LEMMA ConcatParts ==
    ASSUME NEW u \in Seq(Components), NEW s \in Seq(Components)
    PROVE  /\ u \o s \in Seq(Components) /\ (u = << >> => u \o s = s)
           /\ u # << >> => /\ u \o s # << >> /\ Head(u \o s) = Head(u) /\ Tail(u \o s) = Tail(u) \o s
<1>1. u \o s \in Seq(Components) /\ Len(u \o s) = Len(u) + Len(s)
      /\ \A i \in 1 .. Len(u) + Len(s) : (u \o s)[i] = IF i <= Len(u) THEN u[i] ELSE s[i - Len(u)]
  BY ConcatProperties
<1>2. ASSUME u = << >> PROVE u \o s = s
  BY <1>2, ConcatEmptySeq
<1>3. ASSUME u # << >> PROVE u \o s # << >> /\ Head(u \o s) = Head(u)
  BY <1>1, <1>3
<1>4. ASSUME u # << >> PROVE Tail(u \o s) = Tail(u) \o s
  <2> DEFINE a == Tail(u \o s)
             b == Tail(u) \o s
  <2>1. /\ a \in Seq(Components) /\ Len(a) = Len(u) + Len(s) - 1
        /\ \A i \in 1 .. Len(u) + Len(s) - 1 : a[i] = (u \o s)[i + 1]
    BY <1>1, <1>3, <1>4, HeadTailProperties
  <2>2. /\ Tail(u) \in Seq(Components) /\ Len(Tail(u)) = Len(u) - 1 /\ Len(u) \in Nat \ {0} /\ Len(s) \in Nat
        /\ \A i \in 1 .. Len(u) - 1 : Tail(u)[i] = u[i + 1]
    BY <1>4, HeadTailProperties
  <2>3. /\ b \in Seq(Components) /\ Len(b) = Len(u) - 1 + Len(s)
        /\ \A i \in 1 .. Len(u) - 1 + Len(s) : b[i] = IF i <= Len(u) - 1 THEN Tail(u)[i] ELSE s[i - (Len(u) - 1)]
    <3> DEFINE w == Tail(u)
    <3>1. w \in Seq(Components) /\ Len(w) = Len(u) - 1
      BY <2>2
    <3> HIDE DEF w
    <3>2. /\ w \o s \in Seq(Components) /\ Len(w \o s) = Len(w) + Len(s)
          /\ \A i \in 1 .. Len(w) + Len(s) : (w \o s)[i] = IF i <= Len(w) THEN w[i] ELSE s[i - Len(w)]
      BY <3>1, ConcatProperties
    <3> QED BY <3>1, <3>2 DEF w
  <2>4. ASSUME NEW i \in 1 .. Len(u) + Len(s) - 1 PROVE a[i] = b[i]
    <3>1. a[i] = (u \o s)[i + 1] /\ i + 1 \in 1 .. Len(u) + Len(s)
      BY <2>1, <2>2
    <3>2. b[i] = IF i <= Len(u) - 1 THEN Tail(u)[i] ELSE s[i - (Len(u) - 1)]
      BY <2>2, <2>3
    <3>3. CASE i <= Len(u) - 1
      <4>1. a[i] = u[i + 1] /\ b[i] = u[i + 1]
        BY <1>1, <2>2, <3>1, <3>2, <3>3
      <4> QED BY <4>1
    <3>4. CASE ~(i <= Len(u) - 1)
      <4>1. ~(i + 1 <= Len(u)) /\ i + 1 - Len(u) = i - (Len(u) - 1)
        BY <2>2, <3>4
      <4> QED BY <1>1, <3>1, <3>2, <3>4, <4>1
    <3> QED BY <3>3, <3>4
  <2> HIDE DEF a, b
  <2>5. Len(a) = Len(b)
    BY <2>1, <2>2, <2>3
  <2>6. a = b
    BY <2>1, <2>2, <2>3, <2>4, <2>5, SeqEqual
  <2> QED BY <2>6 DEF a, b
<1> QED BY <1>1, <1>2, <1>3, <1>4

\* A text in front of s is walked first, then s from where it led: a least point
\* for which that failed would lead to another.
LEMMA WalkJoins ==
    ASSUME NEW strict \in BOOLEAN, NEW t, IsTree(t), NEW s \in Seq(Components)
    PROVE  \A x \in WalkPoints : Joined(strict, t, x, s)
<1> DEFINE W == LinuxWalk(strict, t)
           T == {x \in WalkPoints : ~Joined(strict, t, x, s)}
<1> SUFFICES ASSUME T # {} PROVE FALSE
  OBVIOUS
<1>1. PICK x \in T : \A y \in WalkPoints : Less(y, x) => y \notin T
  <2>1. T \subseteq WalkPoints
    OBVIOUS
  <2> HIDE DEF T
  <2> QED BY <2>1, WalkMinimal
<1>2. \A y \in WalkPoints : Less(y, x) => Joined(strict, t, y, s)
  BY <1>1
<1> DEFINE d == x.dir
           a == x.text
           n == x.links
           c == Head(a)
           xs == Point(d, a \o s, n)
<1>3. x \in WalkPoints /\ ~Joined(strict, t, x, s)
  BY <1>1
<1> HIDE DEF T
<1>4. d \in Seq(Names) /\ a \in Seq(Components) /\ n \in 0 .. MaxLinks /\ n \in Nat /\ Len(a) \in Nat /\ x = Point(d, a, n)
  BY <1>3, PointParts
<1>5. a \o s \in Seq(Components) /\ (a = << >> => a \o s = s)
      /\ (a # << >> => a \o s # << >> /\ Head(a \o s) = Head(a) /\ Tail(a \o s) = Tail(a) \o s)
  BY <1>4, ConcatParts
<1>6. W[x] = WalkOn(strict, t, W, x) /\ W[xs] = WalkOn(strict, t, W, xs)
  <2>1. xs \in WalkPoints
    <3> DEFINE b == a \o s
    <3>1. b \in Seq(Components)
      BY <1>5
    <3> HIDE DEF b, d, n, a
    <3> QED BY <1>4, <3>1, PointTyped DEF b
  <2> HIDE DEF xs
  <2> QED BY <1>3, <2>1, WalkTyped
<1>7. W[xs] # After(W, W[x], s)
  BY <1>3 DEF Joined
<1>8. CASE a = << >>
  <2>1. W[x] = Arrived(d, n)
    BY <1>6, <1>8 DEF WalkOn
  <2>2. Arrived(d, n).ok /\ Arrived(d, n).path = d /\ Arrived(d, n).links = n
    BY DEF Arrived
  <2>3. After(W, Arrived(d, n), s) = W[Point(d, s, n)]
    BY <2>2 DEF After
  <2> QED BY <1>5, <1>7, <1>8, <2>1, <2>3
<1>9. CASE a # << >>
  <2> DEFINE w == Tail(a)
  <2>1. c \in Components /\ w \in Seq(Components) /\ Len(w) < Len(a)
    BY <1>4, <1>9, TailParts
  <2>2. a \o s # << >> /\ Head(a \o s) = c /\ Tail(a \o s) = w \o s /\ Head(a) = c
    BY <1>5, <1>9
  <2> HIDE DEF w, c, W
  <2>3. CASE LostAt(strict, t, d, c, n)
    <3>1. W[x] = Lost /\ W[xs] = Lost
      BY <1>4, <1>6, <1>9, <2>2, <2>3 DEF LostAt
    <3>2. After(W, Lost, s) = Lost
      BY LostParts DEF After
    <3> QED BY <1>7, <3>1, <3>2
  <2>4. ASSUME NEW e \in Seq(Names), OnTo(strict, t, d, c, n, e) PROVE FALSE
    <3> DEFINE y == Point(e, w, n)
    <3>1. W[x] = W[y] /\ W[xs] = W[Point(e, w \o s, n)]
      BY <1>4, <1>6, <1>9, <2>2, <2>4 DEF OnTo, w
    <3>2. y \in WalkPoints /\ y.dir = e /\ y.text = w /\ y.links = n
      BY <1>4, <2>1, PointTyped
    <3> HIDE DEF y
    <3>3. Less(y, x)
      BY <2>1, <3>2 DEF Less
    <3>4. W[Point(e, w \o s, n)] = After(W, W[y], s)
      BY <1>2, <3>2, <3>3 DEF Joined, W
    <3> QED BY <1>7, <3>1, <3>4
  <2>5. ASSUME NEW e \in Seq(Names), NEW u \in Seq(Components), n + 1 \in 0 .. MaxLinks, LinkTo(strict, t, d, c, n, e, u)
        PROVE  FALSE
    <3> DEFINE v == Point(e, u, n + 1)
               r == W[v]
               z == Point(r.path, w, r.links)
    <3>1. W[x] = After(W, r, w) /\ W[xs] = After(W, r, w \o s)
      BY <1>4, <1>6, <1>9, <2>2, <2>5 DEF LinkTo, w
    <3>2. v \in WalkPoints /\ v.links = n + 1
      BY <2>5, PointTyped
    <3>3. r \in WalkResults(v)
      <4> HIDE DEF v
      <4> QED BY <3>2, WalkTyped DEF W
    <3> HIDE DEF v, r
    <3>4. CASE r.ok
      <4>1. z \in WalkPoints /\ Less(z, x)
        BY <1>3, <1>9, <3>2, <3>3, <3>4, AfterLink DEF w
      <4>2. z.dir = r.path /\ z.text = w /\ z.links = r.links
        BY DEF Point
      <4> HIDE DEF z
      <4>3. W[Point(r.path, w \o s, r.links)] = After(W, W[z], s)
        BY <1>2, <4>1, <4>2 DEF Joined, W
      <4>4. W[x] = W[z] /\ W[xs] = W[Point(r.path, w \o s, r.links)]
        BY <3>1, <3>4 DEF After, z
      <4> QED BY <1>7, <4>3, <4>4
    <3>5. CASE ~r.ok
      <4>1. W[x] = Lost /\ W[xs] = Lost
        BY <3>1, <3>5 DEF After
      <4>2. After(W, Lost, s) = Lost
        BY LostParts DEF After
      <4> QED BY <1>7, <4>1, <4>2
    <3> QED BY <3>4, <3>5
  <2> QED BY <1>4, <2>1, <2>3, <2>4, <2>5, TurnGoes
<1> QED BY <1>8, <1>9

-----------------------------------------------------------------------------
(* The turns of RealPath are turns of the walk.                            *)

\* Where a walk has come from point x to point y without a failure, or a strict
\* one has failed.
Same(strict, t, x, y) ==
    \/ LinuxWalk(strict, t)[x] = LinuxWalk(strict, t)[y]
    \/ strict /\ LinuxWalk(strict, t)[x] = Lost

\* RealPath drops "." and empty components, and ".." takes one from the path.
LEMMA TurnDots ==
    ASSUME NEW strict \in BOOLEAN, NEW t, IsTree(t), NEW d \in Seq(Names), NEW s \in Seq(Components), s # << >>,
           NEW n \in 0 .. MaxLinks, Head(s) \notin Names
    PROVE  Same(strict, t, Point(d, s, n),
                Point(IF Head(s) = DotDot /\ d # << >> THEN Front(d) ELSE d, Tail(s), n))
<1> DEFINE x == Point(d, s, n)
           W == LinuxWalk(strict, t)
<1>1. x \in WalkPoints /\ x.dir = d /\ x.text = s /\ x.links = n
  BY PointTyped
<1>2. W[x] = WalkOn(strict, t, W, x)
  <2> HIDE DEF x
  <2> QED BY <1>1, WalkTyped
<1>3. Head(s) \in {Dot, DotDot, Empty} /\ Dot # DotDot /\ Empty # DotDot
  BY TailParts DEF Components, Dot, DotDot, Empty
<1> HIDE DEF x, W
<1>4. CASE strict /\ t[d].kind # "dir"
  <2>1. W[x] = Lost
    BY <1>1, <1>2, <1>4 DEF WalkOn
  <2> QED BY <1>4, <2>1 DEF Same, W, x
<1>5. CASE ~(strict /\ t[d].kind # "dir")
  <2>1. W[x] = W[Point(IF Head(s) = DotDot /\ d # << >> THEN Front(d) ELSE d, Tail(s), n)]
    <3>1. CASE Head(s) = DotDot
      BY <1>1, <1>2, <1>3, <1>5, <3>1 DEF WalkOn
    <3>2. CASE Head(s) # DotDot
      BY <1>1, <1>2, <1>3, <1>5, <3>2 DEF WalkOn
    <3> QED BY <3>1, <3>2
  <2> QED BY <2>1 DEF Same, W, x
<1> QED BY <1>4, <1>5

\* The components that lead somewhere
LEMMA NamesAreNoDots ==
    ASSUME NEW c \in Names PROVE c # Dot /\ c # DotDot /\ c # Empty
BY PathAssumption

\* RealPath goes on to a name that exists and is no link.
LEMMA TurnStep ==
    ASSUME NEW strict \in BOOLEAN, NEW t, IsTree(t), NEW d \in Seq(Names), NEW s \in Seq(Components), s # << >>,
           NEW n \in 0 .. MaxLinks, Head(s) \in Names,
           Append(d, Head(s)) \in DOMAIN t, t[Append(d, Head(s))].kind # "link"
    PROVE  Same(strict, t, Point(d, s, n), Point(Append(d, Head(s)), Tail(s), n))
<1> DEFINE x == Point(d, s, n)
           W == LinuxWalk(strict, t)
<1>1. x \in WalkPoints /\ x.dir = d /\ x.text = s /\ x.links = n
  BY PointTyped
<1>2. W[x] = WalkOn(strict, t, W, x)
  <2> HIDE DEF x
  <2> QED BY <1>1, WalkTyped
<1>3. Head(s) # Dot /\ Head(s) # DotDot /\ Head(s) # Empty
  BY NamesAreNoDots
<1> HIDE DEF x, W
<1>4. CASE strict /\ t[d].kind # "dir"
  <2>1. W[x] = Lost
    BY <1>1, <1>2, <1>4 DEF WalkOn
  <2> QED BY <1>4, <2>1 DEF Same, W, x
<1>5. CASE ~(strict /\ t[d].kind # "dir")
  <2>1. W[x] = W[Point(Append(d, Head(s)), Tail(s), n)]
    BY <1>1, <1>2, <1>3, <1>5 DEF WalkOn
  <2> QED BY <2>1 DEF Same, W, x
<1> QED BY <1>4, <1>5

\* The walk ends where RealPath gives up: nothing is there, or a link too many.
LEMMA TurnLost ==
    ASSUME NEW strict \in BOOLEAN, NEW t, IsTree(t), NEW d \in Seq(Names), NEW s \in Seq(Components), s # << >>,
           NEW n \in 0 .. MaxLinks, Head(s) \in Names,
           \/ Append(d, Head(s)) \notin DOMAIN t
           \/ t[Append(d, Head(s))].kind = "link" /\ n = MaxLinks
    PROVE  LinuxWalk(strict, t)[Point(d, s, n)] = Lost
<1> DEFINE x == Point(d, s, n)
           W == LinuxWalk(strict, t)
<1>1. x \in WalkPoints /\ x.dir = d /\ x.text = s /\ x.links = n
  BY PointTyped
<1>2. W[x] = WalkOn(strict, t, W, x)
  <2> HIDE DEF x
  <2> QED BY <1>1, WalkTyped
<1>3. Head(s) # Dot /\ Head(s) # DotDot /\ Head(s) # Empty
  BY NamesAreNoDots
<1> HIDE DEF x, W
<1>4. W[x] = Lost
  BY <1>1, <1>2, <1>3 DEF WalkOn
<1> QED BY <1>4 DEF W, x

\* The text of a link
LEMMA LinkParts ==
    ASSUME NEW t, IsTree(t), NEW p \in DOMAIN t, t[p].kind = "link"
    PROVE  t[p].to.text \in Seq(Components)
<1>1. t[p] \in Entries
  BY DEF IsTree
<1>2. t[p].to \in Texts
  BY <1>1 DEF Entries
<1> QED BY <1>2 DEF Texts

\* A link: the text put in front of what is left, against the walk of its own.
LEMMA TurnFollow ==
    ASSUME NEW strict \in BOOLEAN, NEW t, IsTree(t), NEW d \in Seq(Names), NEW s \in Seq(Components), s # << >>,
           NEW n \in 0 .. MaxLinks, Head(s) \in Names, n + 1 <= MaxLinks,
           Append(d, Head(s)) \in DOMAIN t, t[Append(d, Head(s))].kind = "link"
    PROVE  Same(strict, t, Point(d, s, n),
                Point(IF t[Append(d, Head(s))].to.abs THEN << >> ELSE d, t[Append(d, Head(s))].to.text \o Tail(s), n + 1))
<1> DEFINE x == Point(d, s, n)
           W == LinuxWalk(strict, t)
           p == Append(d, Head(s))
           e == IF t[p].to.abs THEN << >> ELSE d
           u == t[p].to.text
           w == Tail(s)
           y == Point(e, u, n + 1)
<1>1. x \in WalkPoints /\ x.dir = d /\ x.text = s /\ x.links = n
  BY PointTyped
<1>2. W[x] = WalkOn(strict, t, W, x)
  <2> HIDE DEF x
  <2> QED BY <1>1, WalkTyped
<1>3. Head(s) # Dot /\ Head(s) # DotDot /\ Head(s) # Empty
  BY NamesAreNoDots
<1>4. e \in Seq(Names) /\ u \in Seq(Components) /\ w \in Seq(Components) /\ n + 1 \in 0 .. MaxLinks /\ n # MaxLinks
  BY LinkParts, TailParts, PathAssumption
<1> HIDE DEF x, W
<1>5. CASE strict /\ t[d].kind # "dir"
  <2>1. W[x] = Lost
    BY <1>1, <1>2, <1>5 DEF WalkOn
  <2> QED BY <1>5, <2>1 DEF Same, W, x
<1>6. CASE ~(strict /\ t[d].kind # "dir")
  <2>1. W[x] = After(W, W[y], w)
    BY <1>1, <1>2, <1>3, <1>4, <1>6 DEF WalkOn, After
  <2> HIDE DEF e, u, w
  <2>2. y \in WalkPoints /\ y.dir = e /\ y.text = u /\ y.links = n + 1
    BY <1>4, PointTyped
  <2> HIDE DEF y
  <2>3. W[Point(e, u \o w, n + 1)] = After(W, W[y], w)
    BY <1>4, <2>2, WalkJoins DEF Joined, W
  <2>4. W[x] = W[Point(e, u \o w, n + 1)]
    BY <2>1, <2>3
  <2> QED BY <2>4 DEF Same, W, x, e, u, w
<1> QED BY <1>5, <1>6

-----------------------------------------------------------------------------
(* RealPath agrees with the walk.                                          *)

\* The rest of the walk of s through t, from x, has the result of the whole; a
\* strict walk only if it gets there at all.
Ahead(strict, t, s, x) ==
    LET W == LinuxWalk(strict, t)
    IN  ~strict \/ W[Point(<< >>, s, 0)].ok => W[Point(<< >>, s, 0)] = W[x]

\* A turn of RealPath keeps what is ahead.
LEMMA AheadKept ==
    ASSUME NEW strict \in BOOLEAN, NEW t, NEW s, NEW x, NEW y, Ahead(strict, t, s, x), Same(strict, t, x, y)
    PROVE  Ahead(strict, t, s, y)
<1> DEFINE W == LinuxWalk(strict, t)
           start == Point(<< >>, s, 0)
<1> HIDE DEF W, start
<1>1. SUFFICES ASSUME ~strict \/ W[start].ok PROVE W[start] = W[y]
  BY DEF Ahead, W, start
<1>2. W[start] = W[x]
  BY <1>1 DEF Ahead, W, start
<1>3. W[x] = W[y] \/ (strict /\ W[x] = Lost)
  BY DEF Same, W
<1> QED BY <1>1, <1>2, <1>3, LostParts

\* The walk from the end of the text
LEMMA WalkEnds ==
    ASSUME NEW strict \in BOOLEAN, NEW t, IsTree(t), NEW d \in Seq(Names), NEW n \in 0 .. MaxLinks,
           NEW s \in Seq(Components)
    PROVE  s = << >> => LinuxWalk(strict, t)[Point(d, s, n)] = Arrived(d, n)
<1> DEFINE x == Point(d, s, n)
<1>1. x \in WalkPoints /\ x.dir = d /\ x.text = s /\ x.links = n
  BY PointTyped
<1> HIDE DEF x
<1>2. LinuxWalk(strict, t)[x] = WalkOn(strict, t, LinuxWalk(strict, t), x)
  BY <1>1, WalkTyped
<1>3. s = << >> => LinuxWalk(strict, t)[x] = Arrived(d, n)
  BY <1>1, <1>2 DEF WalkOn
<1> QED BY <1>3 DEF x

\* The inductive invariant: what is left to walk has the result of the whole.
AgreeInv ==
    /\ name \in Seq(Components)
    /\ pc = "walk" =>
          /\ rest \in Seq(Components) /\ num_links \in 0 .. MaxLinks
          /\ \A strict \in BOOLEAN : Ahead(strict, fs, name, Point(dest, rest, num_links))
    /\ AgreesWithLinux

\* Cutting the separators off the end leaves a text, an empty one only of
\* separators.
LEMMA TrailingCut ==
    ASSUME NEW s \in Seq(Components)
    PROVE  /\ RemoveTrailingSlashes(s) \in Seq(Components)
           /\ \A i \in 1 .. Len(s) : s[i] # Empty => RemoveTrailingSlashes(s) # << >>
<1> DEFINE T == {m \in 0 .. Len(s) : \A i \in m + 1 .. Len(s) : s[i] = Empty}
           Kept(n) == (\A i \in n + 1 .. Len(s) : s[i] = Empty) /\ (n > 0 => s[n] # Empty)
<1>0. Len(s) \in Nat
  OBVIOUS
<1>1. T \subseteq Nat /\ Len(s) \in T
  BY <1>0
<1>2. PICK m \in T : \A y \in T : m <= y
  <2> HIDE DEF T
  <2> QED BY <1>1, SmallestNat
<1>3. m \in 0 .. Len(s) /\ \A i \in m + 1 .. Len(s) : s[i] = Empty
  OBVIOUS
<1>4. m > 0 => s[m] # Empty
  <2>1. SUFFICES ASSUME m > 0, s[m] = Empty PROVE FALSE
    OBVIOUS
  <2>2. m - 1 \in 0 .. Len(s) /\ \A i \in (m - 1) + 1 .. Len(s) : s[i] = Empty
    BY <1>0, <1>3, <2>1
  <2>3. m - 1 \in T
    BY <2>2
  <2>4. m <= m - 1
    BY <1>2, <2>3
  <2> QED BY <1>3, <2>4
<1>5. Kept(m)
  BY <1>3, <1>4
<1> HIDE DEF Kept
<1> DEFINE keep == CHOOSE n \in 0 .. Len(s) : Kept(n)
<1>6. keep \in 0 .. Len(s) /\ Kept(keep)
  BY <1>3, <1>5
<1> HIDE DEF keep
<1>7. SubSeq(s, 1, keep) \in Seq(Components) /\ Len(SubSeq(s, 1, keep)) = keep
  BY <1>6, Prefix
<1>8. ASSUME NEW i \in 1 .. Len(s), s[i] # Empty PROVE SubSeq(s, 1, keep) # << >>
  <2>1. ~(i \in keep + 1 .. Len(s))
    BY <1>6, <1>8 DEF Kept
  <2>2. keep # 0
    BY <1>0, <1>6, <2>1
  <2> QED BY <1>7, <2>2
<1> QED BY <1>7, <1>8 DEF RemoveTrailingSlashes, keep, Kept

\* The text in front of the last component
LEMMA FrontIsText ==
    ASSUME NEW s \in Seq(Components) PROVE Front(s) \in Seq(Components)
<1>1. CASE s = << >>
  <2>1. Len(s) - 1 < 1
    BY <1>1
  <2> QED BY <2>1, SubSeqProperties DEF Front
<1>2. CASE s # << >>
  <2>1. Len(s) - 1 \in 0 .. Len(s)
    BY <1>2
  <2> QED BY <2>1, Prefix DEF Front
<1> QED BY <1>1, <1>2

\* What RealPath gets is a text of components.
LEMMA AgreeInit == Init => AgreeInv
<1> SUFFICES ASSUME Init PROVE AgreeInv
  OBVIOUS
<1>1. PICK parent \in Parents, f \in FileNames :
         LET whole == NewFileName(parent, f)
             short == RemoveTrailingSlashes(whole)
         IN  IF mode = "read" THEN name = whole /\ base = Empty
             ELSE name = Front(short) /\ base = GetBasenamePtr(short)
  BY DEF Init
<1>2. LKLMountPoint \in Seq(Components) /\ parent \in Seq(Components) /\ f.text \in Seq(Components)
  <2>1. LKLMountPoint \in Seq(Names) /\ parent \in Seq(Components) /\ f.text \in Seq(Components)
    BY PathAssumption
  <2> QED BY <2>1 DEF Components
<1>3. NewFileName(parent, f) \in Seq(Components)
  <2> DEFINE w == IF f.abs THEN f.text ELSE parent \o f.text
  <2>1. w \in Seq(Components)
    BY <1>2
  <2> HIDE DEF w
  <2>2. LKLMountPoint \o w \in Seq(Components)
    BY <1>2, <2>1
  <2> QED BY <2>2 DEF NewFileName, w
<1>4. name = NewFileName(parent, f) \/ name = Front(RemoveTrailingSlashes(NewFileName(parent, f)))
  BY <1>1
<1>5. name \in Seq(Components)
  BY <1>3, <1>4, TrailingCut, FrontIsText
<1>6. pc = "start"
  BY DEF Init
<1> QED BY <1>5, <1>6 DEF AgreeInv, AgreesWithLinux

\* A turn of the loop that goes on keeps the invariant if the walk from where it
\* goes has the same result.
LEMMA TurnKeeps ==
    ASSUME AgreeInv, pc = "walk", pc' = "walk", UNCHANGED <<fs, name>>,
           rest' \in Seq(Components), num_links' \in 0 .. MaxLinks,
           \A strict \in BOOLEAN :
              Same(strict, fs, Point(dest, rest, num_links), Point(dest', rest', num_links'))
    PROVE  AgreeInv'
<1>1. \A strict \in BOOLEAN : Ahead(strict, fs, name, Point(dest, rest, num_links))
  BY DEF AgreeInv
<1>2. \A strict \in BOOLEAN : Ahead(strict, fs, name, Point(dest', rest', num_links'))
  BY <1>1, AheadKept
<1>3. \A strict \in BOOLEAN : Ahead(strict, fs', name', Point(dest', rest', num_links'))
  BY <1>2
<1> QED BY <1>3 DEF AgreeInv, AgreesWithLinux

\* RealPath finds nothing: neither does the walk, or there is no room.
LEMMA FailKeeps ==
    ASSUME AgreeInv, pc = "walk", Fail, UNCHANGED <<fs, name>>,
           \/ LinuxWalk(FALSE, fs)[Point(dest, rest, num_links)] = Lost
           \/ rest # << >> /\ NoRoom
    PROVE  AgreeInv'
<1> DEFINE lax == LinuxWalk(FALSE, fs)[Point(<< >>, name, 0)]
<1>1. pc' = "notfound" /\ dest' = dest /\ rest' = rest
  BY DEF Fail
<1>2. lax = LinuxWalk(FALSE, fs)[Point(dest, rest, num_links)]
  BY DEF AgreeInv, Ahead
<1>3. CASE rest # << >> /\ NoRoom
  <2>1. rest' # << >> /\ NoRoom'
    BY <1>1, <1>3 DEF NoRoom, lstat, Component
  <2> QED BY <1>1, <2>1 DEF AgreeInv, AgreesWithLinux
<1>4. CASE LinuxWalk(FALSE, fs)[Point(dest, rest, num_links)] = Lost
  <2> HIDE DEF lax
  <2>1. ~lax.ok
    BY <1>2, <1>4, LostParts
  <2>2. ~LinuxWalk(FALSE, fs')[Point(<< >>, name', 0)].ok
    BY <2>1 DEF lax
  <2> QED BY <1>1, <2>2 DEF AgreeInv, AgreesWithLinux
<1> QED BY <1>3, <1>4

\* RealPath keeps the invariant: each turn of its loop is a turn of the walk.
LEMMA AgreeWalk == PathInv /\ AgreeInv /\ RealPath => AgreeInv'
<1> SUFFICES ASSUME PathInv, AgreeInv, RealPath PROVE AgreeInv'
  OBVIOUS
<1>0. name \in Seq(Components) /\ MaxLinks \in Nat
  BY PathAssumption DEF AgreeInv
<1>w. ASSUME pc = "walk"
      PROVE  /\ IsTree(fs) /\ dest \in Seq(Names)
             /\ rest \in Seq(Components) /\ num_links \in 0 .. MaxLinks
  BY <1>w DEF PathInv, AgreeInv
<1>1. CASE Start
  <2>1. pc' = "walk" /\ fs' = fs /\ name' = name /\ dest' = << >> /\ rest' = name /\ num_links' = 0
    BY <1>1 DEF Start
  <2>2. \A strict \in BOOLEAN : Ahead(strict, fs, name, Point(<< >>, name, 0))
    BY DEF Ahead
  <2>3. \A strict \in BOOLEAN : Ahead(strict, fs', name', Point(dest', rest', num_links'))
    BY <2>1, <2>2
  <2> QED BY <1>0, <2>1, <2>3 DEF AgreeInv, AgreesWithLinux
<1>2. CASE Dots
  <2>1. /\ pc = "walk" /\ rest # << >> /\ Head(rest) \notin Names /\ pc' = "walk"
        /\ UNCHANGED <<fs, name, num_links>>
        /\ dest' = (IF Head(rest) = DotDot /\ dest # << >> THEN Front(dest) ELSE dest)
        /\ rest' = Tail(rest)
    BY <1>2 DEF Dots, Walking, Component
  <2>2. rest' \in Seq(Components)
    BY <1>w, <2>1, TailParts
  <2>3. \A strict \in BOOLEAN :
           Same(strict, fs, Point(dest, rest, num_links), Point(dest', rest', num_links'))
    BY <1>w, <2>1, TurnDots
  <2> QED BY <1>w, <2>1, <2>2, <2>3, TurnKeeps
<1>3. CASE Step
  <2> DEFINE p == Append(dest, Head(rest))
  <2>1. /\ pc = "walk" /\ rest # << >> /\ Head(rest) \in Names
        /\ UNCHANGED <<fs, name>> /\ lstat(p).kind # "link"
        /\ IF lstat(p) = Nowhere THEN Fail
           ELSE dest' = p /\ rest' = Tail(rest) /\ UNCHANGED <<pc, num_links>>
    BY <1>3 DEF Step, Walking, Component
  <2>2. CASE p \notin DOMAIN fs
    <3>1. Fail
      BY <2>1, <2>2 DEF lstat
    <3>2. LinuxWalk(FALSE, fs)[Point(dest, rest, num_links)] = Lost
      BY <1>w, <2>1, <2>2, TurnLost
    <3> QED BY <2>1, <3>1, <3>2, FailKeeps
  <2>3. CASE p \in DOMAIN fs
    <3>0. fs[p] \in Entries
      BY <1>w, <2>1, <2>3 DEF IsTree
    <3>1. fs[p].kind # "link" /\ dest' = p /\ rest' = Tail(rest) /\ UNCHANGED <<pc, num_links>>
      BY <2>1, <2>3, <3>0 DEF lstat, Nowhere, Entries
    <3>2. rest' \in Seq(Components)
      BY <1>w, <2>1, <3>1, TailParts
    <3>3. \A strict \in BOOLEAN :
             Same(strict, fs, Point(dest, rest, num_links), Point(dest', rest', num_links'))
      BY <1>w, <2>1, <2>3, <3>1, TurnStep
    <3> QED BY <1>w, <2>1, <3>1, <3>2, <3>3, TurnKeeps
  <2> QED BY <2>2, <2>3
<1>4. CASE Follow
  <2> DEFINE p == Append(dest, Head(rest))
  <2>1. /\ pc = "walk" /\ rest # << >> /\ Head(rest) \in Names
        /\ UNCHANGED <<fs, name>> /\ lstat(p).kind = "link"
        /\ IF num_links + 1 > MaxLinks \/ NoRoom THEN Fail
           ELSE /\ num_links' = num_links + 1 /\ rest' = fs[p].to.text \o Tail(rest)
                /\ dest' = (IF fs[p].to.abs THEN << >> ELSE dest) /\ UNCHANGED pc
    BY <1>4 DEF Follow, Walking, Component
  <2>2. p \in DOMAIN fs /\ fs[p].kind = "link"
    BY <2>1 DEF lstat, Nowhere
  <2>3. CASE NoRoom
    BY <2>1, <2>3, FailKeeps
  <2>4. CASE num_links + 1 > MaxLinks
    <3>1. num_links = MaxLinks
      BY <1>0, <1>w, <2>1, <2>4
    <3>2. LinuxWalk(FALSE, fs)[Point(dest, rest, num_links)] = Lost
      BY <1>w, <2>1, <2>2, <3>1, TurnLost
    <3> QED BY <2>1, <2>4, <3>2, FailKeeps
  <2>5. CASE ~NoRoom /\ ~(num_links + 1 > MaxLinks)
    <3>1. /\ num_links' = num_links + 1 /\ rest' = fs[p].to.text \o Tail(rest)
          /\ dest' = (IF fs[p].to.abs THEN << >> ELSE dest) /\ UNCHANGED pc
      BY <2>1, <2>5
    <3>2. num_links + 1 <= MaxLinks /\ num_links' \in 0 .. MaxLinks
      BY <1>0, <1>w, <2>1, <2>5, <3>1
    <3>3. rest' \in Seq(Components)
      <4>1. fs[p].to.text \in Seq(Components) /\ Tail(rest) \in Seq(Components)
        BY <1>w, <2>1, <2>2, LinkParts, TailParts
      <4> QED BY <3>1, <4>1, ConcatParts
    <3>4. \A strict \in BOOLEAN :
             Same(strict, fs, Point(dest, rest, num_links), Point(dest', rest', num_links'))
      BY <1>w, <2>1, <2>2, <3>1, <3>2, TurnFollow
    <3> QED BY <2>1, <3>1, <3>2, <3>3, <3>4, TurnKeeps
  <2> QED BY <2>3, <2>4, <2>5
<1>5. CASE Resolved
  <2>1. pc = "walk" /\ rest = << >> /\ pc' = "resolved" /\ UNCHANGED <<fs, name, dest, rest, num_links>>
    BY <1>5 DEF Resolved
  <2>2. ASSUME NEW strict \in BOOLEAN
        PROVE  LinuxWalk(strict, fs)[Point(dest, rest, num_links)] = Arrived(dest, num_links)
    BY <1>w, <2>1, WalkEnds
  <2>3. ASSUME NEW strict \in BOOLEAN
        PROVE  Ahead(strict, fs, name, Point(dest, rest, num_links))
    BY <2>1 DEF AgreeInv
  <2> DEFINE linux == LinuxWalk(TRUE, fs)[Point(<< >>, name, 0)]
             lax == LinuxWalk(FALSE, fs)[Point(<< >>, name, 0)]
  <2>4. linux.ok => linux = Arrived(dest, num_links)
    BY <2>2, <2>3 DEF Ahead
  <2>5. lax = Arrived(dest, num_links)
    BY <2>2, <2>3 DEF Ahead
  <2> HIDE DEF linux, lax
  <2>6. linux.ok => linux.path = dest
    BY <2>4 DEF Arrived
  <2>7. (linux.ok => linux.path = dest)' /\ (lax = Arrived(dest, num_links))'
    BY <2>1, <2>5, <2>6 DEF linux, lax
  <2> QED BY <1>0, <2>1, <2>7 DEF AgreeInv, AgreesWithLinux, linux, lax
<1> QED BY <1>1, <1>2, <1>3, <1>4, <1>5 DEF RealPath

\* What is found and not opened lies outside the mount point.
LEMMA AgreeOpen == PathInv /\ AgreeInv /\ (OpenExisting \/ OpenNewDir \/ OpenNewFile) => AgreeInv'
<1> SUFFICES ASSUME PathInv, AgreeInv, OpenExisting \/ OpenNewDir \/ OpenNewFile PROVE AgreeInv'
  OBVIOUS
<1>0. name \in Seq(Components)
  BY DEF AgreeInv
<1>1. CASE OpenExisting
  <2>1. /\ pc = "resolved" /\ mode = "read" /\ UNCHANGED <<fs, name, mode, dest, rest, num_links>>
        /\ pc' = "open" \/ (pc' = "notfound" /\ ~StartsWith(target))
    BY <1>1 DEF OpenExisting
  <2>2. target = dest
    BY <2>1 DEF PathInv
  <2> DEFINE lax == LinuxWalk(FALSE, fs)[Point(<< >>, name, 0)]
  <2>3. lax = Arrived(dest, num_links)
    BY <2>1 DEF AgreeInv, AgreesWithLinux
  <2> HIDE DEF lax
  <2>4. lax.path = dest
    BY <2>3 DEF Arrived
  <2>5. pc' = "notfound" => ~StartsWith(lax.path)
    BY <2>1, <2>2, <2>4
  <2>6. pc' = "notfound" => ~StartsWith(LinuxWalk(FALSE, fs')[Point(<< >>, name', 0)].path)
    BY <2>1, <2>5 DEF lax
  <2>7. pc' # "walk" /\ pc' # "resolved"
    BY <2>1
  <2> QED BY <1>0, <2>1, <2>6, <2>7 DEF AgreeInv, AgreesWithLinux, StartsWith, Beside
<1>2. CASE OpenNewDir \/ OpenNewFile
  <2>1. pc' \in {"notfound", "refused", "open"} /\ mode' # "read" /\ name' = name
    BY <1>2 DEF OpenNewDir, OpenNewFile
  <2> QED BY <1>0, <2>1 DEF AgreeInv, AgreesWithLinux
<1> QED BY <1>1, <1>2

\* The second invariant holds in every state.
LEMMA AgreeInvariant == Spec => []AgreeInv
<1>1. PathInv /\ AgreeInv /\ [Next]_vars => AgreeInv'
  <2> SUFFICES ASSUME PathInv, AgreeInv, [Next]_vars PROVE AgreeInv'
    OBVIOUS
  <2>1. CASE UNCHANGED vars \/ Returned
    <3>1. UNCHANGED <<fs, name, mode, pc, dest, rest, num_links>>
      BY <2>1 DEF vars, Returned
    <3> QED BY <3>1 DEF AgreeInv, AgreesWithLinux, NoRoom, lstat, Component
  <2> QED BY <2>1, AgreeWalk, AgreeOpen DEF Next
<1> QED BY <1>1, AgreeInit, PathInvariant, PTL DEF Spec

\* In any tree and for any text, RealPath finds what Linux finds, and finds
\* nothing only where Linux finds nothing, outside the mount point, or for lack
\* of room.
THEOREM AgreesAlways == Spec => []AgreesWithLinux
<1>1. AgreeInv => AgreesWithLinux
  BY DEF AgreeInv
<1> QED BY <1>1, AgreeInvariant, PTL

\* Each turn of the loop leads to a point behind it in the order of the walk,
\* which is well-founded (WalkOrdered): no tree keeps RealPath turning for ever.
THEOREM TurnsGoOn ==
    Spec => [][pc = "walk" /\ pc' = "walk" =>
                  Less(Point(dest', rest', num_links'), Point(dest, rest, num_links))
                  /\ num_links' <= MaxLinks]_vars
<1> DEFINE Forward == pc = "walk" /\ pc' = "walk" =>
                  Less(Point(dest', rest', num_links'), Point(dest, rest, num_links))
                  /\ num_links' <= MaxLinks
<1>1. PathInv /\ AgreeInv /\ [Next]_vars => [Forward]_vars
  <2> SUFFICES ASSUME AgreeInv, Next, pc = "walk", pc' = "walk" PROVE Forward
    OBVIOUS
  <2>1. rest \in Seq(Components) /\ num_links \in 0 .. MaxLinks /\ MaxLinks \in Nat
    BY PathAssumption DEF AgreeInv
  <2>2. CASE num_links' = num_links /\ rest # << >> /\ rest' = Tail(rest)
    <3>1. Len(rest') < Len(rest)
      BY <2>1, <2>2, TailParts
    <3> QED BY <2>1, <2>2, <3>1 DEF Less, Point
  <2>3. CASE num_links' = num_links + 1 /\ num_links + 1 <= MaxLinks
    BY <2>1, <2>3 DEF Less, Point
  <2>4. Dots \/ Step \/ Follow
    BY DEF Next, RealPath, Start, Resolved, OpenExisting, OpenNewDir, OpenNewFile, Returned
  <2>5. CASE Dots
    BY <2>2, <2>5 DEF Dots, Walking
  <2>6. CASE Step
    BY <2>2, <2>6 DEF Step, Walking, Fail
  <2>7. CASE Follow
    <3>1. num_links' = num_links + 1 /\ ~(num_links + 1 > MaxLinks)
      BY <2>7 DEF Follow, Fail
    <3> QED BY <2>1, <2>3, <3>1
  <2> QED BY <2>4, <2>5, <2>6, <2>7
<1> QED BY <1>1, AgreeInvariant, PathInvariant, PTL DEF Spec

-----------------------------------------------------------------------------
(* Types: what LKLOpen makes leaves the tree a tree.                       *)

\* The last component of what LKLOpen is asked to create: the mount point is in
\* front of it, so there is one.
LEMMA BaseTyped == Init => base \in Components
<1> SUFFICES ASSUME Init, mode # "read" PROVE base \in Components
  BY DEF Init, Components
<1>1. PICK parent \in Parents, f \in FileNames :
         base = GetBasenamePtr(RemoveTrailingSlashes(NewFileName(parent, f)))
  BY DEF Init
<1>2. LKLMountPoint \in Seq(Names) /\ parent \in Seq(Components) /\ f.text \in Seq(Components)
  BY PathAssumption
<1> DEFINE w == IF f.abs THEN f.text ELSE parent \o f.text
           whole == LKLMountPoint \o w
           short == RemoveTrailingSlashes(whole)
<1>3. w \in Seq(Components) /\ LKLMountPoint \in Seq(Components)
  BY <1>2 DEF Components
<1>4. Len(LKLMountPoint) \in Nat \ {0} /\ LKLMountPoint[1] \in Names
  BY <1>2, PathAssumption
<1>5. LKLMountPoint[1] # Empty
  BY <1>4, NamesAreNoDots
<1>6. /\ whole \in Seq(Components) /\ 1 \in 1 .. Len(whole) /\ whole[1] = LKLMountPoint[1]
  <2> HIDE DEF w
  <2>1. /\ whole \in Seq(Components) /\ Len(whole) = Len(LKLMountPoint) + Len(w)
        /\ whole[1] = LKLMountPoint[1] /\ Len(w) \in Nat
    BY <1>3, <1>4
  <2> QED BY <1>4, <2>1
<1>7. whole = NewFileName(parent, f)
  BY DEF NewFileName
<1> HIDE DEF whole
<1>8. short \in Seq(Components) /\ short # << >>
  BY <1>5, <1>6, TrailingCut
<1> HIDE DEF short
<1>9. Last(short) \in Components
  BY <1>8 DEF Last
<1> QED BY <1>1, <1>7, <1>9 DEF GetBasenamePtr, short

\* The types hold when LKLOpen is called.
LEMMA TypeInit == Init => TypeOK
<1> SUFFICES ASSUME Init PROVE TypeOK
  OBVIOUS
<1>1. name \in Seq(Components) /\ base \in Components
  BY AgreeInit, BaseTyped DEF AgreeInv
<1>2. /\ IsTree(fs) /\ mode \in {"read", "file", "dir"} /\ pc = "start"
      /\ dest = << >> /\ rest = << >> /\ num_links = 0 /\ target = << >> /\ file = << >>
  BY PathAssumption DEF Init
<1>3. << >> \in Seq(Names) /\ << >> \in Seq(Components)
  OBVIOUS
<1> QED BY <1>1, <1>2, <1>3 DEF TypeOK

\* A new file or directory in a directory keeps the tree.
LEMMA MakeKeepsTree ==
    ASSUME NEW t, IsTree(t), NEW d \in DOMAIN t, t[d].kind = "dir", NEW c \in Names,
           NEW kind \in {"dir", "file"}, NEW u, Append(d, c) \notin DOMAIN t,
           u = [p \in DOMAIN t \cup {Append(d, c)} |->
                  IF p = Append(d, c) THEN [kind |-> kind] ELSE t[p]]
    PROVE  IsTree(u)
<1> DEFINE n == Append(d, c)
<1>1. d \in Seq(Names) /\ n \in Seq(Names) /\ n # << >> /\ Front(n) = d
  <2>1. d \in Seq(Names)
    BY DEF IsTree
  <2>2. n \in Seq(Names) /\ n # << >>
    BY <2>1
  <2>3. Front(n) = d
    BY <2>1 DEF Front
  <2> QED BY <2>1, <2>2, <2>3
<1> HIDE DEF n
<1>2. /\ DOMAIN u = DOMAIN t \cup {n} /\ u[n] = [kind |-> kind]
      /\ \A p \in DOMAIN t : u[p] = t[p]
  BY DEF n
<1>3. u[n] \in Entries
  BY <1>2 DEF Entries
<1>4. ASSUME NEW p \in DOMAIN u
      PROVE  /\ u[p] \in Entries
             /\ p # << >> => Front(p) \in DOMAIN u /\ u[Front(p)].kind = "dir"
  <2>1. CASE p = n
    BY <1>1, <1>2, <1>3, <2>1
  <2>2. CASE p \in DOMAIN t
    BY <1>2, <2>2 DEF IsTree
  <2> QED BY <1>2, <2>1, <2>2
<1>5. << >> \in DOMAIN u /\ u[<< >>].kind = "dir" /\ DOMAIN u \subseteq Seq(Names)
  BY <1>1, <1>2 DEF IsTree
<1> QED BY <1>4, <1>5 DEF IsTree

\* RealPath keeps the types.
LEMMA TypeWalk == TypeOK /\ PathInv /\ PathInv' /\ AgreeInv' /\ RealPath => TypeOK'
<1> SUFFICES ASSUME TypeOK, PathInv, PathInv', AgreeInv', RealPath PROVE TypeOK'
  OBVIOUS
<1>0. /\ IsTree(fs) /\ name \in Seq(Components) /\ base \in Components
      /\ mode \in {"read", "file", "dir"} /\ dest \in Seq(Names) /\ rest \in Seq(Components)
      /\ num_links \in Nat /\ target \in Seq(Components) /\ MaxLinks \in Nat /\ file \in Seq(Names)
  BY PathAssumption DEF TypeOK
<1>1. fs' = fs /\ name' = name /\ base' = base /\ mode' = mode /\ file' = file
  BY DEF RealPath, Start, Dots, Step, Follow, Resolved
<1>2. CASE pc' = "walk"
  <2>1. dest' \in Seq(Names) /\ rest' \in Seq(Components) /\ num_links' \in Nat
    BY <1>0, <1>2 DEF PathInv, AgreeInv
  <2>2. target' = target
    BY <1>2 DEF RealPath, Start, Dots, Step, Follow, Resolved
  <2> QED BY <1>0, <1>1, <1>2, <2>1, <2>2 DEF TypeOK
<1>3. CASE pc' = "notfound" /\ UNCHANGED <<dest, rest, num_links, target>>
  BY <1>0, <1>1, <1>3 DEF TypeOK
<1>4. CASE Resolved
  <2>1. /\ pc' = "resolved" /\ UNCHANGED <<dest, rest, num_links>>
        /\ target' = IF mode = "read" THEN dest ELSE Append(dest, base)
    BY <1>4 DEF Resolved
  <2>2. dest \in Seq(Components)
    BY <1>0 DEF Components
  <2>3. target' \in Seq(Components)
    BY <1>0, <2>1, <2>2
  <2> QED BY <1>0, <1>1, <2>1, <2>3 DEF TypeOK
<1>5. pc' = "walk" \/ (pc' = "notfound" /\ UNCHANGED <<dest, rest, num_links, target>>) \/ Resolved
  BY DEF RealPath, Start, Dots, Step, Follow, Fail, Walking
<1> QED BY <1>2, <1>3, <1>4, <1>5

\* LKLOpen keeps them.
LEMMA TypeOpen == TypeOK /\ PathInv /\ PathInv' /\ (OpenExisting \/ OpenNewDir \/ OpenNewFile) => TypeOK'
<1> SUFFICES ASSUME TypeOK, PathInv, PathInv', OpenExisting \/ OpenNewDir \/ OpenNewFile PROVE TypeOK'
  OBVIOUS
<1>1. /\ pc = "resolved" /\ pc' \in {"notfound", "refused", "open"}
      /\ UNCHANGED <<name, mode, base, dest, rest, num_links, target>>
      /\ \/ fs' = fs
         \/ \E p : CanMake(p) /\ (fs' = Make(p, "dir") \/ fs' = Make(p, "file"))
  BY DEF OpenExisting, OpenNewDir, OpenNewFile
<1>2. IsTree(fs')
  <2>1. CASE fs' = fs
    BY <2>1 DEF TypeOK
  <2>2. ASSUME NEW p, CanMake(p), NEW kind \in {"dir", "file"}, fs' = Make(p, kind)
        PROVE  IsTree(fs')
    <3>1. PICK d \in DOMAIN fs, n \in Names : fs[d].kind = "dir" /\ p = Append(d, n) /\ p \notin DOMAIN fs
      BY <2>2 DEF CanMake
    <3>2. IsTree(fs) /\ d \in Seq(Names)
      BY DEF TypeOK, IsTree
    <3>3. fs' = [q \in DOMAIN fs \cup {Append(d, n)} |->
                   IF q = Append(d, n) THEN [kind |-> kind] ELSE fs[q]]
      BY <2>2, <3>1 DEF Make
    <3> QED BY <3>1, <3>2, <3>3, MakeKeepsTree
  <2> QED BY <1>1, <2>1, <2>2
<1>3. file' \in Seq(Names)
  <2>1. CASE pc' = "open"
    <3>1. lstat(file)'.kind \in {"file", "dir"}
      BY <2>1 DEF PathInv, Contained
    <3>2. file' \in DOMAIN fs'
      BY <3>1 DEF lstat, Nowhere
    <3> QED BY <1>2, <3>2 DEF IsTree
  <2>2. CASE pc' # "open"
    <3>1. file' = file
      BY <2>2 DEF OpenExisting, OpenNewDir, OpenNewFile
    <3> QED BY <3>1 DEF TypeOK
  <2> QED BY <2>1, <2>2
<1> QED BY <1>1, <1>2, <1>3 DEF TypeOK

\* In every state the variables have their types; in particular the tree that
\* mkdir and open leave behind is a tree.
THEOREM PathTypeCorrect == Spec => []TypeOK
<1>1. TypeOK /\ PathInv /\ PathInv' /\ AgreeInv' /\ [Next]_vars => TypeOK'
  <2> SUFFICES ASSUME TypeOK, PathInv, PathInv', AgreeInv', [Next]_vars PROVE TypeOK'
    OBVIOUS
  <2>1. CASE UNCHANGED vars \/ Returned
    BY <2>1 DEF vars, Returned, TypeOK
  <2> QED BY <2>1, TypeWalk, TypeOpen DEF Next
<1> QED BY <1>1, TypeInit, PathInvariant, AgreeInvariant, PTL DEF Spec
=============================================================================
