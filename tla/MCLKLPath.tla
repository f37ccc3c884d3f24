----------------------------- MODULE MCLKLPath -----------------------------
(* LKLPath on small trees.                                                 *)
EXTENDS LKLPath

To(abs, text) == [abs |-> abs, text |-> text]
Link(t) == [kind |-> "link", to |-> t]
Dir == [kind |-> "dir"]
File == [kind |-> "file"]

\* The mount point /mnt/v with a directory a, a file f in it, and two links, one
\* in the root of the volume and one in a; /mnt/w is another volume, and an
\* earlier call may have made /mnt/vx.
Targets ==
    {To(FALSE, <<"a">>), To(FALSE, <<"..", "l">>), To(FALSE, <<"a", "l">>), To(FALSE, <<"..", "..", "w">>),
     To(TRUE, << >>), To(TRUE, <<"mnt", "v", "l">>), To(FALSE, <<"a", "f", "">>), To(FALSE, <<"..", "w", "new">>)}

Tree(t1, t2, more) ==
    LET paths == {<< >>, <<"mnt">>, <<"mnt", "v">>, <<"mnt", "w">>, <<"mnt", "v", "a">>,
                  <<"mnt", "v", "a", "f">>, <<"mnt", "v", "l">>, <<"mnt", "v", "a", "l">>} \cup more
    IN  [p \in paths |-> IF p = <<"mnt", "v", "l">> THEN Link(t1)
                         ELSE IF p = <<"mnt", "v", "a", "l">> THEN Link(t2)
                         ELSE IF p = <<"mnt", "v", "a", "f">> THEN File ELSE Dir]

SampleTrees ==
    {Tree(t1, t2, {}) : t1 \in Targets, t2 \in Targets} \cup {Tree(t, t, {<<"mnt", "vx">>}) : t \in Targets}
SampleNames == {"mnt", "v", "w", "a", "f", "l", "new", "vx"}
MountPoint == <<"mnt", "v">>
SampleParents == {<<"">>, <<"a">>}
SampleTexts ==
    LET C == {"..", "a", "l", "new"} IN
    {<<"">>, <<".">>, <<"l", "">>, <<"l", "..", "l">>, <<"a", "f", "..">>, <<"..", "vx">>,
     <<"..", "..", "vx">>} \cup {<<x>> : x \in C} \cup {<<x, y>> : x \in C, y \in C}
SampleFileNames == {To(b, t) : b \in BOOLEAN, t \in SampleTexts}
=============================================================================
