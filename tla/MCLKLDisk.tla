----------------------------- MODULE MCLKLDisk -----------------------------
(* LKLDisk on small disks.                                                 *)
EXTENDS LKLDisk

E == {"ext4"}
N == {"ntfs"}
F == {"f2fs"}
SampleValues == {{}, E, N, F, E \cup F}
SampleDecrypt ==
    [v \in SampleValues |-> CASE v = {} -> E \cup F [] v = E \cup F -> N [] v = N -> {}
                            [] v = E -> F [] v = F -> E]

\* Disks of two kilobytes without, with one and with two superblocks, and one of
\* a single kilobyte.
SampleDisks ==
    {<<N, {}, {}, {}, b, {}, {}, {}>> : b \in {{}, E \cup F}} \cup {<<N, {}, {}, {}>>}

\* Reads and writes of buffers of different lengths that overlap each other, from
\* sector 0 and from sector 2; the second one is beyond the end of the smaller
\* disk.
SampleRequests ==
    {[type |-> t, sector |-> s, buf |-> <<<<E>>, <<F, N, E>>>>] : t \in {"read", "write"}, s \in {0, 2}}
    \cup {[type |-> t, sector |-> 1, buf |-> << >>] : t \in {"read", "flush", "other"}}
=============================================================================
