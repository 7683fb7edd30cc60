----------------------------- MODULE MCPageTable -----------------------------
(* Tables of 2 entries, so 16 pages: the firmware maps the lower half, with   *)
(* one page of level 3, pages of level 2, or pages of level 1.               *)
EXTENDS PageTable

K == {"PRESENT", "WRITABLE"}
U == {"PRESENT", "WRITABLE", "USER_ACCESSIBLE"}
R == {"PRESENT", "USER_ACCESSIBLE", "NO_EXECUTE"}

Entry(f, isHuge) == [frame |-> f, flags |-> K, huge |-> isHuge]
Table(a, b) == [i \in {0, 1} |-> IF i = 0 THEN a ELSE b]

\* Frames 1 .. 3 are the firmware's tables, 20 and up its data.
Level1 == Table(Entry(20, FALSE), Nothing)
Level2 == Table(Entry(22, TRUE), Entry(3, FALSE))
Level2Huge(f) == Table(Entry(f, TRUE), Entry(f + 2, TRUE))

Tables(ts) == [f \in DOMAIN ts \cup {0} |-> IF f = 0 THEN Table(Entry(1, FALSE), Nothing) ELSE ts[f]]

Mixed == Tables([f \in 1 .. 3 |-> CASE f = 1 -> Table(Entry(30, TRUE), Entry(2, FALSE))
                                   [] f = 2 -> Level2
                                   [] f = 3 -> Level1])
AllHuge == Tables([f \in 1 .. 3 |-> CASE f = 1 -> Table(Entry(2, FALSE), Entry(3, FALSE))
                                     [] f = 2 -> Level2Huge(22)
                                     [] f = 3 -> Level2Huge(26)])
MCFirmware == {Mixed, AllHuge}

\* For the range of a BAR: a power of two of pages, aligned to its size, that the
\* firmware has mapped with huge pages of one size.
MCHugeFirmware == {AllHuge}
MCBar == {[start |-> 0, end |-> 8]}

\* A page in the level-3 huge page, one mapped and one unmapped 4K page of the
\* firmware's, and two that need new tables.
MCMapPages == {1, 6, 7, 8, 15}
MCFlags == {U, R}
MCRanges == {[start |-> 0, end |-> 8], [start |-> 4, end |-> 7]}
=============================================================================
