\* cidr: prefixes of one bit and of all three, so that one lies inside another.
\* arpjob: addresses of three bits, three of which can go round.
\* uke9: all lists of up to four tracks on a disk of four.
\* finnsvinn: two goods, two records of a log.
\* pipfork: lines longer than the buffer, and reads of several lines.
\* msn: two lines at each peer.
\* test_list: five elements, as in the test.
CONSTANTS
    Width = 3
    Lens = {1, 3}
    LongerLens = {3}
    tableSize = 4
    MaxBelow = 2
    ArpWidth = 3
    ArpSize = 3
    ArpLookup = 3
    MaxReplaced = 2
    DISKSIZE = 4
    MaxTracks = 4
    Goods = {x, y}
    Amounts = {1, 2}
    MaxRecords = 2
    Chars = {"a", "q", "newline"}
    Lines <- MCLines
    BUFSIZE = 4
    MaxLines = 4
    Peers = {a, b}
    MaxTyped = 2
    TestStarts = {0, 1, 2, 3, 4}

SPECIFICATION MCSpec

INVARIANTS
    MissIsNested
    MissGoesRound
    KeepsLatest
    LookIsShortest
    SvinnIsRight
    EarlyEnd
    EndsForAReason
    InsertKeepsOrder

PROPERTIES
    ChildEnds
    PeersEnd

\* The programs end.
CHECK_DEADLOCK FALSE
