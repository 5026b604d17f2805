SPECIFICATION FairSpec
CONSTANTS
    Streams = {s1}
    Pages = {p1}
    Buf = 1
    MaxChanges = 2
INVARIANT ChangeNoticed
PROPERTIES StreamsGoOn StreamCatchesUp
