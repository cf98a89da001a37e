CONSTANTS
    dot = dot  fileA = fileA  fileB = fileB  twinB = twinB  NoOne = NoOne
    Archive <- TwoVersions  Members = {dot, fileA, fileB, twinB}  NameOf <- NamesOf  SizeOf <- SizesOf
    Hidden = {dot}  Reach <- ReachOf  PageSizes <- OneOrTwoRows  MaxOffset = 1
    Fetches = {f1, f2}  Heads = {h1, h2}  HeadLimit = 2
    top = top  sub = sub  noWords = noWords  Nowhere = Nowhere
    Dirs = {top, sub}  Root = top  Beneath <- TopDown  Words = {noWords, word}  NoWords = noWords
    ListAsks = {ask1, ask2}  MaxCursor = 1  MaxListed = 2  MaxScans = 2
SPECIFICATION EntrySpec
INVARIANTS FoundIsSettled
