\* Two clients, up to three objects of two words in the four tables, an IP pool of two
\* addresses.
CONSTANTS
  Client = {c1, c2}
  IPPool = {p1}
  OtherIPPool = p2
  Size = 2
  Zero = Zero
  None = None
  Word = {w1, w2}
  MaxID = 3
  MaxVersion = 1
  MaxSpare = 0
  MaxTables = 1
  MaxReaders = 1
SPECIFICATION Spec
INVARIANTS TypeOK ListExact MonitorFound
PROPERTY PromiseKept
SYMMETRY Symmetry
