\* This node and two others, found in the atlas or given (twice at most); sweeps of
\* two cells (of four, for messages).  An option or the atlas may name this node.
SPECIFICATION Spec
CONSTANTS
  Peer = {p1, p2, me}
  Id = me
  Self = self
  Cells = 2
  MaxOptions = 2
  MaxAtlas = 2
INVARIANTS
  ResponderOnlyForSelf
  WholeReport
