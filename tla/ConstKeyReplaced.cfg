\* A caller that replaces a member added under a borrowed key.
SPECIFICATION Spec
CONSTANTS
  Nodes = {n1, n2, n3}
  Bufs = {}
  Texts = {"k"}
  Utf8 = {"k"}
  Folded <- MCFolded
  Kinds = {"Leaf", "Object"}
  Avoid = {"mutate_reference"}
  NULL = NULL
INVARIANT BorrowedKeysStayFlagged
