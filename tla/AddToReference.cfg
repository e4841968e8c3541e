\* A caller that adds to the list of a reference.
SPECIFICATION Spec
CONSTANTS
  Nodes = {n1, n2, n3}
  Bufs = {}
  Texts = {}
  Utf8 = {}
  Folded <- MCFolded
  Kinds = {"Leaf", "Array"}
  Avoid = {"replace_const_key"}
  NULL = NULL
INVARIANT AdoptedIsOwned
