\* The same instance against the sequences of JsonForest.
SPECIFICATION Spec
CONSTANTS
  Nodes = {n1, n2, n3, n4, n5}
  Bufs = {}
  Texts = {}
  Utf8 = {}
  Folded <- MCFolded
  Kinds = {"Leaf", "Array"}
  Avoid = {"mutate_reference", "replace_const_key"}
  NULL = NULL
SYMMETRY Addresses
PROPERTY ImplementsForest
