\* A caller whose replacement has a key of its own.
SPECIFICATION Spec
CONSTANTS
  Nodes = {n1, n2, n3, n4}
  Bufs = {}
  Texts = {"k", "K"}
  Utf8 = {"k", "K"}
  Folded <- MCFolded
  Kinds = {"Leaf", "Object"}
  Avoid = {"mutate_reference", "replace_const_key"}
  NULL = NULL
PROPERTY ReplacementTakesKey
