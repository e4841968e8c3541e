\* Two keys equal up to case, without arrays, against the keys and values of JsonForest.
SPECIFICATION Spec
CONSTANTS
  Nodes = {n1, n2, n3}
  Bufs = {b1, b2, b3}
  Texts = {"k", "K", "bad"}
  Utf8 = {"k", "K"}
  Folded <- MCFolded
  Kinds = {"String", "Object"}
  Avoid = {"mutate_reference", "replace_const_key"}
  NULL = NULL
SYMMETRY Addresses
PROPERTIES
  ImplementsForest
