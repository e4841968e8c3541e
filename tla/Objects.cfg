\* Members, keys and values: strings owned, borrowed and aliased.
SPECIFICATION Spec
CONSTANTS
  Nodes = {n1, n2, n3}
  Bufs = {b1, b2, b3}
  Texts = {"k", "bad"}
  Utf8 = {"k"}
  Folded <- MCFolded
  Kinds = {"String", "Array", "Object"}
  Avoid = {"mutate_reference", "replace_const_key"}
  NULL = NULL
SYMMETRY Addresses
INVARIANTS
  NoDangling
  NoLeak
  StringsOwnedOnce
