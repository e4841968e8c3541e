\* Builds and copies beside another tree, malloc failing anywhere.
SPECIFICATION Spec
CONSTANTS
  Nodes = {n1, n2, n3, n4, n5, n6}
  Bufs = {b1, b2, b3, b4, b5, b6}
  Texts = {"k", "s", "bad"}
  Utf8 = {"k", "s"}
  Folded <- MCFolded
  Values <- MCValues
  Docs <- MCDocs
  Arrays <- MCArrays
  Pick <- MCFirst
  MaxTrees = 2
  MaxViews = 0
  NULL = NULL
INVARIANTS
  TypeOK
  DoublyLinked
  OneOwner
  StringsOwnedOnce
  NoLeak
PROPERTIES
  ImplementsDocuments
  BuildEnds
