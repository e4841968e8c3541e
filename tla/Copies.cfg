\* Copies of trees, of their kids and of references, malloc failing anywhere.
SPECIFICATION Spec
CONSTANTS
  Nodes = {n1, n2, n3, n4, n5, n6}
  Bufs = {b1, b2}
  Texts = {"k", "bad"}
  Utf8 = {"k"}
  Folded <- MCFolded
  Values <- MCMemberValues
  Docs <- MCMember
  Arrays = {}
  Pick <- MCFirst
  MaxTrees = 2
  MaxViews = 1
  NULL = NULL
INVARIANTS
  NoDangling
  OneOwner
  StringsOwnedOnce
PROPERTY ImplementsDocuments
