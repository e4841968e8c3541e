---------------------------- MODULE MCCJsonBuild ----------------------------
(* Instances of CJsonBuild for TLC. *)
EXTENDS CJsonBuildDocuments

\* malloc returns the first free address: the code compares addresses with NULL
\* only, so another choice gives the same behaviours under other names.
MCFirst(S) == IF S = {} THEN {} ELSE {CHOOSE x \in S : TRUE}

MCFolded == [s \in Texts |-> s]

Item(key, kind, text, kids) == [key |-> key, kind |-> kind, text |-> text, kids |-> kids]
Str(key, s) == Item(key, "String", s, <<>>)
One(key) == Item(key, "Leaf", NULL, <<>>)
Arr(key, kids) == Item(key, "Array", NULL, kids)
Obj(key, kids) == Item(key, "Object", NULL, kids)

\* {"k": "s", "s": []} and [{"k": 1}, "s"]: kids before and after a nested
\* container, members and elements, keys and values.
MCDocs ==
  {Obj(NULL, <<Str("k", "s"), Arr("s", <<>>)>>),
   Arr(NULL, <<Obj(NULL, <<One("k")>>), Str(NULL, "s")>>)}

\* {"k": 1}, which a reference nests once more.
MCMember == {Obj(NULL, <<One("k")>>)}

\* An array of numbers, one of strings, and one with a string that is refused.
MCArrays ==
  {Arr(NULL, <<One(NULL), One(NULL)>>),
   Arr(NULL, <<Str(NULL, "k")>>),
   Arr(NULL, <<Str(NULL, "k"), Str(NULL, "bad")>>)}

MCKids(D) == UNION {{d.kids[i] : i \in DOMAIN d.kids} : d \in D}
MCWithin(D) == D \cup MCKids(D) \cup MCKids(MCKids(D))
MCValues == MCWithin(MCDocs \cup MCArrays)
MCMemberValues == MCWithin(MCMember)
=============================================================================
