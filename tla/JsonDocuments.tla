--------------------------- MODULE JsonDocuments ---------------------------
(***************************************************************************)
(* What the calls that build a tree promise, without nodes: the caller     *)
(* holds documents, and a call gives it the whole of the one it asked for  *)
(* or nothing.  No document that it holds changes.                         *)
(***************************************************************************)
EXTENDS JsonTrees

CONSTANTS
  Handles,  \* what the caller holds a document by
  Inputs,   \* the documents it has parsed or put together
  Texts,
  Utf8,
  NULL

\* held[x].doc: the document, with labels [key, kind, text]; held[x].lent: it
\* shows what another one owns.
VARIABLE held

Held == DOMAIN held

\* What a copy of d is: texts that are not UTF-8 are left out.
PlainText(s) == IF s \in Utf8 THEN s ELSE NULL
PlainLabel(l) == [key |-> PlainText(l.key), kind |-> l.kind, text |-> PlainText(l.text)]
Plain(d) == {<<e[1], PlainLabel(e[2])>> : e \in d}

AllParts == UNION {Parts(held[x].doc) : x \in Held}

\* What a reference can show: a document, and what follows it in its list.
Views ==
  {<<held[x].doc>> : x \in Held}
    \cup UNION {{SubSeq(Members(d), i, Len(Members(d))) : i \in DOMAIN Members(d)} : d \in AllParts}

\* The caller holds what is in S from now on, and nothing of it has changed.
Holds(S) ==
  /\ DOMAIN held' = S
  /\ \A y \in S \cap Held : held'[y] = held[y]

\* It gets one of D.
Take(x, D, lent) ==
  /\ Holds(Held \cup {x})
  /\ held'[x] \in [doc : D, lent : {lent}]

StringView(s) == Join([key |-> NULL, kind |-> "String", text |-> s], <<>>)
ArrayView(view) == Join([key |-> NULL, kind |-> "Array", text |-> NULL], view)

Build(x) == Take(x, {d \in Inputs : Plain(d) = d}, FALSE)
Copy(x) == Take(x, {Plain(d) : d \in AllParts}, FALSE)
Borrow(x) ==
  \/ Take(x, {StringView(s) : s \in Texts}, TRUE)
  \/ Take(x, {ArrayView(view) : view \in Views}, TRUE)
Drop(x) == Holds(Held \ {x})

Init == held = <<>>
Next ==
  \/ \E x \in Handles \ Held : Build(x) \/ Copy(x) \/ Borrow(x)
  \/ \E x \in Held : Drop(x)

Spec == Init /\ [][Next]_held
=============================================================================
