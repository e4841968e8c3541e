----------------------------- MODULE CJsonText -----------------------------
(***************************************************************************)
(* A C caller and the calls that read and write text: the parse entry      *)
(* points, the printers, cJSON_Minify, cJSON_Compare.  The caller has one  *)
(* buffer and the last tree it got; it parses, prints the tree into a new  *)
(* buffer, minifies or cuts the text there, and parses again.              *)
(***************************************************************************)
EXTENDS JsonGrammar, JsonValues, ParseCalls, TextBuffer

CONSTANTS
  Studied,    \* texts that begin a session; the other Inputs are parsed once
  Seconds,    \* texts for a second parse
  Commented,  \* texts that are no JSON, for cJSON_Minify
  Trees,      \* trees built by the API, as their readers find them
  Slacks      \* how much larger a preallocated buffer is than what it must hold

VARIABLES
  calls,      \* parse calls left
  tree,       \* the tree that the caller has
  meant       \* the tree that the text in the buffer stands for, once that is known

textVars == <<calls, tree, meant>>
allVars == <<vars, bufferVars, callVars, textVars>>

\* One call does for a text that is not studied.
EntriesNow == IF calls = 1 /\ outcome = "none" THEN LengthOpts ELSE Entries

Idle == ~running /\ place = "idle"

\* The caller goes on. (Bound: what comes after the last parse is not parsed
\* again, so it is left out.)
GoesOn == Idle /\ calls > 0

-----------------------------------------------------------------------------
(* Parsing *)

\* The text of the buffer, which need not be over at its first NUL.
CallParse ==
  /\ GoesOn
  /\ outcome # "unread"
  /\ \E entry \in EntriesNow :
       CallText(entry, IF entry.cstr \/ meant # NoValue THEN CText(cell) ELSE Front(cell))
  /\ calls' = calls - 1
  /\ tree' = NoValue
  /\ UNCHANGED <<bufferVars, meant>>

CallParseNull ==
  /\ GoesOn
  /\ outcome \in Returns
  /\ \E entry \in EntriesNow : CallNull(entry)
  /\ calls' = calls - 1
  /\ tree' = NoValue
  /\ UNCHANGED <<bufferVars, meant>>

ParseStep == CallRuns /\ UNCHANGED <<bufferVars, textVars>>

\* The caller gets the tree, or finds that there was no memory for it.
ReturnTree ==
  /\ ReturnAccepted
  /\ tree' = IF outcome' = "tree" THEN ToNode(result) ELSE NoValue
  /\ UNCHANGED <<bufferVars, calls, meant>>

ReturnNoTree == ReturnError /\ UNCHANGED <<bufferVars, textVars>>

-----------------------------------------------------------------------------
(* Printing and rewriting *)

\* What a tree is after it was printed and parsed. A raw item is a string to
\* serialise; write_cjson_pretty prints it as it is, and here it is a number.
RECURSIVE Reread(_, _)
Reread(n, format) ==
  LET Text(s) == IF Readable(s) THEN OrEmpty(s) ELSE <<>>
  IN IF n.kind = "invalid" \/ n.text = NaN THEN Empty("null")
     ELSE Value(IF n.kind # "raw" THEN n.kind ELSE IF format THEN "number" ELSE "string",
                Text(n.text),
                [i \in DOMAIN n.keys |-> Text(n.keys[i])],
                [i \in DOMAIN n.kids |-> Reread(n.kids[i], format)])

\* The text in the buffer stands for n now.
Meaning(n) ==
  /\ meant' = n
  /\ UNCHANGED <<vars, callVars, calls>>

\* cJSON_Print and cJSON_PrintUnformatted, into a new buffer.
PrintTree ==
  /\ GoesOn
  /\ tree # NoValue
  /\ \E format \in BOOLEAN :
       LET text == Printed(tree, format)
       IN text # NullText /\ HoldText(text) /\ Meaning(Reread(tree, format))
  /\ UNCHANGED tree

\* serialise_pretty of a Rust caller of the crate: no C call comes to it.
PrintValue ==
  /\ GoesOn
  /\ tree # NoValue
  /\ ToValue(tree) # NoValue
  /\ HoldText(SerialisePretty(ToValue(tree), 0))
  /\ Meaning(Reread(tree, FALSE))
  /\ UNCHANGED tree

PrintPreallocated ==
  /\ GoesOn
  /\ tree # NoValue
  /\ \E format \in BOOLEAN, slack \in Slacks :
       LET text == Printed(tree, format)
       IN /\ text # NullText
          /\ PrintInto(text, Len(text) + 1 + slack)
          /\ Meaning(Reread(tree, format))
  /\ UNCHANGED tree

\* The caller minifies a text that it knows the meaning of, or one that it has
\* not parsed and that may be no JSON.
CallMinify ==
  /\ GoesOn
  /\ original = <<>>
  /\ \/ meant # NoValue
     \/ outcome = "tree" /\ tree # NoValue /\ call.entry.strict
     \/ outcome = "unread"
  /\ StartMinify
  /\ meant' = IF meant # NoValue THEN meant ELSE tree
  /\ UNCHANGED <<vars, callVars, calls, tree>>

MinifyRuns ==
  /\ RunMinify
  /\ UNCHANGED <<vars, callVars, textVars>>

\* The caller ends the text at the parse end: that is what the tree stands for.
CutAtParseEnd ==
  /\ GoesOn
  /\ tree # NoValue
  /\ outcome = "tree"
  /\ call.entry.opts
  /\ meant = NoValue
  /\ EndTextAt(parseEnd)
  /\ Meaning(tree)
  /\ UNCHANGED tree

\* The caller deletes its tree and goes on to another text.
NextText ==
  /\ GoesOn
  /\ outcome \in Returns
  /\ \E text \in Seconds : HoldText(text)
  /\ Meaning(NoValue)
  /\ tree' = NoValue

-----------------------------------------------------------------------------
LibraryStep == ParseStep \/ ReturnTree \/ ReturnNoTree \/ MinifyRuns

CallerStep ==
  CallParse \/ CallParseNull \/ PrintTree \/ PrintValue \/ PrintPreallocated
    \/ CallMinify \/ CutAtParseEnd \/ NextText

\* The caller may leave it at that.
Rest == Idle /\ UNCHANGED allVars

TextInit ==
  /\ CallsInit
  /\ read = 0 /\ write = 0 /\ place = "idle"
  /\ meant = NoValue
  /\ original = <<>>
  /\ \/ /\ \E text \in Inputs : cell = Append(text, 0)
        /\ calls = 1 /\ outcome = "none" /\ tree = NoValue
     \/ /\ \E text \in Studied : cell = Append(text, 0)
        /\ calls = 2 /\ outcome = "none" /\ tree = NoValue
     \/ /\ \E text \in Commented : cell = Append(text, 0)
        /\ calls = 1 /\ outcome = "unread" /\ tree = NoValue
     \/ /\ tree \in Trees
        /\ calls = 1 /\ outcome = "built" /\ cell = <<0>>
  /\ room = Len(cell)

TextNext == LibraryStep \/ CallerStep \/ Rest
TextSpec == TextInit /\ [][TextNext]_allVars /\ WF_allVars(LibraryStep)

-----------------------------------------------------------------------------
(* Properties *)

RECURSIVE Height(_)
Height(n) ==
  IF n.kind \notin {"array", "object"} THEN 0
  ELSE 1 + Max({Height(n.kids[i]) : i \in DOMAIN n.kids} \cup {0})

\* A text that was printed, minified, or cut at the parse end parses to the tree
\* it stands for, unless memory runs out or the tree is nested too deep.
\* (print_impl, minify_in_place, *return_parse_end, against parse)
RoundTrip ==
  [][running /\ ~running' /\ meant # NoValue =>
       /\ outcome' = "tree" => tree' = meant
       /\ outcome' = "rejected" => Height(meant) > Limit]_allVars

RECURSIVE HasNaN(_)
HasNaN(n) == n.text = NaN \/ \E i \in DOMAIN n.kids : HasNaN(n.kids[i])

\* No object has two keys that the comparison takes for one.
RECURSIVE HasDistinctKeys(_, _)
HasDistinctKeys(n, sensitive) ==
  LET Key(k) == IF sensitive THEN OrEmpty(k) ELSE LowerCase(OrEmpty(k))
  IN /\ IsInjective([i \in DOMAIN n.keys |-> Key(n.keys[i])])
     /\ \A i \in DOMAIN n.kids : HasDistinctKeys(n.kids[i], sensitive)

\* cJSON_Compare: a tree that a value can be made of, without NaN, equals
\* itself; trees that are equal are equal up to case, and to whatever one of
\* them is equal to. A tree without a key twice equals only trees that have none
\* twice either and equal it: it takes a key twice on the left, and nothing else,
\* to be equal one way only.
\* (compare_values, which looks through the members of one side only)
CompareIsEquality ==
  Idle /\ tree # NoValue =>
    /\ ToValue(tree) # NoValue /\ ~HasNaN(tree) => Compare(tree, tree, TRUE)
    /\ \A other \in Trees, sensitive \in BOOLEAN :
         /\ Compare(tree, other, sensitive) =>
              /\ Compare(tree, other, FALSE)
              /\ \A third \in Trees : Compare(other, third, sensitive) => Compare(tree, third, sensitive)
         /\ \A pair \in {<<tree, other>>, <<other, tree>>} :
              Compare(pair[1], pair[2], sensitive) /\ HasDistinctKeys(pair[1], sensitive) =>
                HasDistinctKeys(pair[2], sensitive) /\ Compare(pair[2], pair[1], sensitive)

\* Every call comes back: neither the tokeniser nor the parser nor Minify runs
\* for ever or gets stuck.
CallsReturn == ~Idle ~> Idle
=============================================================================
