# cjson-rs in TLA+

This directory is a verification development of cjson-rs: a JSON parser and
serialiser in Rust (`src/cjson-rs`) under a C ABI that stands in for the cJSON
library (`src/cjson-rs-ffi`). It holds TLA+ modules, TLC configurations and
proofs for TLAPS. `PROJECT.json` lists components, runs, mutants, the map from
definitions to source lines, hazards, findings and theorems.

    tlc -workers 2 -config Lists.cfg MCCJsonTree.tla      # one of the runs
    for m in *Proofs.tla; do tlapm $m; done               # the proofs

## The system

| Component | Where | State it keeps | Operations | What makes it correct |
|---|---|---|---|---|
| Tree API | `lib.rs` 575-1002, 1214-1450, `convert.rs` | heap of `struct cJSON`: `next`, `prev`, `child`, flags | Create, Add, Insert, Detach, Delete, Replace, Duplicate | lists doubly linked; each node owned once; nothing leaks or dangles; kids in the promised order |
| References and strings | `lib.rs` 736-899, 1530-1557, `convert.rs` 128-155 | `CJSON_IS_REFERENCE`, `CJSON_STRING_IS_CONST`, `valuestring`, `string` | reference constructors, AddItemReference, AddItemToObjectCS, SetValuestring | each malloc'd string freed once, no borrowed one freed, shared data outlives its owner only by contract |
| Tree building | `convert.rs` 43-125, 215-267, `lib.rs` 660-730 | partial trees on the Rust stack | value_to_cjson, deep duplicate, array constructors | all or nothing when malloc fails half-way |
| Allocator hooks | `alloc_hooks.rs`, `lib.rs` 1190-1213 | two Relaxed atomics, shared by all threads | InitHooks, hook_malloc, hook_free | a block goes back to the allocator it came from |
| Parse entry points | `lib.rs` 40-135, 1066-1188 | one `LAST_ERROR_PTR` per thread, `*return_parse_end` | Parse, ParseWithLength, ...Opts, GetErrorPtr | error position of the last failed parse of this thread, none after a success |
| Tokeniser | `tokeniser.rs` | position, input | tokenise, tokenise_prefix | tokens spell the input; the first error, where it is |
| Parser | `parser.rs` | cursor, depth | parse, parse_prefix | grammar, nesting limit, consumed length |
| Value model | `value.rs`, `lib.rs` 527-574, 1008-1063 | none | conversion from nodes, Compare | equality is symmetric where keys are distinct |
| Printers | `serialiser.rs`, `lib.rs` 158-288, 1457-1513 | none | Print, PrintUnformatted, PrintPreallocated | output parses back; never past the buffer |
| Minify | `convert.rs` 269-332 | the buffer being rewritten | Minify | within the buffer; only comments and blanks go |
| Numbers, predicates, getters, panic guard, errors, layout | rest | none | | |

The FFI crate calls the safe crate to tokenise and parse into a `Value`, then
builds nodes from it (`value_to_cjson`); the printers go back from nodes to a
`Value`. From then on a tree is shared memory between the library and its C
caller: every call is a sequence of raw pointer writes that the compiler does
not check, and every allocation and free goes through the hooks. There are no
threads of the library's own, no persistence and no messages. What is hard is

* **sequences of legal calls**: detach and replace rely on pointers that
  earlier inserts left behind, free relies on flags that earlier adds set;
* **aliasing**: a name or value passed in may be the item's own, a reference
  shares another node's children and value;
* **failure half-way**: malloc may fail at every allocation of a call;
* **ordering**: errors of a later phase hidden by one of an earlier phase;
* **interleaving**, in two places only: the hooks, shared by all threads, and
  the last error, which must not be;
* **agreement**: a tokeniser, two serialisers, one printer of raw nodes and an
  in-place minifier each have their own idea of JSON, and what one writes the
  other has to read.

## Modules

| Module | Content |
|---|---|
| `CJsonNodes` | The heap as a record of functions, one per field, and the helpers of `convert.rs` and `lib.rs` as operators that read a heap or return a changed one. |
| `CJsonTree` | The state machine: variables `heap` and `owned`, one action per call, the caller's contract, the properties. |
| `JsonForest` | The abstract specification: items in sequences, with the texts of key and value. No pointers, buffers or flags. |
| `CJsonTreeForest` | The refinement mapping from `CJsonTree` to `JsonForest`: `Lists`, `Keys` and `Vals` of a heap. |
| `CJsonBuild` | The state machine of the calls that build a whole tree: `value_to_cjson`, deep `duplicate`, the array constructors, one step per allocation. |
| `JsonTrees` | Documents as sets of entries: a position in the document, and the label of the value there. |
| `JsonDocuments` | The abstract specification of `CJsonBuild`: documents that the caller holds; a call adds a whole one or none. |
| `CJsonBuildDocuments` | The refinement mapping: what a reader of a tree finds. |
| `MCCJsonTree`, `MCCJsonBuild` | Definitions for TLC: case folding, symmetry, documents, the order of addresses. |
| `JsonBytes` | Bytes by what they mean, UTF-8, escapes, the shape of a value. |
| `Tokeniser` | The tokeniser: one action per token, and per character of a string. |
| `Parser` | Recursive descent over its tokens, with a stack for the recursion: `parse` and `parse_prefix`. |
| `JsonTokens` | The reference for `Tokeniser`: which texts RFC 8259 makes tokens and what they denote, the ways to cut a text into them, and the properties of `Tokeniser` against it. |
| `JsonSyntax` | The reference for `Parser`: the values that tokens spell, what they denote and where they end, by nesting depth, and which tokens can begin a value; `AcceptsTheGrammar`, `RejectsAtFirstWrongToken`. |
| `JsonGrammar` | Both references together: which texts are documents, whatever the tokeniser makes of them; what the doc of `parse_prefix` says of them. |
| `JsonValues` | Pure operators: what a C reader finds of a `Value`, `cjson_to_value`, `serialise`, `serialise_pretty`, `write_cjson_pretty`, `compare_values`. |
| `Minify` | `minify_in_place`: one buffer, two pointers. |
| `ParseCalls` | The parse entry points around `Parser`: byte order mark, last error, parse end. |
| `TextBuffer` | The caller's buffer: what the printers, `Minify` and the caller itself write into it; what a text is without comments and blanks. |
| `CJsonText` | Composes `ParseCalls`, `TextBuffer` and `JsonValues`: a C caller that parses, prints, minifies, cuts and parses again. |
| `AllocHooks` | The two hook slots under the memory model, live blocks, and blocks that went astray. |
| `CJsonThreads` | Threads that parse, delete and hand over trees through `AllocHooks` while the hooks are exchanged; the last error of each. |
| `Allocators` | The abstract specification of the hooks: one allocator, exchanged as a whole when no block lives. |
| `MCJsonText`, `MCCJsonText`, `MCCJsonThreads` | Definitions for TLC: texts, trees, f64 on small numbers, hooks. |
| `CJsonNodesProofs` | Lemmas about the walks and the helpers of `CJsonNodes`, about who holds which string buffer, and about lists as sequences, with proofs. |
| `CJsonTreeProofs` | The invariants of `CJsonTree`, and that it implements `JsonForest`. |
| `CJsonBuildProofs` | The invariants of `CJsonBuild`. |
| `CJsonDocumentsProofs` | The proof that `CJsonBuild` implements `JsonDocuments`. |
| `TokeniserProofs` | The proof that `Tokeniser` reads what `JsonTokens` says. |
| `CJsonThreadsProofs`, `ParserProofs`, `MinifyProofs` | Theorems about the modules in their names, with proofs. |

### The heap

`heap.type[n]` is the low byte of `type_`, or `NULL` for an address that
malloc has not handed out; null, true, false and numbers are one type `Leaf`,
since no editing call tells them apart. `heap.refs` and `heap.consts` are the
nodes with `CJSON_IS_REFERENCE` and `CJSON_STRING_IS_CONST`. `next`, `prev`,
`child`, `valuestring` and `string` are the fields. A char pointer is a member
of `Bufs`, a malloc'd buffer whose text is `heap.text`, or a member of `Texts`,
a static string of the caller that is its own content. `Utf8` says which texts
`CStr::to_str` accepts, `Folded` what `eq_ignore_ascii_case` compares.

`owned` is the only history in the state: the nodes the caller got back from a
call and has neither deleted nor handed over. It is the ownership that the
comments of the code talk about, and the properties relate it to the pointers.

### Actions

An action is a whole call. `AttachChild`, `Detach`, `SpliceBefore`,
`TakePlace`, `AttachNamedChild`, `FreeTree`, `WrapAsReference` and `CopyNode`
are the functions of the code with their pointer writes; an action composes
them in the code's order, as `ReplaceItemViaPointer` does with `TakePlace` and
`FreeTree`. The walks are sets: `Siblings(h, x)` is the least set that holds x
and is closed under `next`, `Subtree(h, x)` what `free_cjson(x)` visits, which
leaves out the children of a reference and the siblings of x itself. Written so
they need no recursion, and the proofs can use them. Freed cells are blanked,
so that a stale pointer is visible as one to a node of type `NULL`.

Calls that fail before they change anything (a NULL argument, a wrong type, an
index out of range, no memory) are stuttering steps and not written. Two calls
change the heap and then fail: `AddNewFails` and `AddItemReferenceFails` are
the cleanup of `add_to_object` and `cJSON_AddItemReferenceToObject`.

### The caller's contract

C cannot stop a caller from freeing twice. The model makes the calls that the
comments allow, and no restriction is hidden in a guard of an operation:

* a call that takes over an item is given a root (`owned`), and hangs it
  outside its own tree (`Places`);
* an item to detach or to replace is a kid of the parent it is given with;
* what is freed has nothing under it that a remaining reference points to
  (`MayFree`, and the like conjunct of `SetValuestring`): references are views
  that the caller must drop first;
* the constant `Avoid` names two calls that turned out to break the promises
  of the code. With `"mutate_reference"` the caller does not edit the list of
  a reference; with `"replace_const_key"` it does not replace a member with a
  borrowed key by an item without one. The passing runs avoid both, and each
  has a run that leaves it in and shows what goes wrong.

### Building

`CJsonBuild` has its own variables: `heap` and `owned` as above, `stack` for the
recursion and `pc` for the place in the innermost call. A frame says which
function runs (`how`: `"value"` for `value_to_cjson` with `append_children`,
`"copy"` for `duplicate`, `"array"` for the array constructors), from what
(`source`: a parsed value, or the item), the node made so far, the next kid,
and `append_children`'s local `prev`. Where the functions differ the model
does: `duplicate` copies the key into its own node before the kids and hangs a
finished copy with `attach_child`; `append_children` copies the key of a
finished kid and links it behind the last one, without a walk; a key that fails
costs the kid and the parent, a kid that fails the parent, level by level
(`MemberKeyFails`, `PassFailure`). Between calls the caller keeps, deletes and
copies its trees and makes references to them, under the contract above
(`MayFree`).

A value is a record `[key, kind, text, kids]` of the set `Values`, which holds
its kids too. `Docs` are those that the parser returns, `Arrays` those that an
array constructor is asked for; they have no key. `Pick` says which of the free
addresses malloc may return; `MaxTrees` and `MaxViews` bound what the caller
holds.

### Reading text

`Tokeniser` keeps what the struct of that name keeps, `input` and `pos`, and
besides `lexer`, the place in its loop, with `opened` and `out` for the string
being read. Numbers and literals are one step each, as they change nothing
until they are whole; inside a string every character, escape or surrogate
pair is a step. In mode `"prefix"` an error ends the loop and is forgotten, as
in `tokenise_prefix`. What a number's text becomes is the constant `Double`:
the text of the nearest f64, or nothing when that is infinite.

`Parser` starts when the tokeniser is through (`At`), so a lexical error at the
end of a text wins over a wrong token at its start, as in the code. `stack`
holds the open containers with their members so far, and `parser` the place in
`parse_value`, `parse_array` and `parse_object`; `depth` is the counter of
`enter` and `leave`, which the properties compare with the stack.

`ParseCalls` runs both inside a call. A parse call is told apart by three
booleans (`Entries`): where the text ends, whether there is a parse end,
whether something may follow the value. It strips a byte order mark, runs the
tokeniser and the parser step by step, and returns a tree, no tree though the
text was good (`"memory"`), or an error; `lastError` and `parseEnd` are offsets
in the text of the call. `TextBuffer` is the caller's buffer with its size: a
printer allocates it, or is offered it with a length and checks that; Minify
rewrites it; the caller puts a NUL into it. `CJsonText` joins the two with the
trees and what the printers make of them: between calls the caller prints the
tree, by any printer, into a fresh buffer; has Minify run over the buffer; cuts
the text at the parse end; or takes another text. Two variables are history:
`meant` is the tree that the buffer should stand for, and `RoundTrip` says that
the next parse finds it; `original` is the text that Minify was called on, and
`MinifyStrips` says that what it leaves is that text unit by unit (`Stripped`):
strings as they are, comments not at all, and of other bytes all but blanks.

`Value` is one record for a Rust `Value` and for a node as its C reader finds
it; `ToNode` is where a key or string ends at its first NUL, and `ToValue` where
unreadable text becomes a null, or no value at all.

### Threads and hooks

`alloc_hooks.rs` loads and stores its two slots with Relaxed ordering, each by
itself. A slot is therefore the sequence of all it was given, and a load
returns any entry from the last that its thread has seen on (`Visible`):
coherence, and nothing more. What a thread knows of the other slot follows
only from what the caller does to synchronise its threads (`Synchronise`).

`cJSON_InitHooks` is two steps, one per store; a parse is one step per node,
which either comes from the malloc that this load sees or ends the call; delete
frees block by block through the free that each load sees. `blocks` says which
allocator a live block came from, and `strays` collects those that were given
to the free of another. A function belongs to an allocator (`Home`): a counting
malloc in front of libc's belongs to libc.

No lock protects the slots, so the caller must. `MayInstall` lets it exchange
the allocator only when no block lives and no call runs, by a thread that knows
of the last exchange; `MayCall` lets a thread call only when it has heard of
the exchange (`knows`, the histories of `asked`). Functions of the same
allocator may be exchanged at any time, under running calls: that is where a
thread sees a malloc of one call of `cJSON_InitHooks` and the free of another.

## Runs

The runs explore every reachable state; deadlock is checked. In `MCCJsonTree`
node and buffer addresses are symmetric: the code compares addresses with NULL
and nothing else. For the same reason `MCCJsonBuild`, whose instances are too
large for symmetry sets, lets malloc return the first free address: another
choice is the same behaviour under other names.

| Run | Instance | Shows |
|---|---|---|
| `Lists` | 5 nodes, no strings, leaves and arrays | `TypeOK`, `NoDangling`, `DoublyLinked`, `OneOwner`, `NoLeak`, `InsertLandsAtIndex` |
| `ListsForest` | the same | `ImplementsForest` |
| `Objects` | 3 nodes, 3 buffers, text k and one that is not UTF-8; strings, arrays, objects | `NoDangling`, `NoLeak`, `StringsOwnedOnce` |
| `ObjectsForest` | the same with texts k and K, without arrays | `ImplementsForest` |
| `Builds` | 6 nodes, 6 buffers; two documents of 3 and 4 nodes, three arrays; at most two trees | `TypeOK`, `DoublyLinked`, `OneOwner`, `StringsOwnedOnce`, `NoLeak`, `ImplementsDocuments`, `BuildEnds` |
| `Copies` | 6 nodes, 2 buffers; one object, one text that is not UTF-8; two trees and a reference | `NoDangling`, `OneOwner`, `StringsOwnedOnce`, `ImplementsDocuments` |
| `Texts` | some thousand short texts, nesting limit 2; 13 sessions of two parses; 11 trees | `TokensSpellInput`, `LexicalErrorsAreReal`, `AcceptsTheGrammar`, `RejectsAtFirstWrongToken`, `DepthIsNesting`, `LastErrorTellsFailure`, `TextEndsInBuffer`, `PointersInBuffer`, `MinifyStrips`, `CompareIsEquality`, `UnreadIntact`, `RoundTrip`, `CallsReturn` |
| `Threads` | 2 threads, 3 blocks, libc, a counting malloc, a pool; 3 exchanges | `BlocksReturnHome`, `NoBlockLost`, `LastErrorIsOwn`, `ImplementsAllocators`, `CallsReturn` |
| `PrefixGarbage` | the texts of `Texts` | violated: `PrefixIgnoresWhatFollows` |
| `ConstKeyReplaced` | 3 nodes, a borrowed key | violated: `BorrowedKeysStayFlagged` |
| `KeyedReplacement` | 4 nodes, texts k and K | violated: `ReplacementTakesKey` |
| `AddToReference` | 3 nodes | violated: `AdoptedIsOwned` |

**Bounds.** In the tree and building runs the state is finite because the
addresses are: no counter is bounded. List surgery has its cases at the head, in the middle, at the tail and
for the only kid, with an item coming from outside: a parent, three kids and a
newcomer, five nodes, have them all, and also two-level trees with references
to their inner lists. Keys and values are disturbed by at most one owner, one
item and one more node that shares or borrows; three nodes with three buffers
reach every combination of owned, borrowed, copied and moved, and run out of
buffers, so that copies fail. In `ObjectsForest` two texts equal up to case tell
apart the two lookups, and one that is not UTF-8 the calls that check from those that do not.

In `Builds` each document has a nested container and a kid before or after
it, with texts and keys, so that a failure finds kids linked, a kid finished
but not linked, and two unfinished levels; the second array has a string that
is refused after one that is not. Six nodes hold a tree and its whole copy, or
run out on the way. In `Copies` the object's member has a key; a reference to
the object nests it once more, one to the member shows a list from a kid on,
one to the text that is not UTF-8 a value that a copy leaves out. `OneOwner`
and `NoLeak` speak of the roots and of the nodes that the frames have in hand:
at every step they say who would free what.

The texts of `Texts` are all sequences of up to three or four parts, for each
of the tokeniser's alphabets: brackets, commas, keys and values (`Structures`);
the signs, digits, points and exponents of a number (`Numbers`); plain, escaped,
broken and surrogate characters in strings (`Strings`); words and blanks
(`Phrases`). An error of the tokeniser or parser is decided by at most a token
and its neighbours, or by the nesting, and `Limit` is 2, so that four brackets
reach and pass it. `Completions` are the kinds of tokens that may follow to
complete a value, where one asks how far tokens can begin one: the rest of a
member or a null, then brackets, at most one per level. More would complete no
other beginnings, and `FirstWrongTokenIsRefused` holds for every set that has at
least these. `MaxExponent` is 4, above which a number counts as infinite. These texts are
parsed once; the `Studied` ones, with byte order marks, NULs, trailing data and
escapes, are parsed by every entry point, printed, minified, cut and parsed
once more (`calls` is at most two), or followed by one of `Seconds`. `Trees`
adds what no parse makes: raw and invalid items, NaN, NULL strings, text that
is not UTF-8, keys equal up to case. `Commented` are four-part texts of
slashes, stars, quotes, backslashes and newlines, for Minify alone. `Slacks`
makes a preallocated buffer a byte too small, exact, or a byte larger.

In `Threads` two threads suffice: a block is taken and freed by the same or by
another one. Three calls of `cJSON_InitHooks` go to the pool and back, or mix
two exchanges within libc; trees of up to two nodes fail before, between and
after their blocks, and three blocks make two trees compete.

**The refinements.** `JsonForest` has eight actions on sequences. Under the
mapping `kids` is what a walk from `child` along `next` meets, so one action
property says for every call that the right list changes in the right place and
no other list, key, value or type does. `InsertLandsAtIndex` adds the index,
which the abstract `Adopt` leaves open, and so it leaves open which text a new
key or value has: that is an argument of the call, which no state keeps.
`JsonDocuments` has no building at
all: under its mapping every step of a call leaves all documents as they are,
until the last gives the caller a whole new one, or nothing. With `NoLeak`, a
failed build leaves no trace. A document is there the set of its entries, each
a position (the indexes that lead to it) and a label (key, kind, text), so that
an item of it is the entries behind a position (`Part`) and a copy of it the
same positions with plain labels (`Plain`): none of that recurs over the depth.
`Allocators` has one variable for the hooks where
the code has two slots and a view of them in each thread: its `home` is the
allocator that was asked for last, it changes at the first of the two stores,
and every free is by the allocator in use.

**Fairness.** The library does nothing unless called, and nobody owes it a
call: `CJsonTree` assumes no fairness and claims no liveness. In `CJsonBuild` a
call that was made runs on its caller's thread until it returns, waiting for
nobody: weak fairness of `LibraryStep`, and none of the caller's steps. Under
it `BuildEnds` says that the recursion comes back, though malloc may fail
whenever it is asked. `CJsonText` likewise has weak fairness of its
`LibraryStep`, so that `CallsReturn` finds a tokeniser, parser or minifier that
runs on without moving; `CJsonThreads` has it for each thread alone, since the
scheduler runs each of them in the end, and `CallsReturn` then says that no
call needs a step of another.

## Findings

1. *A replaced borrowed key is freed* (`ConstKeyReplaced`). `AddItemToObjectCS`
   borrows the key and flags the node; `replace_via_pointer` moves the key to
   the replacement and not the flag (`lib.rs` 1367-1372). `BorrowedKeysStayFlagged`
   fails after three calls; deleting the object would free the caller's string.
2. *The original key is preserved only at times* (`KeyedReplacement`). The
   comment at `lib.rs` 1366 does not mention that a replacement with a key of
   its own keeps that. The member is then no longer found under its name.
3. *A child of a reference is owned by nobody* (`AddToReference`).
   `attach_child` says the child becomes owned by its parent, and the Add calls
   accept a reference, whose children `free_cjson` does not free.

4. *Garbage spoils the token before it* (`PrefixGarbage`). `parse_prefix`
   promises to ignore garbage behind the first document; of `0.` the tokeniser
   keeps no token, and the parse fails.

Seen while modelling, and part of the models without a run of their own:

* `compare_values` looks through the members of its first argument: with a key
  twice in one object, a equals b while b does not equal a (`lib.rs` 1022-1036).
  `CompareIsEquality` says that nothing else makes it so: what has no key twice
  equals only what has none twice either, and is equalled by it, and equality is
  transitive whatever the keys are.
* `cJSON_GetErrorPtr` is NULL after a parse that failed for want of memory: a
  caller cannot tell that failure from a NULL text (`lib.rs` 98).
* `parse_prefix`, when a lexical error makes it fail, reports the end of the
  input and not the place of that error.
* `cJSON_ParseWithLengthOpts(NULL, ..)` leaves `*return_parse_end` alone, where
  `cJSON_ParseWithOpts(NULL, ..)` clears it (`lib.rs` 1133).
  `LastErrorTellsFailure` says so of both; `call.found` remembers what a call
  found there.
* `cJSON_PrintUnformatted` quotes a raw item, `cJSON_Print` prints it as it is.
* Minify is idempotent on JSON and not on every text: of `/ /x` it makes `//x`.

## Proofs

### Trees

`CJsonTreeProofs` proves, for every finite set of nodes and every set of
buffers and texts, under the assumption `"mutate_reference" \in Avoid`:

* `FieldsKeepTypes`: `Spec => []TypeOK`
* `ListsStayDoublyLinked`: `Spec => []DoublyLinked`
* `EveryNodeHasOneOwner`: `Spec => []OneOwner`
* `NothingLeaks`: `Spec => []NoLeak`

and, under `"replace_const_key" \in Avoid` besides:

* `EveryStringOwnedOnce`: `Spec => []StringsOwnedOnce`
* `NothingDangles`: `Spec => []NoDangling`; of this `NoDanglingLink`, the half
  about nodes, holds without it.

These are all the invariants that `Lists` and `Objects` check. Both assumptions
are needed: `AddToReference` shows a state in which `OneOwner` is about to fail,
and `ConstKeyReplaced` one in which a caller's string is about to be freed.

The inductive invariant is `SoundNow`, that is `Sound(heap, owned)`: the type
invariant, live links, mirrored links, and `OwnersIn`, which takes `OneOwner`
apart into what a root is, where a child pointer leads, that no two of them
lead to one node, and that every head but a root has one. `OneOwner` alone
does not say that a child pointer leads to a head, which every splice needs
to know before it moves it. `TypeOK` alone is not inductive either: that a
freed node holds nothing says nothing of the nodes that pointed to it.

`Sound` is a predicate of a heap and its roots, not of the variables, so that
each helper has a lemma of its own, in `CJsonNodesProofs`, and an action is
proved in `CJsonTreeProofs` by composing them:

* *Walks.* `Siblings` and `Subtree` contain their start, are closed, and are
  the least such sets (`SiblingsLeast`, `SubtreeLeast`): an invariant that holds
  at the head and is passed along `next` holds of all kids (`KidsAreKids`).
* *The tail exists* (`TailIsLastKid`): were there none, `next` would map the
  finite set of kids one to one into itself without meeting the head.
* *Links*: `AttachChildSound`, `DetachSound`, `SpliceBeforeSound`,
  `TakePlaceSound`, each saying how the roots change.
* *Freeing*: `SubtreeReachedFromWithin` and `SubtreeClosedOff` show that nothing
  outside a root's tree links into it, so `FreeTreeSound` leaves the rest sound.
* *Strings*: `StringsSound` and what follows show that keys and values can
  change without touching a link.
* *Fresh nodes*: `Adds` describes a heap with a new root that nothing points
  to; constructors, copies and wrappers establish it, hanging it up or freeing
  it again keeps soundness.

`StepSound` has one lemma per group of calls under it.

`StringsOwnedOnce` and `NoDangling` need an invariant about buffers, `Strung`:
each live buffer is held by one node's value or key and by nothing else
(`HeldIn`), and what is borrowed is borrowed from somebody (`BorrowedIn`): a
const key is the caller's string, the value of a reference is the caller's or
that of a live node that owns it. The second half is what `MayFree` is weighed
against: without it the caller could keep its contract and still leave a
reference to a freed value. Inside a call a buffer may have no holder yet, or
no longer, as when `attach_named_child` has copied the new key and not freed
the old one; `Strung(h, L)` names those buffers, so that each helper has a lemma
(`GiveValueStrung`, `TakePlaceStrung`, `FreeTreeStrung`, ...) and an action is
again their composition, with an empty `L` at its end.

`NoLeak` is not inductive because the tree of a root changes with every edit.
`Reached` says the same without trees: any set of nodes that has the roots in
it and is closed under `next` and owned `child` has all live nodes
(`ReachedIsInTrees`). A set that is closed after a call, with what the call cut
out put back, is closed before it: the lemma of each helper is that one step.

### The forest

`CJsonTreeProofs`, with the lemmas of `CJsonNodesProofs` about walks, proves for every finite set of nodes and every set of
buffers and texts,

* `CallsActOnAForest`: `Spec => ImplementsForest`, under both assumptions above;
* `InsertedItemsLand`: `Spec => InsertLandsAtIndex`, under
  `"mutate_reference" \in Avoid`.

The invariants say that the pointers are in order; these say what the calls do
to what the pointers stand for. The inductive invariant is what was proved
above, `Sound`, `Strung` and `Reached` together (`HeldNow`); the rest is about
what a walk meets.

* *Walks end.* `KidSeq` and `ChildAt` are recursive functions, and a chain of
  `next` might never reach NULL. A least-counterexample argument on the natural
  numbers (`NatSet`, `WalksAgree`, `ChildAtCounts`) shows that they are what a
  walk meets, and `ListsEnd` that a walk does end, by `ChainInjective`: it meets
  no node twice, and nodes are finite. `KidSeqIsList` identifies the sequence
  from then on by three facts: its first, its last, and each one's `next`.
* *One list changes.* Two lists share no node (`KidsApart`), so a call that writes
  the links of one list leaves the others (`OneListChanges`). What it does to
  that one is said once per helper: `AttachChildLists` appends, `DetachLists`
  removes, `SpliceBeforeLists` inserts, `TakePlaceLists` replaces in place,
  `FreeTreeLists` empties the lists of the tree.
* *Texts.* The like for keys and values: `FreeTreeTexts`, `AttachNamedTexts`,
  `BorrowTexts`, `RevalueTexts`, `TakePlaceTexts`. This is where `Strung` is
  needed: a buffer that is freed or overwritten is read by no other node.
* *Trees.* `TreeIsSubtree` equates the tree that `JsonForest` discards, which it
  reads off the sequences, with what `free_cjson` visits along the pointers.
* *Steps.* Each action of `CJsonTree` is proved to be one of `JsonForest`
  (`AdoptForest`, `ReplaceForest`, ...), and the two calls that allocate and then
  fail to be a stutter: what was made is unmade (`MadeIsUnmade`).

For the index of an insertion, `KidsCounted` and `SplicedIsThere` say that the
walk which found the place finds the new item there, `AttachedIsLast` that an
index past the end is the end.

### Building

`CJsonBuildProofs` proves, for any values, any depth of the recursion and any
choice of addresses by malloc, and with no restriction on the caller but its
contract, under the assumptions named in `CJsonBuild` (malloc returns what is
free; a value has the shape that its kind allows):

* `BuildTypeOK`: `Spec => []TypeOK`
* `PartialTreesDoublyLinked`: `Spec => []DoublyLinked`
* `PartialTreesOneOwner`: `Spec => []OneOwner`
* `CopiesOwnedOnce`: `Spec => []StringsOwnedOnce`
* `FailuresLeaveNothingDangling`: `Spec => []NoDangling`
* `FailuresLeakNothing`: `Spec => []NoLeak`

All are read off `BuildInv` (`BuildsStaySound`): the heap is sound, strung and
reached with the caller's trees and the frames' nodes as its roots, and the
frames are what a failure may take them for. Without the latter none of it is
inductive, since a failure frees the trees of several frames in turn, and
`MayFree` is not asked there. So the invariant says of every frame

* that its tree is private (`Private`): no reference is in it, looks into it or
  borrows from it, and it is apart from the trees of the others;
* that what `duplicate` still has to read is not in a tree that is being built
  (`Outside`), and so outlives a failure;
* that the last kid `append_children` remembers is one of the kids and has no
  successor (`Builds`), by `TailIsUnique` the one where a walk would end: so its
  links are those of `attach_child` (`LinkIsAttach`);
* that the frames below wait for a kid and have a node (`Waits`), so that there
  is something to hang it on or to free.

A step changes the tree of the frame on top, and perhaps of the one below. What
the others hold has links that do not meet these (`TreesApart`, `WaitingApart`),
so it stays as it was (`WaitingElsewhere`). `Whole` states the invariant with the
top frame apart, `Taken` with a finished kid in no frame's hands; `PopKid`,
`LinkKid`, `PopNothing`, `FreeBuilt` and `Descends` lead from one to the other, and
each step of `LibraryStep` is a chain of those.

### Documents

`CJsonDocumentsProofs` proves, with no more restriction on the caller,

* `BuildsHandOverDocuments`: `Spec => ImplementsDocuments`, the refinement of
  `JsonDocuments`, from
* `FramesHoldWhatWasAsked`: `Spec => []DocInv`.

The assumptions are those of `CJsonBuild` and two of `CJsonBuildDocuments`: no
`Value` is inside itself (`ValuesGrounded`, which Rust's ownership grants), and
what was parsed is UTF-8 (`ParsedAssumption`). `JsonDocuments` takes a new
document to be some value that was asked for, or a plain copy of some item that
the caller holds a document of; that it is the one of this very call is the
invariant's to say.

* *What a reader finds.* `DocsIn(h)` is a recursive function of the nodes, and
  has a value only if no node is below itself: `Grounded`, the first half of the
  invariant. A node's document is then its label with the documents of its kids
  (`HeapReads`, by `ReaderExists` and `ReadersAgree`, an induction over the
  length of positions), and two heaps that agree on a set of nodes closed under
  kids agree on its documents (`GrowIsLocal`, `DocsStay`).
* *What a frame has done.* The second half says of each frame which document it
  was asked for (`Asking`), and that its node shows that document's label and its
  kids up to the next one, plain if it is a copy, each whole (`Shown`, `Tells`).
  What is read from is not in a tree that is written to, by `BuildInv`.
* *Library steps* are stutters (`LibraryTidy`): what a step writes is in a
  private tree, which no document of the caller's reads, through references
  either. A failure frees only such trees (`FreeReads`).
* *The last step of a call* is `Build` or `Copy` (`ReturnMaps`); it finds one
  frame, all of whose kids are there (`Finished`). For a copy, what was copied
  has to be a part of a document that the caller holds: `TreesAreParts`, for
  every node that the caller can reach, also through a reference.
* *The caller's steps* are `Borrow` and `Drop` (`ReferenceBorrows`,
  `DeleteDrops`): a reference to an array's kid shows that kid and its
  followers (`ListIsView`).

### Hooks

`CJsonThreadsProofs` proves, for any number of threads, blocks, functions and
calls, under the assumptions of `AllocHooks` and `CJsonThreads` (libc's
functions are among the functions, NULL is none of them nor an allocator, hooks
are functions or NULL):

* `FreedWhereAllocated`: `Spec => []BlocksReturnHome`
* `BlocksInOneHand`: `Spec => []NoBlockLost`
* `OwnLastError`: `Spec => []LastErrorIsOwn`
* `HooksAreOneAllocator`: `Spec => ImplementsAllocators`, whose initial states
  and steps map to those of `Allocators`, which states no fairness.

`BlocksReturnHome` says nothing of what threads may still see. The inductive
invariant `IInv` therefore bounds that by what they have heard: a thread sees
hooks of no allocator that was replaced before the last exchange it knows of
(`SeesAsked`); between its two stores, `cJSON_InitHooks` sees its own malloc and
has the matching free in hand (`Installing`); a call that was allowed stays
allowed while it runs (`Calling`), since another allocator waits for it; and
every live block is of the allocator in use (`Current`), each in one hand
(`Owned`, `HandsFree`). The steps that move only what threads see share one
lemma for each conjunct (`SeesAskedKept`, `InstallingKept`, ...); `StoreAppends`
and `StoreVisible` say what a store adds.

### Parser

`ParserProofs` proves, for every text, every limit and whatever `Double` makes of
a number's text:

* `NestingIsCounted`: `Spec => []DepthIsNesting`. The invariant needs that a
  container is open wherever a member is expected.
* `ConsumedIsThere`: what the comment at `parser.rs` 68 claims, that makes
  `parse_prefix` index its tokens without a check. An accepted parse has
  consumed a token at least, and only such as there are; the parser has not
  begun while the tokeniser runs (`CursorInTokens`).
* `ErrorsPointIntoText`: `CallsSpec => []LastErrorTellsFailure`, of `ParseCalls`
  and all its entry points. Such an offset is added to a pointer of the caller.
  The invariant `PlacesInText` says that wherever the tokeniser is, and whatever
  place a token or an error notes, lies in the text, and that each token takes
  up some of it, so that an accepted prefix is not empty. Steps over more than
  one byte need a reason: a literal is there as a whole (`SliceIsThere`), a
  number ends in the text and behind its start (`NumberEndStays`, from the least
  number that `DigitsEnd` finds), an escape is there to its last digit
  (`Hex4IsThere`).
* `GrammarIsAccepted`: `Spec => []AcceptsTheGrammar`, the correctness of the
  parser: for every text and every limit, `parse` accepts if and only if the
  tokens are a value nested within the limit, `parse_prefix` if and only if they
  begin with one, and then the tokens consumed are those of the value and spell
  the result and nothing else.
* `FirstWrongTokenIsRefused`: `Spec => []RejectsAtFirstWrongToken`, the
  correctness of its errors: what is before the place of an error can begin a
  value, with the token there it cannot, and the error says which it is: the text
  ends, a value is over, one more level would do, a comma before a bracket, or
  just a wrong token.

`JsonSyntax` is declarative: `ValuesOf(s)[d][b]` is the set of all values nested
at most `d` deep that begin at place `b`, each with its end, and nothing in it
stops at the first one found. The parser goes forward and never back. The
invariant `Completes` joins the two: as long as the parser runs, the values that
the tokens begin with are those that complete what it has got. `Up` says what
that is for a stack of open containers: a value joins the innermost, which is
filled (`Fills`) or closed (`Closes`), and is then a value that joins the next.
Once it has refused a token, `parse_prefix` finds no value that the tokens begin
with and `parse` none that takes all of them; at the end there is one, the
result. All that is said not of `tokens` alone but of every sequence that agrees
with the tokens consumed so far (`Fits`) and of every limit that is not lower:
the parser has not looked at what follows. So the invariant also says what
other tokens would have led to, which is what an error is about.

* *Recursion.* `ValuesOf` is a recursive function of the depth, and `ListsOf`
  one of the place, whose value at `b` refers to places behind `b`. `ValuesOfIs`
  and `ListsOfIs` show that they have the values that their bodies say: a
  function that does so for the first depths, or the last places, is extended by
  one more. `ListsEnd` and `ValuesEnd` bound where what they find ends.
* *One more item.* A list is an item, and behind a comma a list; the parser
  appends to what it has. `FillsByItem` turns one into the other, with `\o`
  associative; `FillsArray` and `FillsObject` are its two cases.
* *Depth.* A value at `depth` open containers is nested at most
  `Limit - depth` deep (`Leads`), by `NestingIsCounted`; at the limit only
  scalars are left (`ValuesByKind`), which is why an opening bracket is refused.
* *Returning.* `UpStep` says that what completes a stack completes its head
  first; `ReturnLeads` follows for every way a value is complete.
* *The tokeniser.* As long as it runs or has failed there is nothing to prove of
  `parse`; `parse_prefix` goes on with the tokens before a lexical error
  (`TokeniseLeads`).
* *A refused token* has no way on: nothing that agrees with the tokens up to it,
  and with its kind, completes what the parser has got (`NoValueLike`,
  `RefusesToken`).
* *What is before it* has one: `ThereIsAWay` builds a sequence that agrees with
  the tokens consumed and goes on with a null, a colon, a key or nothing, and then
  the brackets that are open (`BracketsComplete`, `WithBrackets`). There is a
  lemma for each place where the parser can stand (`ValueCanCome`, `KeyCanCome`,
  `ColonCanCome`, `CloserCanCome`, `ItemCanCome`).
* *Which error it is.* At the limit the bracket has a way under one level more
  (`DeeperCanCome`), and no other refused token has one. A bracket behind a comma
  is wrong there, and right without the comma (`CloserForComma`, from
  `BehindComma`: what precedes the comma was complete); a bracket that is wrong
  even so is named itself (`BracketForComma`).

### Tokeniser

`TokeniserProofs` proves, for every text, also one that is no UTF-8:

* `TokensAreReadRight`: `Spec => []TokensSpellInput`
* `NoOtherCut`: `Spec => []LexicalErrorsAreReal`

The reference, `JsonTokens`, does not read from left to right: a text is a token
if it has the form of one as a whole, and `CutsOf` tries every place to cut. The
tokeniser never goes back. That it misses nothing is the conjunct `CutTo` of the
invariant `Lexed`: every cut of the input leads through the place where the
tokeniser stands; `Decoded` says the same of the characters of a string that is
open, whose bytes denote `out` and nothing else. So where no token or character
begins, there is no cut at all.

* `CutsOf` and `CharsOf` are recursive functions. `CutsFromIs` and `CharsUpToIs`
  show that they have the values that their bodies say, by extending a function
  that knows the first (or last) n places by one more; `CutGoesOn` and
  `DecodingsAre` are the equations that the rest uses.
* *Which token.* The first bytes of signs, words, numbers, strings and white
  space differ (`FirstByteDecides`), so at most one kind begins at a place.
* *How long.* Of a word there is one length (`WordReads`). A number could also
  stop earlier, `1` of `12`; `NumberFills` says by places what bytes it has, and
  `IntStops`, `FracStops` and `ExpStops` that a shorter one is followed by a
  byte that goes on with a number and begins no token (`NumberReads`). Here
  `IsPiece` matters: without white space `1-1` would be two numbers.
* *Strings.* The first bytes of a character give its size (`CharSizeIs`), also
  of escapes and surrogate pairs, and at most one text (`CharByFirstByte`); no character
  begins with the quote. So the places between characters are the same for every
  reading (`NextChar`), and the string ends at the first quote among them
  (`StringReads`).
* *Columns.* `PositionOf` counts newlines, and bytes that do not continue a
  character; `OverCounts` says how that count moves over n bytes.

### Minify

`MinifyProofs` proves, for every buffer with a NUL in it, `StaysInBuffer` and
`ReadsBeforeWriting`, from an invariant that a NUL lies at or ahead of `read` and
`write` not ahead of `read`. Each step skips or copies one or two bytes none of
which is the NUL (`NulFurtherAhead`), and a copy lands where `read` has been
(`CopiedBehind`).

Of `TextBuffer` the same module proves `NothingWrittenBeyond`,
`BufferSpec => []TextEndsInBuffer`, for every text and every length that a
caller offers: the check of `cJSON_PrintPreallocated` counts the NUL, and the
others write inside what is there. The NUL that stays in the buffer is what
Minify, and the next parse, start from.

`StripsCommentsAndBlanks`, `BufferSpec => []MinifyStrips`, says what is in the
buffer then, for every text, also one that is no JSON. The specification
`Stripped` takes a text apart into units and never looks at pointers; the code
goes byte by byte and remembers of a unit only its kind (`place`). The invariant
`Midway` joins them: the bytes not read yet are those of `original`, none of
those written is a NUL, and what is written together with what is still owed is
`Stripped(original)`. What is owed (`Owes`) follows from the place: between units
the rest of the text stripped; in a string the rest of that string, and then the
text behind it; in a comment only that. A string that is not over has an even
number of backslashes before the next byte (`Even`), which is why the code may
take two bytes at a backslash and stop at any quote that it meets, where
`Stripped` counts backslashes (`IsEscaped`). For each kind of byte a lemma says
that what is owed before is the bytes copied and what is owed after (`Goes`,
`Leads`), and `GoesOn` that the buffer then holds them. `FromSteps` shows by the
least counterexample on the natural numbers that the recursive function in
`Stripped` has a value everywhere.

### Only model-checked

TLC alone checks

* what compares with a recursive operator (the printers, Compare), which is
  induction over data and out of the prover's reach: `RoundTrip` and
  `CompareIsEquality`;
* liveness, and with it ENABLED: `BuildEnds` and both `CallsReturn`.

## What is not modelled

* `clamp_to_int`, `valueint` and `cJSON_SetNumberHelper`: comparisons and
  assignments of floating point numbers. In `CJsonText` a number is the text of
  its f64, in the trees a leaf.
* Hooks that call back into the library, and callers that break the contracts
  above (a list made cyclic, a tree freed twice, a detached stranger): the code
  does not check, and says so.
* The stack: a tree or text nested deeper than it holds is not seen. The
  parser's limit bounds that for texts, nothing does for trees built by calls.
* The wording of errors (`error.rs`), the accessors of `Value` and the type
  predicates, which read one field; `cJSON_PrintBuffered`, which calls one of two
  printers; the byte layout of the structs, which is the compiler's.
* `panic_guard.rs`: no modelled call panics between two changes of state.
* Refused calls of `cJSON_PrintPreallocated` touch nothing, and are stuttering
  steps like other refused calls.
* In `CJsonThreads` a tree is its set of blocks and its text accepted or not;
  `CJsonText` and `CJsonBuild` say the rest, for one thread.
* A Rust string with a NUL inside, which a C reader sees cut, is not among the
  texts of `CJsonBuild`; it is among those of `CJsonText`.

## Plan

Every invariant and every refinement of the runs about trees, buffers, hooks,
parse calls, tokens, the grammar and its errors has a theorem. What is left is to
state the printers and `compare_values` as functions of a tree instead of
recursive operators, and to prove of those what TLC checks; and, as more of the
code is modelled, what `cJSON_SetNumberHelper` and `clamp_to_int` do at the ends
of int.
