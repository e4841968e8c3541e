----------------------------- MODULE ParseCalls -----------------------------
(***************************************************************************)
(* The parse entry points: they strip a byte order mark, run the tokeniser *)
(* and the parser, and say by LAST_ERROR_PTR and *return_parse_end how it  *)
(* went.  What is built of the value is not said here, only if it is.      *)
(***************************************************************************)
EXTENDS Parser

VARIABLES
  call,       \* the parse call that runs, or that ran last: its entry, its text,
              \* and the parse end that it found
  running,    \* a parse call runs
  outcome,    \* of the last one: "tree", "memory", "rejected", "null"; or how the
              \* caller begins: "none" parsed yet, tree "built", text to be left "unread"
  lastError,  \* LAST_ERROR_PTR, as an offset in the text of the call
  parseEnd    \* *return_parse_end, likewise

callVars == <<call, running, outcome, lastError, parseEnd>>

Unset == -2   \* a parse end that no call has written
BOM == <<239, 187, 191>>

\* What tells the entry points apart: the text ends at its NUL or after a given
\* length, there is a parse end, nothing but white space may follow the value.
Entry(cstr, opts, strict) == [cstr |-> cstr, opts |-> opts, strict |-> strict]
LengthOpts == {Entry(FALSE, TRUE, strict) : strict \in BOOLEAN}
Entries ==
  {Entry(TRUE, FALSE, TRUE),                                      \* cJSON_Parse
   Entry(FALSE, FALSE, TRUE)}                                     \* cJSON_ParseWithLength
    \cup {Entry(TRUE, TRUE, strict) : strict \in BOOLEAN}         \* cJSON_ParseWithOpts
    \cup LengthOpts                                               \* cJSON_ParseWithLengthOpts

Returns == {"tree", "memory", "rejected", "null"}

-----------------------------------------------------------------------------
(* Calls *)

\* How many bytes strip_utf8_bom skips.
BomSkip(text) == IF IsPrefix(BOM, text) THEN 3 ELSE 0

CallText(entry, text) ==
  /\ ~running
  /\ LET skip == BomSkip(text)
     IN /\ call' = [entry |-> entry, skip |-> skip, length |-> Len(text), found |-> parseEnd]
        /\ input' = SubSeq(text, skip + 1, Len(text))
  /\ mode' = IF entry.strict THEN "whole" ELSE "prefix"
  /\ lexer' = "scan" /\ pos' = START /\ opened' = START /\ out' = <<>>
  /\ tokens' = <<>> /\ error' = NoError
  /\ parser' = "value" /\ cursor' = 0 /\ depth' = 0 /\ stack' = <<>> /\ result' = NoValue
  /\ running' = TRUE
  /\ UNCHANGED <<outcome, lastError, parseEnd>>

\* A NULL text: ParseWithLengthOpts leaves the parse end as it was.
CallNull(entry) ==
  /\ ~running
  /\ call' = [entry |-> entry, skip |-> 0, length |-> 0, found |-> parseEnd]
  /\ parseEnd' = IF entry.opts /\ entry.cstr THEN None ELSE parseEnd
  /\ lastError' = None
  /\ outcome' = "null"
  /\ UNCHANGED <<vars, running>>

\* The tokeniser and the parser run.
CallRuns ==
  /\ running
  /\ (Tokenise /\ UNCHANGED parseVars) \/ Parse
  /\ UNCHANGED callVars

\* (Mutant of ReturnAccepted: the last error stays.)
ReturnAcceptedStale ==
  /\ running
  /\ Accepted
  /\ running' = FALSE
  /\ parseEnd' = IF ~call.entry.opts THEN parseEnd
                 ELSE IF call.entry.strict THEN call.length ELSE call.skip + Consumed
  /\ outcome' \in {"tree", "memory"}
  /\ UNCHANGED <<vars, call, lastError>>

\* The text is accepted; building the tree may still fail.
ReturnAccepted ==
  /\ running
  /\ Accepted
  /\ running' = FALSE
  /\ lastError' = None
  /\ parseEnd' = IF ~call.entry.opts THEN parseEnd
                 ELSE IF call.entry.strict THEN call.length ELSE call.skip + Consumed
  /\ outcome' \in {"tree", "memory"}
  /\ UNCHANGED <<vars, call>>

\* error_byte_offset, behind a byte order mark.
ErrorOffset ==
  call.skip + IF error.kind = "UnexpectedEof" THEN Len(input) ELSE error.pos.offset

ReturnError ==
  /\ running
  /\ Ended /\ ~Accepted
  /\ running' = FALSE
  /\ lastError' = ErrorOffset
  /\ parseEnd' = IF call.entry.opts THEN ErrorOffset ELSE parseEnd
  /\ outcome' = "rejected"
  /\ UNCHANGED <<vars, call>>

-----------------------------------------------------------------------------
CallsInit ==
  /\ Start(<<>>, "whole")
  /\ call = [entry |-> Entry(TRUE, FALSE, TRUE), skip |-> 0, length |-> 0, found |-> Unset]
  /\ running = FALSE
  /\ outcome \in {"none", "built", "unread"}
  /\ lastError = None
  /\ parseEnd = Unset

CallsNext ==
  \/ \E entry \in Entries : CallNull(entry) \/ \E text \in Seq(Bytes) : CallText(entry, text)
  \/ CallRuns
  \/ ReturnAccepted
  \/ ReturnError

CallsSpec == CallsInit /\ [][CallsNext]_<<vars, callVars>>

-----------------------------------------------------------------------------
\* cJSON_GetErrorPtr points to a place in the text of the last parse if that was
\* rejected, behind its byte order mark, where the parse end points too; after
\* a success, a NULL text or want of memory it is NULL. The parse end lies in
\* the text too, or is NULL like the text; cJSON_ParseWithLengthOpts(NULL), and
\* the calls that have none, leave that of an earlier call as they found it.
\* (LAST_ERROR_PTR, *return_parse_end)
LastErrorTellsFailure ==
  ~running =>
    /\ outcome = "rejected" <=> lastError # None
    /\ outcome = "rejected" =>
         /\ lastError \in call.skip..call.length
         /\ call.entry.opts => parseEnd = lastError
    /\ outcome \in {"tree", "memory"} /\ call.entry.opts =>
         parseEnd \in (call.skip + 1)..call.length
    /\ outcome = "null" /\ call.entry.opts /\ call.entry.cstr => parseEnd = None
    /\ ~call.entry.opts \/ (outcome = "null" /\ ~call.entry.cstr) => parseEnd = call.found
=============================================================================
