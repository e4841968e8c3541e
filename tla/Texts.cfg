SPECIFICATION TextSpec
CONSTANTS
 Double <- MCDouble
 Limit = 2
 Inputs <- MCInputs
 Completions <- MCCompletions
 Studied <- MCStudied
 Seconds <- MCSeconds
 Commented <- MCCommented
 Trees <- MCTrees
 Slacks <- MCSlacks
INVARIANTS
 TokensSpellInput
 LexicalErrorsAreReal
 AcceptsTheGrammar
 RejectsAtFirstWrongToken
 DepthIsNesting
 LastErrorTellsFailure
 TextEndsInBuffer
 PointersInBuffer
 MinifyStrips
 CompareIsEquality
PROPERTIES
 UnreadIntact
 RoundTrip
 CallsReturn
