SPECIFICATION Spec
CONSTANTS
 Double <- MCDouble
 Limit = 2
 Inputs <- MCInputs
 Completions <- MCCompletions
INVARIANT PrefixIgnoresWhatFollows
