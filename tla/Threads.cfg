SPECIFICATION Spec
CONSTANTS
 Threads = {t1, t2}
 Blocks = {b1, b2, b3}
 NULL = NULL
 libc = libc
 count = count
 pool = pool
 heap = heap
 arena = arena
 LibC = libc
 Functions <- MCFunctions
 Home <- MCHome
 Hooks <- MCHooks
 MaxCalls = 3
 MaxNodes = 2
INVARIANTS
 BlocksReturnHome
 NoBlockLost
 LastErrorIsOwn
PROPERTIES
 ImplementsAllocators
 CallsReturn
