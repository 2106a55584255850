\* Three addresses.
CONSTANT N = 3
SPECIFICATION Spec
INVARIANTS NothingLeaked FirstWins
PROPERTIES OpenReturnsUnlessLost
\* open() returns once.
CHECK_DEADLOCK FALSE
