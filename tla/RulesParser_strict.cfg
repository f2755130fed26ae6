\* The parser accepts only texts of the spec grammar.
CONSTANTS
    IdentChars <- MCIdentChars
    MaxLen = 6
SPECIFICATION Spec

INVARIANT OnlyGrammarAccepted
\* A text of MaxLen characters is not extended further.
CHECK_DEADLOCK FALSE
