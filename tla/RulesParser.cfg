\* Every text of up to seven characters over the five delimiters and two
\* name characters.
CONSTANTS
    IdentChars <- MCIdentChars
    MaxLen = 7
SPECIFICATION Spec
INVARIANT TypeOK
INVARIANT GrammarAccepted
\* A text of MaxLen characters is not extended further.
CHECK_DEADLOCK FALSE
