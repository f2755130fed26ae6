\* One client, listings of up to two elements, two retrieves, ten calls.
CONSTANTS
    e1 = e1
    e2 = e2
    NoElement = NoElement
    Listings <- MCListings
    MaxRetrieves = 2
    MaxCalls = 10
SPECIFICATION Spec
INVARIANT TypeOK
INVARIANT IterationDeliversListing
INVARIANT NoHandleLeaked
\* After MaxCalls calls the client stops.
CHECK_DEADLOCK FALSE
