\* fdb_list again on an iterator that was part-way through a listing.
CONSTANTS
    e1 = e1
    e2 = e2
    NoElement = NoElement
    Listings <- MCListings
    MaxRetrieves = 2
    MaxCalls = 8
SPECIFICATION Spec
INVARIANT AttrsOfCurrentListing
\* After MaxCalls calls the client stops.
CHECK_DEADLOCK FALSE
