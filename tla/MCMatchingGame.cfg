\* Two users at one number; the process may end once.
SPECIFICATION Spec
CONSTANTS
    a = a
    b = b
    five = five
    Nobody = Nobody
    User = {a, b}
    Number = {five}
    MaxRequests <- FourAndTwo
INVARIANT
    RootsAreReplays
PROPERTIES
    PlaysTheGame
    MatchesArePublished
