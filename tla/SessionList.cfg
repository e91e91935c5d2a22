\* Four objects: lists long enough for a session with neighbours on both sides
\* that is neither the head's nor the tail's neighbour's only link.
CONSTANTS
    Sessions = {s1, s2, s3, s4}
    Nil = Nil
SPECIFICATION Spec
INVARIANTS TypeOK LinksConsistent
PROPERTY SlotSpec
