SPECIFICATION BusSpec
CONSTANTS
    ID = {m1, m2}
    OtherID = other
    Zero = Zero
    Junk = Junk
    None = None
    SLOT_BYTES = 2
    Hack = 1
    Val = {v1, v2}
    DLC = {0, 1, 2}
    Lengths = {2}
    CallbackID = {m1}
    MaxAdds = 2
    Senders = TRUE
    HeapReuse = TRUE
SYMMETRY Symmetries
INVARIANT HoldsLastFrames
