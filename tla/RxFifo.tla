------------------------------- MODULE RxFifo -------------------------------
(***************************************************************************)
(* What CANDriver::receiveMessage promises to the CAN task (can.hpp:66-86  *)
(* as ESPCANDriver fulfils it): a FIFO between the wire and the caller.    *)
(* Frames come out in the order they arrived, none twice and none that     *)
(* never arrived.  Frames are lost only                                    *)
(*   - on arrival, when the link is down or nobody had room for them       *)
(*     (they never become pending),                                        *)
(*   - when more than Capacity frames are pending; the Capacity oldest     *)
(*     ones are safe from that,                                            *)
(*   - when the link is brought back up or torn down, and then the newest  *)
(*     go and a prefix stays,                                              *)
(*   - when the caller asks for the queues to be cleared.                  *)
(* A call that began with a frame waiting comes back with a frame.         *)
(*                                                                         *)
(* EspCanDriver.tla is shown to implement this module.                     *)
(***************************************************************************)
EXTENDS Naturals, Sequences, SequencesExt

CONSTANTS
    Frame,     \* the frames that can be on the wire
    NoFrame,   \* what a call returns when it returns no frame, not a frame
    Capacity   \* how many pending frames are safe from overflow

VARIABLES
    pending,   \* frames that arrived and have not been handed out, oldest first
    link,      \* "down" | "up" | "closed"
    calling,   \* a receive call is in progress
    owed,      \* that call began with a frame waiting (and still pending since)
    purging,   \* a clear call has emptied one of the two queues, not yet both
    out        \* what the latest receive call returned

vars == <<pending, link, calling, owed, purging, out>>

TypeOK ==
    /\ pending \in Seq(Frame)
    /\ link \in {"down", "up", "closed"}
    /\ calling \in BOOLEAN /\ owed \in BOOLEAN /\ purging \in BOOLEAN
    /\ out \in Frame \cup {NoFrame}

Init ==
    /\ pending = <<>> /\ link = "down" /\ out = NoFrame
    /\ calling = FALSE /\ owed = FALSE /\ purging = FALSE

(* pending' is what is left after the newest frames are lost *)
KeepOldest == \E k \in 0..Len(pending) : pending' = SubSeq(pending, 1, k)

Arrive ==
    /\ link = "up"
    /\ \E f \in Frame : pending' = Append(pending, f)
    /\ UNCHANGED <<link, calling, owed, purging, out>>

Overflow ==
    /\ Len(pending) > Capacity
    /\ pending' = RemoveAt(pending, Capacity + 1)
    /\ UNCHANGED <<link, calling, owed, purging, out>>

LinkFails == link = "up" /\ link' = "down" /\ UNCHANGED <<pending, calling, owed, purging, out>>

LinkRestarts ==
    /\ link = "down" /\ link' = "up"
    /\ KeepOldest
    /\ owed' = (owed /\ pending' # <<>>)
    /\ UNCHANGED <<calling, purging, out>>

LinkCloses ==
    /\ link # "closed" /\ ~calling /\ ~purging
    /\ link' = "closed"
    /\ KeepOldest
    /\ UNCHANGED <<calling, owed, purging, out>>

Call ==
    /\ link # "closed" /\ ~calling /\ ~purging
    /\ calling' = TRUE
    /\ owed' = (pending # <<>>)
    /\ UNCHANGED <<pending, link, purging, out>>

Deliver ==
    /\ calling /\ pending # <<>>
    /\ out' = Head(pending) /\ pending' = Tail(pending)
    /\ calling' = FALSE /\ owed' = FALSE
    /\ UNCHANGED <<link, purging>>

Decline ==
    /\ calling /\ ~owed
    /\ out' = NoFrame
    /\ calling' = FALSE
    /\ UNCHANGED <<pending, link, owed, purging>>

StartPurge ==
    /\ link # "closed" /\ ~calling /\ ~purging
    /\ purging' = TRUE
    /\ KeepOldest
    /\ UNCHANGED <<link, calling, owed, out>>

EndPurge ==
    /\ purging /\ purging' = FALSE
    /\ \E k \in 0..Len(pending) : pending' = SubSeq(pending, k + 1, Len(pending))
    /\ UNCHANGED <<link, calling, owed, out>>

Next ==
    \/ Arrive \/ Overflow \/ LinkFails \/ LinkRestarts \/ LinkCloses
    \/ Call \/ Deliver \/ Decline \/ StartPurge \/ EndPurge

Spec == Init /\ [][Next]_vars
=============================================================================
