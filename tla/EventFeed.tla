----------------------------- MODULE EventFeed -----------------------------
(***************************************************************************)
(* What a session's queue keeps of what its senders are told (the comments *)
(* of sendEv, trySendEv and sendEvReliable in player.go), without channel, *)
(* overflow, wake-up or pump: what is refused, and who may overtake whom.  *)
(* The comments promise life-cycle frames "in order" without more ado; the *)
(* code keeps that but for the frames called late here, which come while   *)
(* the client turns from what is not parked to what is.                    *)
(***************************************************************************)
EXTENDS Naturals

CONSTANT Frames     \* what is sent: by whom, the how many-th, and of what
                    \* kind, of "life", "bye" and "plain"

VARIABLES
    open,       \* the session goes on
    waiting,    \* frames taken on and not delivered
    parked,     \* those of them the client was too slow for
    turning,    \* the client found only parked frames, and turns to them
    late,       \* frames taken on, not parked, the last time it turned
    delivered,
    refused

vars == <<open, waiting, parked, turning, late, delivered, refused>>

Init ==
    /\ open = TRUE /\ turning = FALSE /\ late = {}
    /\ waiting = {} /\ parked = {} /\ delivered = {} /\ refused = {}

\* g is a frame of f's sender that it sent before f.
Earlier(g, f) == g.by = f.by /\ g.n < f.n

\* The next frame of its sender.
Newest(f) == \A g \in waiting \union delivered \union refused : g.by = f.by => Earlier(g, f)

Accept(f) ==
    /\ Newest(f)
    /\ waiting' = waiting \union {f}
    /\ late' = IF turning THEN late \union {f} ELSE late
    /\ UNCHANGED <<open, parked, turning, delivered, refused>>

\* A life-cycle frame is refused only by a session that ends with it.
Refuse(f) ==
    /\ Newest(f)
    /\ f.kind = "life" => ~open'
    /\ open' => open
    /\ refused' = refused \union {f}
    /\ UNCHANGED <<waiting, parked, turning, late, delivered>>

\* The client is too slow for a life-cycle frame, which waits apart.
Park(f) ==
    /\ f.kind = "life"
    /\ Newest(f)
    /\ waiting' = waiting \union {f}
    /\ parked' = parked \union {f}
    /\ UNCHANGED <<open, turning, late, delivered, refused>>

\* The client has everything that is not parked, and turns to what is.
Look ==
    /\ ~turning /\ waiting = parked
    /\ turning' = TRUE /\ late' = {}
    /\ UNCHANGED <<open, waiting, parked, delivered, refused>>

Turn ==
    /\ turning /\ turning' = FALSE
    /\ UNCHANGED <<open, waiting, parked, late, delivered, refused>>

\* Among the frames that are parked, and among those that are not, a sender's
\* arrive in the order it sent them.  A parked frame overtakes a late one only;
\* it is overtaken by what is no life-cycle frame.
Deliver(f) ==
    /\ f \in waiting
    /\ \A g \in waiting : Earlier(g, f) =>
            IF f \in parked THEN g \in late \ parked
                            ELSE g \in parked /\ f.kind # "life"
    /\ waiting' = waiting \ {f}
    /\ parked' = parked \ {f}
    /\ delivered' = delivered \union {f}
    /\ UNCHANGED <<open, turning, late, refused>>

Close ==
    /\ open' = FALSE
    /\ UNCHANGED <<waiting, parked, turning, late, delivered, refused>>

Next ==
    \/ \E f \in Frames : Accept(f) \/ Refuse(f) \/ Park(f) \/ Deliver(f)
    \/ Look \/ Turn \/ Close

Spec == Init /\ [][Next]_vars
=============================================================================
