---------------------------- MODULE SessionQueue ----------------------------
(***************************************************************************)
(* The outbound queue of one session (player.go): the hub and the          *)
(* connection's own goroutine put frames in, the pump (decodeLoop of       *)
(* remote.go) writes them to the gateway.  Frames ride a bounded channel,  *)
(* out; a life-cycle frame that finds it full is parked in crit, an        *)
(* overflow with its own wake-up.  A plain frame is dropped by a full      *)
(* queue, or blocks the sender, as the sender asks.                        *)
(*                                                                         *)
(* One action is what a goroutine does between two points where another    *)
(* can run: a channel operation, or a critical section of critMu.  A frame *)
(* is who sent it, its number and its kind; what it says is left out.  The *)
(* pump's write to the gateway is the step that takes the frame.           *)
(***************************************************************************)
EXTENDS Integers, Sequences, Functions

CONSTANTS
    Hub,        \* goroutines that also send without blocking, and kick: the hub
    Conn,       \* goroutines that do neither: the connection's handler
    OutCap,     \* capacity of the channel out (256)
    CritCap,    \* bound of the overflow (critCap, 8192)
    MaxFrames   \* bound: how many frames each goroutine sends

ASSUME SessionQueueAssumption ==
    /\ OutCap \in Nat \ {0}
    /\ CritCap \in Nat \ {0}
    /\ MaxFrames \in [Hub \union Conn -> Nat]

Senders == Hub \union Conn

\* "life": isLifecycleFrame; "bye": the Disconnect frame of a kick.
Kinds  == {"life", "plain", "bye"}
Frames == [by : Senders, n : Nat \ {0}, kind : Kinds]

VARIABLES
    out,      \* player.out
    crit,     \* player.crit
    wake,     \* a token in player.critWake
    quit,     \* "no", or what closed player.quit first: "left", "overflow", "kick"
    pump,     \* decodeLoop: "poll", "take", "emit", "wait", "stopped"
    batch,    \* what takeCrit returned and drainCrit has not written yet
    pc,       \* where a sender is: "idle", "probe", "park", "wake", "block", "kick"
    hold,     \* the frame a sender is busy with, as a set of at most one
    count,    \* how many frames a sender has begun to send
    emitted,  \* history: the frames written to the gateway
    late,     \* history: what was in out when the pump last took the overflow
    lost      \* history: the frames dropped or refused

sendVars == <<pc, hold, count>>
pumpVars == <<pump, batch, emitted, late>>
vars     == <<out, crit, wake, quit, sendVars, pumpVars, lost>>

Init ==
    /\ out = <<>>
    /\ crit = <<>>
    /\ wake = FALSE
    /\ quit = "no"
    /\ pump = "poll"
    /\ batch = <<>>
    /\ pc = [s \in Senders |-> "idle"]
    /\ hold = [s \in Senders |-> {}]
    /\ count = [s \in Senders |-> 0]
    /\ emitted = {}
    /\ late = {}
    /\ lost = {}

\* Fault: one frame more than the channel holds.
RoomForOneMore == Len(out) <= OutCap
Room == Len(out) < OutCap

\* player.disconnect: the first to close quit decides.
Closed(why) == IF quit = "no" THEN why ELSE quit

-----------------------------------------------------------------------------
(* The senders.                                                            *)

\* The next frame of sender s.
Fresh(s, kind) == [by |-> s, n |-> count[s] + 1, kind |-> kind]

Begin(s) ==
    /\ pc[s] = "idle"
    /\ count[s] < MaxFrames[s]
    /\ count' = [count EXCEPT ![s] = @ + 1]

\* The next thing sender s does, with the frame it goes on holding, if any.
Goes(s, where, frames) ==
    /\ pc' = [pc EXCEPT ![s] = where]
    /\ hold' = [hold EXCEPT ![s] = frames]

\* trySendEv of a plain frame.
Offer(s, f) ==
    IF Room THEN out' = Append(out, f) /\ UNCHANGED lost
            ELSE lost' = lost \union {f} /\ UNCHANGED out

TrySend(s) ==
    /\ s \in Hub
    /\ Begin(s)
    /\ Offer(s, Fresh(s, "plain"))
    /\ UNCHANGED <<crit, wake, quit, pc, hold, pumpVars>>

\* sendEv of a plain frame: wait for room, or for the end of the session.  The
\* hub has calls of it too (onDimSwitch, the scoreboard, the dragon's bar).
SendBlocking(s) ==
    /\ Begin(s)
    /\ Goes(s, "block", {Fresh(s, "plain")})
    /\ UNCHANGED <<out, crit, wake, quit, pumpVars, lost>>

\* Fault: the blocked sender does not watch the end of the session.
UnblockOnRoom(s) ==
    /\ pc[s] = "block"
    /\ Room
    /\ \E f \in hold[s] : out' = Append(out, f)
    /\ Goes(s, "idle", {})
    /\ UNCHANGED <<crit, wake, quit, count, pumpVars, lost>>

Unblock(s) ==
    /\ pc[s] = "block"
    /\ \E f \in hold[s] :
          \/ Room /\ out' = Append(out, f) /\ UNCHANGED lost
          \/ quit # "no" /\ lost' = lost \union {f} /\ UNCHANGED out
    /\ Goes(s, "idle", {})
    /\ UNCHANGED <<crit, wake, quit, count, pumpVars>>

\* Fault: a full overflow drops the frame and keeps the session.
ParkOrDrop(s, f) ==
    IF Len(crit) < CritCap
    THEN /\ crit' = Append(crit, f)
         /\ Goes(s, "wake", {})
         /\ UNCHANGED <<quit, lost>>
    ELSE /\ lost' = lost \union {f}
         /\ Goes(s, "idle", {})
         /\ UNCHANGED <<crit, quit>>

\* A frame goes to the overflow, or the session is given up (critMu held).
Park(s, f) ==
    IF Len(crit) < CritCap
    THEN /\ crit' = Append(crit, f)
         /\ Goes(s, "wake", {})
         /\ UNCHANGED <<quit, lost>>
    ELSE /\ quit' = Closed("overflow")
         /\ lost' = lost \union {f}
         /\ Goes(s, "idle", {})
         /\ UNCHANGED crit

\* Fault: every frame tries the fast path.
NeverBehind == FALSE

\* sendEvReliable: behind an overflow in progress, or on to the fast path.
OverflowActive == crit # <<>>

SendReliable(s) ==
    /\ Begin(s)
    /\ LET f == Fresh(s, "life")
       IN IF OverflowActive
          THEN Park(s, f)
          ELSE Goes(s, "probe", {f}) /\ UNCHANGED <<crit, quit, lost>>
    /\ UNCHANGED <<out, wake, pumpVars>>

\* The fast path: the normal queue, unless it is full.
Probe(s) ==
    /\ pc[s] = "probe"
    /\ IF Room
       THEN /\ \E f \in hold[s] : out' = Append(out, f)
            /\ Goes(s, "idle", {})
       ELSE /\ Goes(s, "park", hold[s])
            /\ UNCHANGED out
    /\ UNCHANGED <<crit, wake, quit, count, pumpVars, lost>>

\* out was full: begin the overflow.
Overflow(s) ==
    /\ pc[s] = "park"
    /\ \E f \in hold[s] : Park(s, f)
    /\ UNCHANGED <<out, wake, count, pumpVars>>

\* wakeCrit.
WakeCrit(s) ==
    /\ pc[s] = "wake"
    /\ wake' = TRUE
    /\ Goes(s, "idle", {})
    /\ UNCHANGED <<out, crit, quit, count, pumpVars, lost>>

\* onKick, idleKick: the reason for the client's screen, then the end.
Kick(s) ==
    /\ s \in Hub
    /\ Begin(s)
    /\ Offer(s, Fresh(s, "bye"))
    /\ Goes(s, "kick", {})
    /\ UNCHANGED <<crit, wake, quit, pumpVars>>

KickCloses(s) ==
    /\ pc[s] = "kick"
    /\ quit' = Closed("kick")
    /\ Goes(s, "idle", {})
    /\ UNCHANGED <<out, crit, wake, count, pumpVars, lost>>

\* remotePlayer.Leave: the gateway closed the session.
Leave ==
    /\ quit = "no"
    /\ quit' = "left"
    /\ UNCHANGED <<out, crit, wake, sendVars, pumpVars, lost>>

-----------------------------------------------------------------------------
(* The pump.                                                               *)

Write(queue) == emitted' = emitted \union {Head(queue)}

\* Fault: the overflow is left to the wake-ups.
PollOnly ==
    /\ pump = "poll"
    /\ IF out # <<>>
       THEN Write(out) /\ out' = Tail(out) /\ UNCHANGED pump
       ELSE pump' = "wait" /\ UNCHANGED <<out, emitted>>
    /\ UNCHANGED <<crit, wake, quit, sendVars, batch, late, lost>>

\* Fault: the overflow is looked at while out has frames.
PollOnce ==
    /\ pump = "poll"
    /\ IF out # <<>> THEN Write(out) /\ out' = Tail(out) ELSE UNCHANGED <<out, emitted>>
    /\ pump' = "take"
    /\ UNCHANGED <<crit, wake, quit, sendVars, batch, late, lost>>

\* out has priority: write until it is empty, then look at the overflow.
Poll ==
    /\ pump = "poll"
    /\ IF out # <<>>
       THEN Write(out) /\ out' = Tail(out) /\ UNCHANGED pump
       ELSE pump' = "take" /\ UNCHANGED <<out, emitted>>
    /\ UNCHANGED <<crit, wake, quit, sendVars, batch, late, lost>>

\* takeCrit.
Take ==
    /\ pump = "take"
    /\ batch' = crit
    /\ crit' = <<>>
    /\ pump' = "emit"
    /\ late' = Range(out)
    /\ UNCHANGED <<out, wake, quit, sendVars, emitted, lost>>

\* Fault: the wake-up is taken for one of the frames just written.
DrainAndReset ==
    /\ pump = "emit"
    /\ IF batch # <<>>
       THEN Write(batch) /\ batch' = Tail(batch) /\ UNCHANGED <<pump, wake>>
       ELSE pump' = "wait" /\ wake' = FALSE /\ UNCHANGED <<batch, emitted>>
    /\ UNCHANGED <<out, crit, quit, sendVars, late, lost>>

\* drainCrit writes what it took, frame by frame.
Drain ==
    /\ pump = "emit"
    /\ IF batch # <<>>
       THEN Write(batch) /\ batch' = Tail(batch) /\ UNCHANGED pump
       ELSE pump' = "wait" /\ UNCHANGED <<batch, emitted>>
    /\ UNCHANGED <<out, crit, wake, quit, sendVars, late, lost>>

\* The blocking select: Go picks any case that is ready.
WaitOut ==
    /\ pump = "wait"
    /\ out # <<>>
    /\ Write(out)
    /\ out' = Tail(out)
    /\ pump' = "poll"
    /\ UNCHANGED <<crit, wake, quit, sendVars, batch, late, lost>>

WaitWake ==
    /\ pump = "wait"
    /\ wake
    /\ wake' = FALSE
    /\ pump' = "poll"
    /\ UNCHANGED <<out, crit, quit, sendVars, batch, emitted, late, lost>>

WaitQuit ==
    /\ pump = "wait"
    /\ quit # "no"
    /\ pump' = "stopped"
    /\ UNCHANGED <<out, crit, wake, quit, sendVars, batch, emitted, late, lost>>

-----------------------------------------------------------------------------
Pump == Poll \/ Take \/ Drain \/ WaitOut \/ WaitWake \/ WaitQuit

\* What a sender does once it has begun.
GoesOn(s) == Unblock(s) \/ Probe(s) \/ Overflow(s) \/ WakeCrit(s) \/ KickCloses(s)

Next ==
    \/ \E s \in Senders : TrySend(s) \/ SendBlocking(s) \/ SendReliable(s) \/ Kick(s)
    \/ \E s \in Senders : GoesOn(s)
    \/ Leave
    \/ Pump

Spec == Init /\ [][Next]_vars

\* Goroutines that can run do: the pump, and a sender inside a call.
Fairness == WF_vars(Pump) /\ \A s \in Senders : WF_vars(GoesOn(s))
FairSpec == Spec /\ Fairness

-----------------------------------------------------------------------------
(* Properties.                                                             *)

\* Type invariant: no queue outgrows its bound, a sender that is busy with a
\* frame holds it, and the pump holds a batch only while it writes it.
TypeOK ==
    /\ out \in Seq(Frames) /\ Len(out) <= OutCap
    /\ crit \in Seq(Frames) /\ Len(crit) <= CritCap
    /\ batch \in Seq(Frames) /\ (pump # "emit" => batch = <<>>)
    /\ wake \in BOOLEAN
    /\ quit \in {"no", "left", "overflow", "kick"}
    /\ pump \in {"poll", "take", "emit", "wait", "stopped"}
    /\ pc \in [Senders -> {"idle", "probe", "park", "wake", "block", "kick"}]
    /\ hold \in [Senders -> SUBSET Frames]
    /\ \A s \in Senders : hold[s] # {} <=> pc[s] \in {"probe", "park", "block"}
    /\ count \in [Senders -> Nat] /\ \A s \in Senders : count[s] <= MaxFrames[s]
    /\ emitted \subseteq Frames /\ lost \subseteq Frames /\ late \subseteq Frames

Queued == Range(out) \union Range(crit) \union Range(batch)
Held   == UNION {hold[s] : s \in Senders}

\* The guaranteed delivery of sendEvReliable, as safety: whatever the pump and
\* the other senders do in the middle of a call, a frame is in one queue, once,
\* and not yet written, or written, or still in its sender's hands; and a
\* life-cycle frame is refused only by a session that is being closed.
Guaranteed ==
    /\ IsInjective(out) /\ IsInjective(crit) /\ IsInjective(batch)
    /\ Range(out) \intersect Range(crit) = {}
    /\ Range(batch) \intersect (Range(out) \union Range(crit)) = {}
    /\ Queued \intersect emitted = {}
    /\ Held \intersect (Queued \union emitted) = {}
    /\ \A s \in Senders : \A n \in 1..count[s] :
            \E f \in Queued \union Held \union emitted \union lost : f.by = s /\ f.n = n
    /\ \A f \in lost : f.kind = "life" => quit # "no"

\* g is a life-cycle frame its sender sent after f.
After(g, f) == g.by = f.by /\ g.kind = "life" /\ g.n > f.n

\* What out holds when the pump takes the overflow: the pump found it empty
\* before (the feed's Look), so these frames came in between.
Late == IF pump = "take" THEN Range(out) ELSE late

\* No life-cycle frame gets ahead of an earlier frame of its sender, neither
\* through out, past a frame that waits in the overflow or in the pump's hands,
\* nor through the overflow, past a frame that waits in out.  The exception is
\* Late: the pump has found out empty, out fills, the overflow begins behind
\* it, and the pump takes the overflow first (decodeLoop).
NoJump ==
    /\ \A f \in Range(crit) \union Range(batch) \union (Range(out) \ Late) :
            \A g \in emitted : ~After(g, f)
    /\ \A f \in Range(crit) : \A g \in Range(out) \union Range(batch) : ~After(g, f)

\* A pump that sleeps on an overflow has a wake-up waiting or on its way,
\* though the frame is parked and the pump is woken in two steps.
NoLostWake ==
    pump = "wait" /\ crit # <<>> => wake \/ \E s \in Senders : pc[s] = "wake"

\* A life-cycle frame that was sent reaches the gateway, unless the session is
\* closed.  (The bound on the frames stands for a pause of the senders: out
\* has priority, so senders that never pause can keep the overflow waiting.)
Delivered ==
    \A s \in Senders : \A n \in 1..MaxFrames[s] :
        LET f == [by |-> s, n |-> n, kind |-> "life"]
        IN f \in Held \union Queued ~> f \in emitted \/ quit # "no"

\* No call of a sender hangs, the blocking one of the connection's handler on
\* a session whose pump has stopped included.
SendersReturn == \A s \in Senders : pc[s] # "idle" ~> pc[s] = "idle"

-----------------------------------------------------------------------------
(* The queue implements the feed its senders have: a frame waits while a   *)
(* queue has it, and is parked in the overflow and in the pump's hands.    *)
Sendable == UNION {[by : {s}, n : 1..MaxFrames[s], kind : Kinds] : s \in Senders}

Feed == INSTANCE EventFeed WITH
    Frames <- Sendable,
    open <- quit = "no",
    waiting <- Queued,
    parked <- Range(crit) \union Range(batch),
    turning <- pump = "take",
    late <- Late,
    delivered <- emitted,
    refused <- lost

\* Channel, overflow, wake-ups and pump together are a feed (EventFeed): no
\* frame is delivered twice or after it was refused, a life-cycle frame is
\* refused by a session that ends with it only, and no frame overtakes one of
\* its own sender but as the feed allows: a parked one past what came while the
\* client turned to it, a plain one past what is parked.
ImplementsFeed == Feed!Spec
=============================================================================
