------------------------- MODULE SessionQueueProofs -------------------------
(***************************************************************************)
(* The type invariant of the session queue, that the pump never sleeps on  *)
(* an overflow nobody will wake it for, and that the queue implements the  *)
(* feed: for any number of senders, any capacities and any number of       *)
(* frames.                                                                 *)
(***************************************************************************)
EXTENDS SessionQueue, TLAPS

-----------------------------------------------------------------------------
(* Sequences of frames.                                                    *)

LEMMA AppendType ==
  ASSUME NEW q \in Seq(Frames), NEW f \in Frames
  PROVE  Append(q, f) \in Seq(Frames) /\ Len(Append(q, f)) = Len(q) + 1
  OBVIOUS

LEMMA TailType ==
  ASSUME NEW q \in Seq(Frames), q # <<>>
  PROVE  /\ Head(q) \in Frames
         /\ Tail(q) \in Seq(Frames)
         /\ Len(Tail(q)) = Len(q) - 1
  OBVIOUS

LEMMA EmptyType == <<>> \in Seq(Frames) /\ Len(<<>>) = 0
  OBVIOUS

LEMMA FreshType ==
  ASSUME TypeOK, NEW s \in Senders, NEW kind \in Kinds
  PROVE  Fresh(s, kind) \in Frames
  BY DEF TypeOK, Fresh, Frames

-----------------------------------------------------------------------------
(* The parts of the type invariant a sender and the pump have in common.   *)

Queues == /\ out \in Seq(Frames) /\ Len(out) <= OutCap
          /\ crit \in Seq(Frames) /\ Len(crit) <= CritCap
          /\ batch \in Seq(Frames) /\ (pump # "emit" => batch = <<>>)
          /\ wake \in BOOLEAN
          /\ quit \in {"no", "left", "overflow", "kick"}
          /\ pump \in {"poll", "take", "emit", "wait", "stopped"}
          /\ emitted \subseteq Frames /\ lost \subseteq Frames /\ late \subseteq Frames

Callers == /\ pc \in [Senders -> {"idle", "probe", "park", "wake", "block", "kick"}]
           /\ hold \in [Senders -> SUBSET Frames]
           /\ \A s \in Senders : hold[s] # {} <=> pc[s] \in {"probe", "park", "block"}
           /\ count \in [Senders -> Nat] /\ \A s \in Senders : count[s] <= MaxFrames[s]

LEMMA TypeSplit == TypeOK <=> Queues /\ Callers
  BY DEF TypeOK, Queues, Callers

LEMMA BeginType ==
  ASSUME Callers, NEW s \in Senders, Begin(s)
  PROVE  count' \in [Senders -> Nat] /\ \A t \in Senders : count'[t] <= MaxFrames[t]
  BY SessionQueueAssumption DEF Callers, Begin, Senders

\* A sender goes on holding a frame exactly where it is busy with one.
LEMMA GoesType ==
  ASSUME Callers, NEW s \in Senders, NEW frames \in SUBSET Frames,
         NEW where \in {"idle", "probe", "park", "wake", "block", "kick"},
         frames # {} <=> where \in {"probe", "park", "block"},
         Goes(s, where, frames),
         count' \in [Senders -> Nat] /\ \A t \in Senders : count'[t] <= MaxFrames[t]
  PROVE  Callers'
  BY DEF Callers, Goes

LEMMA OfferType ==
  ASSUME Queues, NEW f \in Frames, NEW s, Offer(s, f),
         UNCHANGED <<crit, wake, quit, pumpVars>>
  PROVE  Queues'
<1>1. CASE Room
  <2>1. out' = Append(out, f) /\ lost' = lost
    BY <1>1 DEF Offer
  <2>2. out' \in Seq(Frames) /\ Len(out') <= OutCap
    BY <1>1, <2>1, AppendType, SessionQueueAssumption DEF Queues, Room
  <2> QED BY <2>1, <2>2 DEF Queues, pumpVars
<1>2. CASE ~Room
  BY <1>2 DEF Queues, Offer, pumpVars
<1> QED BY <1>1, <1>2

LEMMA ParkType ==
  ASSUME Queues, Callers, NEW s \in Senders, NEW f \in Frames, Park(s, f),
         count' \in [Senders -> Nat] /\ \A t \in Senders : count'[t] <= MaxFrames[t],
         UNCHANGED <<out, wake, pumpVars>>
  PROVE  Queues' /\ Callers'
<1>1. CASE Len(crit) < CritCap
  <2>1. Goes(s, "wake", {})
    BY <1>1 DEF Park
  <2>2. Callers'
    BY <2>1, GoesType
  <2>3. crit' = Append(crit, f) /\ UNCHANGED <<quit, lost>>
    BY <1>1 DEF Park
  <2>4. crit' \in Seq(Frames) /\ Len(crit') <= CritCap
    BY <1>1, <2>3, AppendType, SessionQueueAssumption DEF Queues
  <2>5. Queues'
    BY <2>3, <2>4 DEF Queues, pumpVars
  <2> QED BY <2>2, <2>5
<1>2. CASE ~(Len(crit) < CritCap)
  <2>1. Goes(s, "idle", {})
    BY <1>2 DEF Park
  <2>2. Callers'
    BY <2>1, GoesType
  <2>3. Queues'
    BY <1>2 DEF Queues, Park, Closed, pumpVars
  <2> QED BY <2>2, <2>3
<1> QED BY <1>1, <1>2

LEMMA TypeInit == Init => TypeOK
<1> SUFFICES ASSUME Init PROVE TypeOK
  OBVIOUS
<1>1. Queues
  <2>1. 0 <= OutCap /\ 0 <= CritCap
    BY SessionQueueAssumption
  <2>2. out = <<>> /\ crit = <<>> /\ batch = <<>> /\ emitted = {} /\ lost = {} /\ late = {}
    BY DEF Init
  <2> QED BY <2>1, <2>2, EmptyType DEF Init, Queues
<1>2. Callers
  BY SessionQueueAssumption DEF Init, Callers, Senders
<1> QED BY <1>1, <1>2, TypeSplit

LEMMA TypeStep == TypeOK /\ [Next]_vars => TypeOK'
<1> SUFFICES ASSUME Queues, Callers, [Next]_vars PROVE Queues' /\ Callers'
  BY TypeSplit DEF TypeOK, Queues, Callers
<1>a. TypeOK
  BY TypeSplit
<1>b. UNCHANGED sendVars => Callers'
  BY DEF Callers, sendVars
<1>1. ASSUME NEW s \in Senders, TrySend(s) PROVE Queues' /\ Callers'
  <2>1. Fresh(s, "plain") \in Frames
    BY <1>a, FreshType DEF Kinds
  <2>2. Queues'
    BY <1>1, <2>1, OfferType DEF TrySend
  <2>3. Callers'
    BY <1>1, BeginType DEF TrySend, Callers
  <2> QED BY <2>2, <2>3
<1>2. ASSUME NEW s \in Senders, SendBlocking(s) PROVE Queues' /\ Callers'
  <2>1. Fresh(s, "plain") \in Frames
    BY <1>a, FreshType DEF Kinds
  <2>2. Goes(s, "block", {Fresh(s, "plain")}) /\ Begin(s)
    BY <1>2 DEF SendBlocking
  <2>3. Callers'
    BY <2>1, <2>2, BeginType, GoesType
  <2> QED BY <1>2, <2>3 DEF SendBlocking, Queues, pumpVars
<1>3. ASSUME NEW s \in Senders, SendReliable(s) PROVE Queues' /\ Callers'
  <2> DEFINE f == Fresh(s, "life")
  <2>1. f \in Frames
    BY <1>a, FreshType DEF Kinds
  <2>2. Begin(s) /\ UNCHANGED <<out, wake, pumpVars>>
    BY <1>3 DEF SendReliable
  <2>3. count' \in [Senders -> Nat] /\ \A t \in Senders : count'[t] <= MaxFrames[t]
    BY <2>2, BeginType
  <2> HIDE DEF f
  <2>4. CASE Park(s, f)
    BY <2>1, <2>2, <2>3, <2>4, ParkType
  <2>5. CASE Goes(s, "probe", {f}) /\ UNCHANGED <<crit, quit, lost>>
    <3>1. Callers'
      BY <2>1, <2>3, <2>5, GoesType
    <3> QED BY <2>2, <2>5, <3>1 DEF Queues, pumpVars
  <2> QED BY <1>3, <2>4, <2>5 DEF SendReliable, f
<1>4. ASSUME NEW s \in Senders, Kick(s) PROVE Queues' /\ Callers'
  <2>1. Fresh(s, "bye") \in Frames
    BY <1>a, FreshType DEF Kinds
  <2>2. Queues'
    BY <1>4, <2>1, OfferType DEF Kick
  <2>3. Begin(s) /\ Goes(s, "kick", {})
    BY <1>4 DEF Kick
  <2>4. Callers'
    BY <2>3, BeginType, GoesType
  <2> QED BY <2>2, <2>4
<1>5. ASSUME NEW s \in Senders, GoesOn(s) PROVE Queues' /\ Callers'
  <2>a. \A f \in hold[s] : f \in Frames
    BY DEF Callers
  <2>b. UNCHANGED count => count' \in [Senders -> Nat] /\ \A t \in Senders : count'[t] <= MaxFrames[t]
    BY DEF Callers
  <2>1. CASE Unblock(s)
    <3>1. Callers'
      BY <2>1, <2>b, GoesType DEF Unblock
    <3>2. PICK f \in hold[s] :
            \/ Room /\ out' = Append(out, f) /\ UNCHANGED lost
            \/ quit # "no" /\ lost' = lost \union {f} /\ UNCHANGED out
      BY <2>1 DEF Unblock
    <3>3. out' \in Seq(Frames) /\ Len(out') <= OutCap /\ lost' \subseteq Frames
      <4>1. f \in Frames /\ out \in Seq(Frames) /\ Len(out) <= OutCap /\ lost \subseteq Frames
        BY <2>a DEF Queues
      <4>2. CASE Room /\ out' = Append(out, f) /\ UNCHANGED lost
        BY <4>1, <4>2, AppendType, SessionQueueAssumption DEF Room
      <4>3. CASE lost' = lost \union {f} /\ UNCHANGED out
        BY <4>1, <4>3
      <4> QED BY <3>2, <4>2, <4>3
    <3> QED BY <2>1, <3>1, <3>3 DEF Unblock, Queues, pumpVars
  <2>2. CASE Probe(s)
    <3>1. CASE Room
      <4>1. PICK f \in hold[s] : out' = Append(out, f)
        BY <2>2, <3>1 DEF Probe
      <4>2. out' \in Seq(Frames) /\ Len(out') <= OutCap
        <5>1. f \in Frames /\ out \in Seq(Frames) /\ Len(out) < OutCap
          BY <2>a, <3>1, <4>1 DEF Queues, Room
        <5> QED BY <4>1, <5>1, AppendType, SessionQueueAssumption
      <4>3. Callers'
        BY <2>2, <2>b, <3>1, GoesType DEF Probe
      <4> QED BY <2>2, <4>2, <4>3 DEF Probe, Queues, pumpVars
    <3>2. CASE ~Room
      <4>1. hold[s] \in SUBSET Frames /\ hold[s] # {}
        BY <2>2 DEF Callers, Probe
      <4>2. Callers'
        BY <2>2, <2>b, <3>2, <4>1, GoesType DEF Probe
      <4> QED BY <2>2, <3>2, <4>2 DEF Probe, Queues, pumpVars
    <3> QED BY <3>1, <3>2
  <2>3. CASE Overflow(s)
    BY <2>3, <2>a, <2>b, ParkType DEF Overflow
  <2>4. CASE WakeCrit(s)
    <3>1. Callers'
      BY <2>4, <2>b, GoesType DEF WakeCrit
    <3> QED BY <2>4, <3>1 DEF WakeCrit, Queues, pumpVars
  <2>5. CASE KickCloses(s)
    <3>1. Callers'
      BY <2>5, <2>b, GoesType DEF KickCloses
    <3> QED BY <2>5, <3>1 DEF KickCloses, Closed, Queues, pumpVars
  <2> QED BY <1>5, <2>1, <2>2, <2>3, <2>4, <2>5 DEF GoesOn
<1>6. CASE Leave
  BY <1>6, <1>b DEF Leave, Queues, pumpVars
<1>7. CASE Pump
  <2>1. CASE Poll \/ WaitOut
    <3>1. CASE out # <<>>
      <4>1. emitted' = emitted \union {Head(out)} /\ out' = Tail(out)
        BY <2>1, <3>1 DEF Poll, WaitOut, Write
      <4>2. /\ out' \in Seq(Frames) /\ Len(out') <= OutCap
            /\ emitted' \subseteq Frames
        BY <3>1, <4>1, TailType, SessionQueueAssumption DEF Queues
      <4> QED BY <1>b, <2>1, <4>2 DEF Poll, WaitOut, Queues
    <3>2. CASE out = <<>>
      BY <1>b, <2>1, <3>2 DEF Poll, WaitOut, Queues
    <3> QED BY <3>1, <3>2
  <2>2. CASE Take
    <3>1. late' \subseteq Frames
      BY <2>2 DEF Take, Queues, Range
    <3> QED BY <1>b, <2>2, <3>1, EmptyType, SessionQueueAssumption DEF Take, Queues
  <2>3. CASE Drain
    <3>1. CASE batch # <<>>
      <4>1. emitted' = emitted \union {Head(batch)} /\ batch' = Tail(batch)
        BY <2>3, <3>1 DEF Drain, Write
      <4>2. batch' \in Seq(Frames) /\ emitted' \subseteq Frames
        BY <3>1, <4>1, TailType DEF Queues
      <4> QED BY <1>b, <2>3, <3>1, <4>2 DEF Drain, Queues
    <3>2. CASE batch = <<>>
      BY <1>b, <2>3, <3>2 DEF Drain, Queues
    <3> QED BY <3>1, <3>2
  <2>4. CASE WaitWake \/ WaitQuit
    BY <1>b, <2>4 DEF WaitWake, WaitQuit, Queues
  <2> QED BY <1>7, <2>1, <2>2, <2>3, <2>4 DEF Pump
<1>8. CASE UNCHANGED vars
  BY <1>b, <1>8 DEF vars, pumpVars, Queues
<1> QED BY <1>1, <1>2, <1>3, <1>4, <1>5, <1>6, <1>7, <1>8 DEF Next

\* The queues keep to their bounds and every sender to its call.
THEOREM QueueTypeCorrect == Spec => []TypeOK
  BY TypeInit, TypeStep, PTL DEF Spec

-----------------------------------------------------------------------------
(* The wake-up.                                                            *)

\* From the moment the pump has taken the overflow until it looks at out
\* again, whatever is parked has a wake-up waiting or on its way.
Awake ==
    pump \in {"emit", "wait"} /\ crit # <<>> => wake \/ \E s \in Senders : pc[s] = "wake"

LEMMA ParkWakes ==
  ASSUME TypeOK, Awake, NEW s \in Senders, pc[s] # "wake", NEW f, Park(s, f),
         UNCHANGED <<wake, pump>>
  PROVE  Awake'
<1>0. \A t \in Senders \ {s} : pc'[t] = pc[t]
  BY DEF TypeOK, Park, Goes
<1>1. CASE Len(crit) < CritCap
  <2>1. pc'[s] = "wake"
    BY <1>1 DEF TypeOK, Park, Goes
  <2> QED BY <2>1 DEF Awake
<1>2. CASE ~(Len(crit) < CritCap)
  <2>1. crit' = crit
    BY <1>2 DEF Park
  <2> QED BY <1>0, <2>1 DEF Awake
<1> QED BY <1>1, <1>2

\* A sender that parks nothing and owes no wake-up.
LEMMA OthersWake ==
  ASSUME TypeOK, Awake, NEW s \in Senders, pc[s] # "wake",
         \A t \in Senders \ {s} : pc'[t] = pc[t], UNCHANGED <<wake, pump, crit>>
  PROVE  Awake'
  BY DEF Awake

LEMMA WakeStep == TypeOK /\ Awake /\ [Next]_vars => Awake'
<1> SUFFICES ASSUME TypeOK, Awake, [Next]_vars PROVE Awake'
  OBVIOUS
<1>1. ASSUME NEW s \in Senders, TrySend(s) \/ SendBlocking(s) \/ Kick(s) PROVE Awake'
  <2>1. pc[s] # "wake" /\ UNCHANGED <<wake, pump, crit>>
    BY <1>1 DEF TrySend, SendBlocking, Kick, Begin, pumpVars
  <2>2. \A t \in Senders \ {s} : pc'[t] = pc[t]
    BY <1>1 DEF TypeOK, TrySend, SendBlocking, Kick, Goes
  <2> QED BY <2>1, <2>2, OthersWake
<1>2. ASSUME NEW s \in Senders, SendReliable(s) PROVE Awake'
  <2>1. pc[s] # "wake" /\ UNCHANGED <<wake, pump>>
    BY <1>2 DEF SendReliable, Begin, pumpVars
  <2>2. CASE Park(s, Fresh(s, "life"))
    BY <2>1, <2>2, ParkWakes
  <2>3. CASE Goes(s, "probe", {Fresh(s, "life")}) /\ UNCHANGED crit
    <3>1. \A t \in Senders \ {s} : pc'[t] = pc[t]
      BY <2>3 DEF TypeOK, Goes
    <3> QED BY <2>1, <2>3, <3>1, OthersWake
  <2> QED BY <1>2, <2>2, <2>3 DEF SendReliable
<1>3. ASSUME NEW s \in Senders, Unblock(s) \/ Probe(s) \/ KickCloses(s) PROVE Awake'
  <2>1. pc[s] # "wake" /\ UNCHANGED <<wake, pump, crit>>
    BY <1>3 DEF Unblock, Probe, KickCloses, pumpVars
  <2>2. \A t \in Senders \ {s} : pc'[t] = pc[t]
    BY <1>3 DEF TypeOK, Unblock, Probe, KickCloses, Goes
  <2> QED BY <2>1, <2>2, OthersWake
<1>4. ASSUME NEW s \in Senders, Overflow(s) PROVE Awake'
  BY <1>4, ParkWakes DEF Overflow, pumpVars
<1>5. ASSUME NEW s \in Senders, WakeCrit(s) PROVE Awake'
  BY <1>5 DEF WakeCrit, Awake
<1>6. CASE Leave
  BY <1>6 DEF Leave, Awake, sendVars, pumpVars
<1>7. CASE Pump
  <2>1. CASE Poll \/ WaitOut \/ WaitWake \/ WaitQuit
    BY <2>1 DEF Poll, WaitOut, WaitWake, WaitQuit, Awake
  <2>2. CASE Take
    BY <2>2 DEF Take, Awake
  <2>3. CASE Drain
    BY <2>3 DEF Drain, Awake, sendVars
  <2> QED BY <1>7, <2>1, <2>2, <2>3 DEF Pump
<1>8. CASE UNCHANGED vars
  BY <1>8 DEF vars, sendVars, pumpVars, Awake
<1> QED BY <1>1, <1>2, <1>3, <1>4, <1>5, <1>6, <1>7, <1>8 DEF Next, GoesOn

\* The pump never sleeps on an overflow without a wake-up to come, however
\* parking, waking, draining and sleeping interleave.
THEOREM NeverSleepsOnOverflow == Spec => []NoLostWake
<1>1. Init => Awake
  BY DEF Init, Awake
<1>2. Awake => NoLostWake
  BY DEF Awake, NoLostWake
<1> QED BY <1>1, <1>2, TypeInit, TypeStep, WakeStep, PTL DEF Spec

-----------------------------------------------------------------------------
(***************************************************************************)
(* The session queue implements the feed (EventFeed), and with it the      *)
(* guaranteed delivery and the order of the overflow: for any number of    *)
(* senders, any capacities and any number of frames.                       *)
(*                                                                         *)
(* The argument: a sender's frames are numbered in the order it sends them *)
(* and the one it holds is its last (Numbered, Hands), so what it puts in  *)
(* a queue is newer than anything of its own there; each queue is sorted   *)
(* by sender, the pump's batch is older than the overflow, and older than  *)
(* what came to the channel since the batch was taken (out without Late),  *)
(* and a life-cycle frame in the channel is older than any its sender has  *)
(* in the overflow (Ordered).  What the pump then takes is the oldest of   *)
(* its lane, and what it passes over is late.                              *)
(***************************************************************************)

-----------------------------------------------------------------------------
(* The inductive invariant.                                                *)

\* What has left its sender's hands.
Out == Queued \union emitted \union lost

Numbered ==
    \A g \in Out : /\ g.n <= count[g.by]
                   /\ hold[g.by] # {} => g.n < count[g.by]

Hands ==
    \A s \in Senders : hold[s] # {} =>
        hold[s] = {[by |-> s, n |-> count[s],
                    kind |-> IF pc[s] = "block" THEN "plain" ELSE "life"]}

Apart ==
    /\ Range(out) \intersect Range(crit) = {}
    /\ Range(batch) \intersect (Range(out) \union Range(crit)) = {}
    /\ Queued \intersect emitted = {}

Older(f, g) == f.by = g.by => f.n < g.n

Sorted(q) == \A i, j \in 1..Len(q) : i < j => Older(q[i], q[j])

Ordered ==
    /\ Sorted(out) /\ Sorted(crit) /\ Sorted(batch)
    /\ \A f \in Range(batch), g \in Range(crit) : Older(f, g)
    /\ \A f \in Range(out), g \in Range(crit) : f.kind = "life" => Older(f, g)
    /\ \A f \in Range(batch), g \in Range(out) \ Late : Older(f, g)
    /\ \A f \in Range(crit) \union Range(batch) \union (Range(out) \ Late), g \in emitted :
            ~After(g, f)

Overflown ==
    /\ \A f \in Range(crit) \union Range(batch) : f.kind = "life"
    /\ \A f \in Range(crit) : pc[f.by] # "probe"

Complete ==
    \A s \in Senders : \A n \in 1..count[s] :
        \E f \in Out \union Held : f.by = s /\ f.n = n

Excused == \A f \in lost : f.kind = "life" => quit # "no"

FeedInv ==
    /\ TypeOK /\ Numbered /\ Hands /\ Apart
    /\ Ordered /\ Overflown /\ Complete /\ Excused

-----------------------------------------------------------------------------
(* Sequences.                                                              *)

LEMMA RangeAppend ==
  ASSUME NEW q \in Seq(Frames), NEW f \in Frames
  PROVE  Range(Append(q, f)) = Range(q) \union {f}
<1>1. DOMAIN Append(q, f) = 1..(Len(q) + 1) /\ DOMAIN q = 1..Len(q) /\ Len(q) \in Nat
  OBVIOUS
<1>2. \A i \in 1..Len(q) : Append(q, f)[i] = q[i]
  OBVIOUS
<1>3. Append(q, f)[Len(q) + 1] = f
  OBVIOUS
<1> QED BY <1>1, <1>2, <1>3 DEF Range

LEMMA RangeType ==
  ASSUME NEW q \in Seq(Frames)
  PROVE  Range(q) \subseteq Frames
  BY DEF Range

LEMMA CritSenders ==
  ASSUME TypeOK
  PROVE  \A g \in Range(crit) : g.by \in Senders
<1>1. crit \in Seq(Frames)
  BY DEF TypeOK
<1>2. Range(crit) \subseteq Frames
  BY <1>1, RangeType
<1> QED BY <1>2 DEF Frames

LEMMA RangeEmpty == Range(<<>>) = {}
  BY DEF Range

LEMMA RangeTail ==
  ASSUME NEW q \in Seq(Frames), q # <<>>, Sorted(q)
  PROVE  /\ Head(q) \in Frames
         /\ Range(q) = Range(Tail(q)) \union {Head(q)}
         /\ Head(q) \notin Range(Tail(q))
         /\ \A g \in Range(Tail(q)) : Older(Head(q), g)
<1>1. /\ Len(q) \in Nat /\ Len(q) >= 1 /\ DOMAIN q = 1..Len(q)
      /\ Tail(q) \in Seq(Frames) /\ Len(Tail(q)) = Len(q) - 1
      /\ DOMAIN Tail(q) = 1..(Len(q) - 1) /\ Head(q) = q[1] /\ Head(q) \in Frames
  OBVIOUS
<1>2. \A i \in 1..(Len(q) - 1) : Tail(q)[i] = q[i + 1]
  OBVIOUS
<1>3. \A g \in Range(Tail(q)) : \E i \in 2..Len(q) : g = q[i]
  BY <1>1, <1>2 DEF Range
<1>4. \A i \in 2..Len(q) : q[i] \in Range(Tail(q))
  <2> SUFFICES ASSUME NEW i \in 2..Len(q) PROVE q[i] \in Range(Tail(q))
    OBVIOUS
  <2>1. i - 1 \in DOMAIN Tail(q) /\ Tail(q)[i - 1] = q[i]
    BY <1>1, <1>2
  <2> QED BY <2>1 DEF Range
<1>5. \A g \in Range(Tail(q)) : Older(Head(q), g)
  BY <1>1, <1>3 DEF Sorted
<1>6. Head(q) \notin Range(Tail(q))
  BY <1>1, <1>5 DEF Older, Frames
<1>7. Range(q) = Range(Tail(q)) \union {Head(q)}
  <2>1. ASSUME NEW g \in Range(q) PROVE g \in Range(Tail(q)) \union {Head(q)}
    <3>1. PICK i \in 1..Len(q) : g = q[i]
      BY <1>1, <2>1 DEF Range
    <3> QED BY <1>1, <1>4, <3>1
  <2>2. ASSUME NEW g \in Range(Tail(q)) PROVE g \in Range(q)
    BY <1>1, <1>3, <2>2 DEF Range
  <2>3. Head(q) \in Range(q)
    BY <1>1 DEF Range
  <2> QED BY <2>1, <2>2, <2>3
<1> QED BY <1>1, <1>5, <1>6, <1>7

LEMMA SortedAppend ==
  ASSUME NEW q \in Seq(Frames), NEW f \in Frames, Sorted(q),
         \A g \in Range(q) : Older(g, f)
  PROVE  Sorted(Append(q, f))
<1>1. /\ Len(Append(q, f)) = Len(q) + 1 /\ Len(q) \in Nat /\ DOMAIN q = 1..Len(q)
      /\ \A i \in 1..Len(q) : Append(q, f)[i] = q[i]
      /\ Append(q, f)[Len(q) + 1] = f
  OBVIOUS
<1> SUFFICES ASSUME NEW i \in 1..(Len(q) + 1), NEW j \in 1..(Len(q) + 1), i < j
             PROVE  Older(Append(q, f)[i], Append(q, f)[j])
  BY <1>1 DEF Sorted
<1>2. i \in 1..Len(q) /\ Append(q, f)[i] = q[i]
  BY <1>1
<1>3. CASE j = Len(q) + 1
  BY <1>1, <1>2, <1>3 DEF Range
<1>4. CASE j \in 1..Len(q)
  BY <1>1, <1>2, <1>4 DEF Sorted
<1> QED BY <1>1, <1>3, <1>4

LEMMA SortedTail ==
  ASSUME NEW q \in Seq(Frames), q # <<>>, Sorted(q)
  PROVE  Sorted(Tail(q))
<1>1. /\ Len(q) \in Nat /\ Len(q) >= 1 /\ Len(Tail(q)) = Len(q) - 1
      /\ \A i \in 1..(Len(q) - 1) : Tail(q)[i] = q[i + 1]
  OBVIOUS
<1> QED BY <1>1 DEF Sorted

LEMMA SortedEmpty == Sorted(<<>>)
  BY DEF Sorted

\* A sorted queue holds no frame twice.
LEMMA SortedInjective ==
  ASSUME NEW q \in Seq(Frames), Sorted(q)
  PROVE  IsInjective(q)
<1>1. DOMAIN q = 1..Len(q) /\ Len(q) \in Nat /\ \A i \in 1..Len(q) : q[i] \in Frames
  OBVIOUS
<1>2. ASSUME NEW i \in 1..Len(q), NEW j \in 1..Len(q), i < j PROVE q[i] # q[j]
  <2>1. Older(q[i], q[j]) /\ q[i] \in Frames
    BY <1>1, <1>2 DEF Sorted
  <2>2. q[i].n \in Nat
    BY <2>1 DEF Frames
  <2> QED BY <2>1, <2>2 DEF Older
<1> QED BY <1>1, <1>2 DEF IsInjective

-----------------------------------------------------------------------------
(* A sender's last frame.                                                  *)

LEMMA OutType ==
  ASSUME TypeOK
  PROVE  Out \subseteq Frames /\ Held \subseteq Frames
<1>1. Range(out) \subseteq Frames /\ Range(crit) \subseteq Frames /\ Range(batch) \subseteq Frames
  BY RangeType DEF TypeOK
<1>2. emitted \subseteq Frames /\ lost \subseteq Frames
  BY DEF TypeOK
<1>3. Held \subseteq Frames
  BY DEF TypeOK, Held
<1> QED BY <1>1, <1>2, <1>3 DEF Out, Queued

\* What a sender holds bears its name and its last number.
LEMMA HeldLast ==
  ASSUME TypeOK, Hands, NEW s \in Senders, NEW f \in hold[s]
  PROVE  /\ hold[s] = {f} /\ f.by = s /\ f.n = count[s]
         /\ f.kind = IF pc[s] = "block" THEN "plain" ELSE "life"
<1>1. hold[s] = {[by |-> s, n |-> count[s],
                  kind |-> IF pc[s] = "block" THEN "plain" ELSE "life"]}
  BY DEF Hands
<1>2. f = [by |-> s, n |-> count[s], kind |-> IF pc[s] = "block" THEN "plain" ELSE "life"]
  BY <1>1
<1> QED BY <1>1, <1>2

LEMMA HeldApart ==
  ASSUME FeedInv
  PROVE  Held \intersect Out = {}
<1> SUFFICES ASSUME NEW s \in Senders, NEW f \in hold[s], f \in Out PROVE FALSE
  BY DEF Held
<1>1. f.by = s /\ f.n = count[s] /\ hold[s] # {}
  BY HeldLast DEF FeedInv
<1>2. f.n < count[s]
  BY <1>1 DEF FeedInv, Numbered
<1>3. count[s] \in Nat
  BY DEF FeedInv, TypeOK
<1> QED BY <1>1, <1>2, <1>3

\* A frame leaves its sender's hands: one it held, or one it sends at once.
Leaving(s, f) ==
    /\ f.by = s /\ f.n = count'[s]
    /\ \/ hold[s] = {} /\ count' = [count EXCEPT ![s] = @ + 1]
       \/ hold[s] = {f} /\ count' = count
    /\ hold' = [hold EXCEPT ![s] = {}]

LEMMA LeavingNewest ==
  ASSUME FeedInv, NEW s \in Senders, NEW f \in Frames, Leaving(s, f)
  PROVE  /\ \A g \in Out : g.by = s => g.n < f.n
         /\ \A g \in Out : Older(g, f)
         /\ f \notin Out
<1>1. count \in [Senders -> Nat] /\ Out \subseteq Frames
  BY OutType DEF FeedInv, TypeOK
<1>2. ASSUME NEW g \in Out, g.by = s PROVE g.n < f.n
  <2>1. g.n <= count[s] /\ (hold[s] # {} => g.n < count[s]) /\ g.n \in Nat /\ count[s] \in Nat
    BY <1>1, <1>2 DEF FeedInv, Numbered, Frames
  <2>2. CASE hold[s] = {} /\ count' = [count EXCEPT ![s] = @ + 1]
    <3>1. f.n = count[s] + 1
      BY <1>1, <2>2 DEF Leaving
    <3> QED BY <2>1, <3>1
  <2>3. CASE hold[s] = {f} /\ count' = count
    BY <2>1, <2>3 DEF Leaving
  <2> QED BY <2>2, <2>3 DEF Leaving
<1>3. \A g \in Out : Older(g, f)
  BY <1>2 DEF Older, Leaving
<1>4. f \notin Out
  BY <1>2 DEF Leaving, Frames
<1> QED BY <1>2, <1>3, <1>4

LEMMA LeavingNotAfter ==
  ASSUME FeedInv, NEW s \in Senders, NEW f \in Frames, Leaving(s, f)
  PROVE  \A g \in emitted : ~After(g, f)
<1> SUFFICES ASSUME NEW g \in emitted, g.by = f.by, g.n > f.n PROVE FALSE
  BY DEF After
<1>1. g.n < f.n /\ g.n \in Nat /\ f.n \in Nat
  BY LeavingNewest, OutType DEF Out, Older, Frames, FeedInv
<1> QED BY <1>1

LEMMA LeavingHeld ==
  ASSUME FeedInv, NEW s \in Senders, NEW f \in Frames, Leaving(s, f)
  PROVE  /\ hold'[s] = {} /\ \A t \in Senders \ {s} : hold'[t] = hold[t]
         /\ \A t \in Senders \ {s} : count'[t] = count[t]
         /\ Held \subseteq Held' \union {f}
<1>1. hold \in [Senders -> SUBSET Frames] /\ count \in [Senders -> Nat]
  BY DEF FeedInv, TypeOK
<1>2. hold'[s] = {} /\ \A t \in Senders \ {s} : hold'[t] = hold[t]
  BY <1>1 DEF Leaving
<1>3. \A t \in Senders \ {s} : count'[t] = count[t]
  BY <1>1 DEF Leaving
<1>4. hold[s] = {} \/ hold[s] = {f}
  BY DEF Leaving
<1> QED BY <1>2, <1>3, <1>4 DEF Held

LEMMA LeavingInv ==
  ASSUME FeedInv, NEW s \in Senders, NEW f \in Frames, Leaving(s, f),
         Out' = Out \union {f}, \A t \in Senders \ {s} : pc'[t] = pc[t]
  PROVE  Numbered' /\ Hands' /\ Complete'
<1>1. /\ hold'[s] = {} /\ \A t \in Senders \ {s} : hold'[t] = hold[t]
      /\ \A t \in Senders \ {s} : count'[t] = count[t]
      /\ Held \subseteq Held' \union {f}
  BY LeavingHeld
<1>2. /\ count'[s] = f.n /\ f.by = s /\ f.n \in Nat
      /\ \A g \in Out : g.by \in Senders /\ g.n \in Nat
      /\ \A g \in Out : g.by = s => g.n < f.n
  BY LeavingNewest, OutType DEF FeedInv, Leaving, Frames
<1>3. Numbered'
  <2> SUFFICES ASSUME NEW g \in Out \union {f}
               PROVE  /\ g.n <= count'[g.by]
                      /\ hold'[g.by] # {} => g.n < count'[g.by]
    BY DEF Numbered
  <2>1. CASE g.by = s
    BY <1>1, <1>2, <2>1
  <2>2. CASE g.by # s
    <3>1. g \in Out /\ g.by \in Senders \ {s}
      BY <1>2, <2>2
    <3> QED BY <1>1, <3>1 DEF FeedInv, Numbered
  <2> QED BY <2>1, <2>2
<1>4. Hands'
  <2> SUFFICES ASSUME NEW t \in Senders, hold'[t] # {}
               PROVE  hold'[t] = {[by |-> t, n |-> count'[t],
                                   kind |-> IF pc'[t] = "block" THEN "plain" ELSE "life"]}
    BY DEF Hands
  <2> QED BY <1>1 DEF FeedInv, Hands
<1>5. Complete'
  <2> SUFFICES ASSUME NEW t \in Senders, NEW n \in 1..count'[t]
               PROVE  \E g \in Out \union {f} \union Held' : g.by = t /\ g.n = n
    BY DEF Complete
  <2>1. CASE t = s /\ n = f.n
    BY <1>2, <2>1
  <2>2. CASE n \in 1..count[t]
    <3>1. PICK g \in Out \union Held : g.by = t /\ g.n = n
      BY <2>2 DEF FeedInv, Complete
    <3> QED BY <1>1, <3>1
  <2>3. count[t] \in Nat /\ count'[t] \in Nat /\ (t # s => count'[t] = count[t])
    BY <1>1, <1>2 DEF FeedInv, TypeOK
  <2>4. t = s => count'[s] <= count[s] + 1
    BY <2>3 DEF FeedInv, TypeOK, Leaving
  <2> QED BY <1>2, <2>1, <2>2, <2>3, <2>4
<1> QED BY <1>3, <1>4, <1>5

-----------------------------------------------------------------------------
(* The feed's side of a step.                                              *)

Parked  == Range(crit) \union Range(batch)

LEMMA SendableType ==
  ASSUME NEW f \in Frames, f.n <= MaxFrames[f.by]
  PROVE  f \in Sendable
<1>1. /\ f = [by |-> f.by, n |-> f.n, kind |-> f.kind]
      /\ f.by \in Senders /\ f.n \in Nat \ {0} /\ f.kind \in Kinds
  BY DEF Frames
<1>2. MaxFrames[f.by] \in Nat
  BY <1>1, SessionQueueAssumption DEF Senders
<1>3. f.n \in 1..MaxFrames[f.by]
  BY <1>1, <1>2
<1>4. f \in [by : {f.by}, n : 1..MaxFrames[f.by], kind : Kinds]
  BY <1>1, <1>3
<1> QED BY <1>1, <1>4 DEF Sendable

LEMMA OutSendable ==
  ASSUME FeedInv, NEW f \in Out
  PROVE  f \in Sendable
<1>1. f \in Frames /\ f.by \in Senders /\ f.n \in Nat
  BY OutType DEF FeedInv, Frames
<1>2. f.n <= count[f.by] /\ count[f.by] \in Nat /\ count[f.by] <= MaxFrames[f.by]
  BY <1>1 DEF FeedInv, TypeOK, Numbered
<1>3. MaxFrames[f.by] \in Nat
  BY <1>1, SessionQueueAssumption DEF Senders
<1> QED BY <1>1, <1>2, <1>3, SendableType

\* A frame that leaves its sender's hands is sendable, and its sender's newest.
LEMMA LeavingFeed ==
  ASSUME FeedInv, TypeOK', NEW s \in Senders, NEW f \in Frames, Leaving(s, f)
  PROVE  f \in Sendable /\ Feed!Newest(f) /\ f \notin Out
<1>1. f.by = s /\ f.n <= MaxFrames[s]
  BY DEF TypeOK, Leaving
<1>2. f \in Sendable
  BY <1>1, SendableType
<1>3. /\ \A g \in Out : g.by = s => g.n < f.n
      /\ f \notin Out
  BY LeavingNewest
<1>4. Feed!Newest(f)
  BY <1>1, <1>3 DEF Feed!Newest, Feed!Earlier, Out
<1> QED BY <1>2, <1>3, <1>4

-----------------------------------------------------------------------------
(* The senders' steps.                                                     *)

\* A frame enters the channel.
LEMMA EnterOut ==
  ASSUME FeedInv, TypeOK', NEW s \in Senders, NEW f \in Frames, Leaving(s, f),
         out' = Append(out, f), UNCHANGED <<crit, quit, pumpVars, lost>>,
         f.kind = "life" => \A g \in Range(crit) : g.by # s,
         pc'[s] # "probe", \A t \in Senders \ {s} : pc'[t] = pc[t]
  PROVE  FeedInv' /\ [Feed!Next]_(Feed!vars)
<1>0. /\ out \in Seq(Frames) /\ crit \in Seq(Frames) /\ batch \in Seq(Frames)
      /\ \A g \in Range(crit) : g.by \in Senders
  BY CritSenders DEF FeedInv, TypeOK
<1>a. UNCHANGED <<crit, quit, pump, batch, emitted, late, lost>>
  BY DEF pumpVars
<1>1. Range(out') = Range(out) \union {f}
  BY <1>0, RangeAppend
<1>2. Queued' = Queued \union {f} /\ Out' = Out \union {f}
  BY <1>1, <1>a DEF Queued, Out
<1>3. Numbered' /\ Hands' /\ Complete'
  BY <1>2, LeavingInv
<1>4. f \notin Out /\ \A g \in Out : Older(g, f)
  BY LeavingNewest
<1>5. Apart'
  BY <1>1, <1>2, <1>4, <1>a DEF FeedInv, Apart, Out, Queued
<1>6. Ordered'
  <2>1. Sorted(out')
    BY <1>0, <1>4, SortedAppend DEF FeedInv, Ordered, Out, Queued
  <2>2. \A g \in Range(crit) : f.kind = "life" => Older(f, g)
    BY DEF Older, Leaving
  <2>3. Range(out') \ Late' \subseteq (Range(out) \ Late) \union {f}
    BY <1>1, <1>a DEF Late
  <2>4. \A g \in Range(batch) : Older(g, f)
    BY <1>4 DEF Out, Queued
  <2>5. \A g \in emitted : ~After(g, f)
    BY LeavingNotAfter
  <2>6. \A h \in Range(batch), g \in Range(out') \ Late' : Older(h, g)
    BY <2>3, <2>4 DEF FeedInv, Ordered
  <2>7. \A h \in Range(crit) \union Range(batch) \union (Range(out') \ Late'), g \in emitted :
            ~After(g, h)
    BY <2>3, <2>5 DEF FeedInv, Ordered
  <2> QED BY <1>1, <1>a, <2>1, <2>2, <2>6, <2>7 DEF FeedInv, Ordered
<1>7. Overflown' /\ Excused'
  BY <1>0, <1>a DEF FeedInv, Overflown, Excused
<1>8. [Feed!Next]_(Feed!vars)
  <2>1. Late' = IF pump = "take" THEN Late \union {f} ELSE Late
    BY <1>1, <1>a DEF Late
  <2>2. Parked' = Parked
    BY <1>a DEF Parked
  <2>3. Feed!Accept(f)
    BY <1>2, <1>a, <2>1, <2>2, LeavingFeed DEF Feed!Accept, Parked
  <2> QED BY <2>3, LeavingFeed DEF Feed!Next
<1> QED BY <1>3, <1>5, <1>6, <1>7, <1>8 DEF FeedInv

\* A frame goes to the overflow.
LEMMA EnterCrit ==
  ASSUME FeedInv, TypeOK', NEW s \in Senders, NEW f \in Frames, Leaving(s, f),
         crit' = Append(crit, f), UNCHANGED <<out, quit, pumpVars, lost>>,
         f.kind = "life",
         pc'[s] # "probe", \A t \in Senders \ {s} : pc'[t] = pc[t]
  PROVE  FeedInv' /\ [Feed!Next]_(Feed!vars)
<1>0. /\ out \in Seq(Frames) /\ crit \in Seq(Frames) /\ batch \in Seq(Frames)
      /\ \A g \in Range(crit) : g.by \in Senders
  BY CritSenders DEF FeedInv, TypeOK
<1>a. UNCHANGED <<out, quit, pump, batch, emitted, late, lost>>
  BY DEF pumpVars
<1>1. Range(crit') = Range(crit) \union {f}
  BY <1>0, RangeAppend
<1>2. Queued' = Queued \union {f} /\ Out' = Out \union {f}
  BY <1>1, <1>a DEF Queued, Out
<1>3. Numbered' /\ Hands' /\ Complete'
  BY <1>2, LeavingInv
<1>4. f \notin Out /\ \A g \in Out : Older(g, f)
  BY LeavingNewest
<1>5. Apart'
  BY <1>1, <1>2, <1>4, <1>a DEF FeedInv, Apart, Out, Queued
<1>6. Ordered'
  <2>1. Sorted(crit')
    BY <1>0, <1>4, SortedAppend DEF FeedInv, Ordered, Out, Queued
  <2>2. \A g \in Range(out) \union Range(batch) : Older(g, f)
    BY <1>4 DEF Out, Queued
  <2>3. \A g \in emitted : ~After(g, f)
    BY LeavingNotAfter
  <2>4. Late' = Late
    BY <1>a DEF Late
  <2> QED BY <1>1, <1>a, <2>1, <2>2, <2>3, <2>4 DEF FeedInv, Ordered
<1>7. Overflown' /\ Excused'
  BY <1>0, <1>1, <1>a DEF FeedInv, Overflown, Excused, Leaving
<1>8. [Feed!Next]_(Feed!vars)
  <2>1. Parked' = Parked \union {f} /\ Late' = Late
    BY <1>1, <1>a DEF Parked, Late
  <2>2. Feed!Park(f)
    BY <1>2, <1>a, <2>1, LeavingFeed DEF Feed!Park, Parked
  <2> QED BY <2>2, LeavingFeed DEF Feed!Next
<1> QED BY <1>3, <1>5, <1>6, <1>7, <1>8 DEF FeedInv

\* A frame is refused.
LEMMA EnterLost ==
  ASSUME FeedInv, TypeOK', NEW s \in Senders, NEW f \in Frames, Leaving(s, f),
         lost' = lost \union {f}, UNCHANGED <<out, crit, pumpVars>>,
         f.kind = "life" => quit' # "no", quit' = "no" => quit = "no",
         pc'[s] # "probe", \A t \in Senders \ {s} : pc'[t] = pc[t]
  PROVE  FeedInv' /\ [Feed!Next]_(Feed!vars)
<1>0. \A g \in Range(crit) : g.by \in Senders
  BY CritSenders DEF FeedInv
<1>a. UNCHANGED <<out, crit, pump, batch, emitted, late>>
  BY DEF pumpVars
<1>1. Queued' = Queued /\ Out' = Out \union {f}
  BY <1>a DEF Queued, Out
<1>2. Numbered' /\ Hands' /\ Complete'
  BY <1>1, LeavingInv
<1>3. Apart' /\ Ordered'
  BY <1>1, <1>a DEF FeedInv, Apart, Ordered, Late
<1>4. Overflown' /\ Excused'
  BY <1>0, <1>a DEF FeedInv, Overflown, Excused
<1>5. [Feed!Next]_(Feed!vars)
  <2>1. Parked' = Parked /\ Late' = Late
    BY <1>a DEF Parked, Late
  <2>2. Feed!Refuse(f)
    BY <1>1, <1>a, <2>1, LeavingFeed DEF Feed!Refuse, Parked
  <2> QED BY <2>2, LeavingFeed DEF Feed!Next
<1> QED BY <1>2, <1>3, <1>4, <1>5 DEF FeedInv

\* A sender takes a frame up.
LEMMA Holding ==
  ASSUME FeedInv, TypeOK', NEW s \in Senders, NEW f \in Frames,
         Begin(s), f.by = s, f.n = count[s] + 1,
         hold' = [hold EXCEPT ![s] = {f}],
         f.kind = (IF pc'[s] = "block" THEN "plain" ELSE "life"),
         UNCHANGED <<out, crit, quit, pumpVars, lost>>,
         pc'[s] = "probe" => crit = <<>>, \A t \in Senders \ {s} : pc'[t] = pc[t]
  PROVE  FeedInv' /\ [Feed!Next]_(Feed!vars)
<1>0. /\ count \in [Senders -> Nat] /\ hold \in [Senders -> SUBSET Frames]
      /\ hold[s] = {} /\ Out \subseteq Frames /\ Held \subseteq Frames
      /\ \A g \in Range(crit) : g.by \in Senders
  <2>1. TypeOK /\ Range(crit) \subseteq Frames
    BY RangeType DEF FeedInv, TypeOK
  <2>2. pc[s] = "idle"
    BY DEF Begin
  <2>3. hold[s] = {}
    BY <2>1, <2>2 DEF TypeOK
  <2>4. Out \subseteq Frames /\ Held \subseteq Frames
    BY <2>1, OutType
  <2> QED BY <2>1, <2>3, <2>4 DEF TypeOK, Frames
<1>a. UNCHANGED <<out, crit, quit, pump, batch, emitted, late, lost>>
  BY DEF pumpVars
<1>1. /\ count'[s] = count[s] + 1 /\ hold'[s] = {f}
      /\ \A t \in Senders \ {s} : count'[t] = count[t] /\ hold'[t] = hold[t]
  BY <1>0 DEF Begin
<1>2. Queued' = Queued /\ Out' = Out /\ Held' = Held \union {f}
  <2>1. Held' = Held \union {f}
    BY <1>0, <1>1 DEF Held
  <2> QED BY <1>a, <2>1 DEF Queued, Out
<1>3. Numbered'
  <2> SUFFICES ASSUME NEW g \in Out
               PROVE  /\ g.n <= count'[g.by]
                      /\ hold'[g.by] # {} => g.n < count'[g.by]
    BY <1>2 DEF Numbered
  <2>1. g.by \in Senders /\ g.n \in Nat /\ count[g.by] \in Nat
    BY <1>0 DEF Frames
  <2>2. g.n <= count[g.by] /\ (hold[g.by] # {} => g.n < count[g.by])
    BY DEF FeedInv, Numbered
  <2> QED BY <1>1, <2>1, <2>2
<1>4. Hands'
  <2> SUFFICES ASSUME NEW t \in Senders, hold'[t] # {}
               PROVE  hold'[t] = {[by |-> t, n |-> count'[t],
                                   kind |-> IF pc'[t] = "block" THEN "plain" ELSE "life"]}
    BY DEF Hands
  <2>1. f = [by |-> s, n |-> count'[s],
             kind |-> IF pc'[s] = "block" THEN "plain" ELSE "life"]
    BY <1>1 DEF Frames
  <2> QED BY <1>1, <2>1 DEF FeedInv, Hands
<1>5. Complete'
  <2> SUFFICES ASSUME NEW t \in Senders, NEW n \in 1..count'[t]
               PROVE  \E g \in Out \union Held \union {f} : g.by = t /\ g.n = n
    BY <1>2 DEF Complete
  <2>1. CASE n \in 1..count[t]
    BY <2>1 DEF FeedInv, Complete
  <2>2. count[t] \in Nat /\ count'[t] \in Nat /\ (t # s => count'[t] = count[t])
    BY <1>0, <1>1
  <2> QED BY <1>1, <2>1, <2>2
<1>6. Apart' /\ Ordered' /\ Excused'
  BY <1>2, <1>a DEF FeedInv, Apart, Ordered, Excused, Late
<1>7. Overflown'
  <2>1. CASE pc'[s] = "probe"
    BY <1>a, <2>1, RangeEmpty DEF FeedInv, Overflown
  <2>2. CASE pc'[s] # "probe"
    BY <1>0, <1>a, <2>2 DEF FeedInv, Overflown
  <2> QED BY <2>1, <2>2
<1>8. UNCHANGED Feed!vars
  BY <1>2, <1>a DEF Feed!vars, Late
<1> QED BY <1>3, <1>4, <1>5, <1>6, <1>7, <1>8 DEF FeedInv

\* No frame moves; the session may end.
LEMMA Moving ==
  ASSUME FeedInv, TypeOK', UNCHANGED <<out, crit, batch, emitted, late, lost, hold, count>>,
         pump' = "take" <=> pump = "take",
         quit' = quit \/ quit' # "no",
         \A s \in Senders : \/ pc'[s] = pc[s]
                            \/ pc'[s] # "probe" /\ (hold[s] = {} \/ {pc[s], pc'[s]} = {"probe", "park"})
  PROVE  FeedInv' /\ [Feed!Next]_(Feed!vars)
<1>1. \A g \in Range(crit) : g.by \in Senders
  BY CritSenders DEF FeedInv
<1>2. Queued' = Queued /\ Out' = Out /\ Held' = Held
  BY DEF Queued, Out, Held
<1>a. Late' = Late
  BY DEF Late
<1>3. Numbered' /\ Apart' /\ Ordered' /\ Complete' /\ Excused'
  <2>1. Numbered'
    BY <1>2 DEF FeedInv, Numbered
  <2>2. Apart'
    BY <1>2 DEF FeedInv, Apart
  <2>3. Ordered'
    BY <1>a DEF FeedInv, Ordered, Sorted, Older, After
  <2>4. Complete'
    BY <1>2 DEF FeedInv, Complete
  <2>5. Excused'
    BY DEF FeedInv, Excused
  <2> QED BY <2>1, <2>2, <2>3, <2>4, <2>5
<1>4. Hands'
  BY DEF FeedInv, Hands
<1>5. Overflown'
  BY <1>1 DEF FeedInv, Overflown
<1>6. CASE quit' = quit
  BY <1>2, <1>3, <1>4, <1>5, <1>6, <1>a DEF FeedInv, Feed!vars
<1>7. CASE quit' # "no"
  <2>1. Feed!Close
    BY <1>2, <1>7, <1>a DEF Feed!Close
  <2> QED BY <1>3, <1>4, <1>5, <2>1 DEF FeedInv, Feed!Next
<1> QED BY <1>6, <1>7

-----------------------------------------------------------------------------
(* The pump's steps.                                                       *)

\* The pump writes a frame: the oldest its sender has in that queue.
LEMMA Writing ==
  ASSUME FeedInv, TypeOK', NEW f \in Queued,
         Out' = Out, Queued' = Queued \ {f}, emitted' = emitted \union {f},
         Parked' = Parked \ {f}, Apart', Ordered', Overflown',
         UNCHANGED <<sendVars, lost, quit>>,
         pump # "take", pump' # "take", late' = late,
         \A g \in Queued : Feed!Earlier(g, f) =>
            IF f \in Parked THEN g \in Late \ Parked
                            ELSE g \in Parked /\ f.kind # "life"
  PROVE  FeedInv' /\ [Feed!Next]_(Feed!vars)
<1>1. Held' = Held /\ UNCHANGED <<pc, hold, count>>
  BY DEF Held, sendVars
<1>2. Numbered' /\ Hands' /\ Complete' /\ Excused'
  BY <1>1 DEF FeedInv, Numbered, Hands, Complete, Excused
<1>3. f \in Sendable
  BY OutSendable DEF Out
<1>4. Late' = Late
  BY DEF Late
<1>5. Feed!Deliver(f)
  BY <1>4 DEF Feed!Deliver, Parked
<1> QED BY <1>2, <1>3, <1>5 DEF FeedInv, Feed!Next

LEMMA WriteOut ==
  ASSUME FeedInv, TypeOK', out # <<>>, pump \notin {"take", "emit"}, pump' # "take", Write(out), out' = Tail(out),
         UNCHANGED <<crit, batch, late, quit, sendVars, lost>>
  PROVE  FeedInv' /\ [Feed!Next]_(Feed!vars)
<1> DEFINE f == Head(out)
<1>0. /\ out \in Seq(Frames) /\ Sorted(out) /\ batch = <<>> /\ Range(batch) = {}
      /\ \A g \in Queued : g \in Frames
  BY RangeEmpty, OutType DEF FeedInv, TypeOK, Ordered, Out
<1>1. /\ f \in Frames /\ Range(out) = Range(out') \union {f} /\ f \notin Range(out')
      /\ \A g \in Range(out') : Older(f, g)
      /\ emitted' = emitted \union {f}
  BY <1>0, RangeTail DEF Write
<1> HIDE DEF f
<1>2. f \notin Range(crit)
  BY <1>1 DEF FeedInv, Apart
<1>3. Queued' = Queued \ {f} /\ Out' = Out /\ f \in Queued /\ Parked' = Parked /\ f \notin Parked
  BY <1>0, <1>1, <1>2 DEF Queued, Out, Parked
<1>4. Apart'
  BY <1>0, <1>1, <1>2, <1>3 DEF FeedInv, Apart
<1>5. Ordered'
  <2>1. Sorted(out')
    BY <1>0, SortedTail
  <2>2. \A g \in Range(crit) : ~After(f, g)
    <3> SUFFICES ASSUME NEW g \in Range(crit), f.by = g.by, f.kind = "life", f.n > g.n PROVE FALSE
      BY DEF After
    <3>1. f \in Frames /\ g \in Frames /\ f \in Range(out)
      BY <1>0, <1>1 DEF Queued
    <3>2. f.n < g.n
      BY <3>1 DEF FeedInv, Ordered, Older
    <3> QED BY <3>1, <3>2 DEF Frames
  <2>3. \A g \in Range(out') : ~After(f, g)
    <3> SUFFICES ASSUME NEW g \in Range(out'), f.by = g.by, f.n > g.n PROVE FALSE
      BY DEF After
    <3>1. g \in Frames /\ f \in Frames
      BY <1>0, <1>1 DEF Queued
    <3>2. f.n < g.n
      BY <1>1 DEF Older
    <3> QED BY <3>1, <3>2 DEF Frames
  <2>4. Late' = Late
    BY DEF Late
  <2> QED BY <1>0, <1>1, <2>1, <2>2, <2>3, <2>4 DEF FeedInv, Ordered
<1>6. Overflown'
  BY DEF FeedInv, Overflown, sendVars
<1>7. ASSUME NEW g \in Queued, Feed!Earlier(g, f) PROVE g \in Parked /\ f.kind # "life"
  <2>1. g.by = f.by /\ g.n < f.n /\ g.n \in Nat /\ f.n \in Nat
    BY <1>0, <1>1, <1>7 DEF Feed!Earlier, Frames
  <2>2. g \notin Range(out)
    BY <1>1, <2>1 DEF Older
  <2>3. g \in Range(crit)
    BY <1>0, <2>2 DEF Queued
  <2>4. f.kind # "life"
    BY <1>1, <2>1, <2>3 DEF FeedInv, Ordered, Older
  <2> QED BY <2>3, <2>4 DEF Parked
<1>8. Parked' = Parked \ {f}
  BY <1>3
<1> QED BY <1>1, <1>3, <1>4, <1>5, <1>6, <1>7, <1>8, Writing

LEMMA WriteBatch ==
  ASSUME FeedInv, TypeOK', batch # <<>>, Write(batch), batch' = Tail(batch),
         UNCHANGED <<out, crit, pump, late, quit, sendVars, lost>>
  PROVE  FeedInv' /\ [Feed!Next]_(Feed!vars)
<1> DEFINE f == Head(batch)
<1>0. /\ batch \in Seq(Frames) /\ Sorted(batch)
      /\ \A g \in Queued : g \in Frames
  BY OutType DEF FeedInv, TypeOK, Ordered, Out
<1>1. /\ f \in Frames /\ Range(batch) = Range(batch') \union {f} /\ f \notin Range(batch')
      /\ \A g \in Range(batch') : Older(f, g)
      /\ emitted' = emitted \union {f}
  BY <1>0, RangeTail DEF Write
<1> HIDE DEF f
<1>2. f \notin Range(out) \union Range(crit)
  BY <1>1 DEF FeedInv, Apart
<1>3. Queued' = Queued \ {f} /\ Out' = Out /\ f \in Queued /\ Parked' = Parked \ {f} /\ f \in Parked
  BY <1>0, <1>1, <1>2 DEF Queued, Out, Parked
<1>4. Apart'
  BY <1>0, <1>1, <1>2, <1>3 DEF FeedInv, Apart
<1>5. Ordered'
  <2>1. Sorted(batch')
    BY <1>0, SortedTail
  <2>2. Late' = Late
    BY DEF Late
  <2>3. \A g \in Range(crit) \union Range(batch') \union (Range(out) \ Late) : ~After(f, g)
    <3> SUFFICES ASSUME NEW g \in Range(crit) \union Range(batch') \union (Range(out) \ Late),
                        f.by = g.by, f.n > g.n
                 PROVE  FALSE
      BY DEF After
    <3>1. f.n < g.n /\ f.n \in Nat /\ g.n \in Nat
      BY <1>0, <1>1 DEF FeedInv, Ordered, Older, Frames, Queued
    <3> QED BY <3>1
  <2> QED BY <1>0, <1>1, <2>1, <2>2, <2>3 DEF FeedInv, Ordered
<1>6. Overflown'
  BY <1>1 DEF FeedInv, Overflown, sendVars
<1>7. ASSUME NEW g \in Queued, Feed!Earlier(g, f) PROVE g \in Late \ Parked
  <2>1. g.by = f.by /\ g.n < f.n /\ g.n \in Nat /\ f.n \in Nat
    BY <1>0, <1>1, <1>7 DEF Feed!Earlier, Frames
  <2>2. ~(g = f \/ f.n < g.n)
    BY <2>1
  <2>3. g \notin Range(crit) \union Range(batch)
    BY <1>1, <2>1, <2>2 DEF FeedInv, Ordered, Older
  <2>4. g \in Range(out)
    BY <2>3 DEF Queued
  <2>5. g \in Late
    BY <1>1, <2>1, <2>2, <2>4 DEF FeedInv, Ordered, Older
  <2> QED BY <2>3, <2>5 DEF Parked
<1>8. pump = "emit"
  BY DEF FeedInv, TypeOK
<1> QED BY <1>1, <1>3, <1>4, <1>5, <1>6, <1>7, <1>8, Writing

\* The pump has found out empty: it turns to the overflow.
LEMMA Looking ==
  ASSUME FeedInv, TypeOK', Poll, out = <<>>
  PROVE  FeedInv' /\ [Feed!Next]_(Feed!vars)
<1>1. /\ pump = "poll" /\ pump' = "take" /\ batch = <<>>
      /\ UNCHANGED <<out, crit, quit, pc, hold, count, batch, emitted, lost>>
  BY DEF Poll, FeedInv, TypeOK, sendVars
<1>2. Range(out) = {} /\ Range(batch) = {} /\ Late' = {} /\ UNCHANGED <<Range(out), Range(crit), Range(batch)>>
  BY <1>1, RangeEmpty DEF Late
<1>3. Queued' = Queued /\ Out' = Out /\ Held' = Held /\ Parked' = Parked /\ Queued = Parked
  BY <1>1, <1>2 DEF Queued, Out, Held, Parked
<1>4. Numbered' /\ Hands' /\ Complete' /\ Excused'
  BY <1>1, <1>3 DEF FeedInv, Numbered, Hands, Complete, Excused
<1>5. Apart' /\ Overflown'
  BY <1>1, <1>2, <1>3 DEF FeedInv, Apart, Overflown
<1>6. Ordered'
  BY <1>1, <1>2 DEF FeedInv, Ordered
<1>7. Feed!Look
  BY <1>1, <1>2, <1>3 DEF Feed!Look, Parked
<1> QED BY <1>4, <1>5, <1>6, <1>7 DEF FeedInv, Feed!Next

\* The pump takes the overflow: its batch has been written by then.
LEMMA Taking ==
  ASSUME FeedInv, TypeOK', Take
  PROVE  FeedInv' /\ [Feed!Next]_(Feed!vars)
<1>1. /\ batch = <<>> /\ batch' = crit /\ crit' = <<>> /\ crit \in Seq(Frames)
      /\ UNCHANGED <<out, quit, pc, hold, count, emitted, lost>>
      /\ pump = "take" /\ pump' = "emit" /\ late' = Range(out)
  BY DEF Take, FeedInv, TypeOK, sendVars
<1>a. Late = Range(out) /\ Late' = Range(out)
  BY <1>1 DEF Late
<1>2. Range(batch) = {} /\ Range(crit') = {} /\ Range(batch') = Range(crit)
  BY <1>1, RangeEmpty
<1>3. Queued' = Queued /\ Out' = Out /\ Held' = Held /\ Parked' = Parked
  BY <1>1, <1>2 DEF Queued, Out, Held, Parked
<1>4. Numbered' /\ Hands' /\ Complete' /\ Excused'
  BY <1>1, <1>3 DEF FeedInv, Numbered, Hands, Complete, Excused
<1>5. Apart' /\ Overflown'
  BY <1>1, <1>2, <1>3 DEF FeedInv, Apart, Overflown
<1>6. Ordered'
  BY <1>1, <1>2, <1>a, SortedEmpty DEF FeedInv, Ordered
<1>7. Feed!Turn
  BY <1>1, <1>3, <1>a DEF Feed!Turn, Parked
<1> QED BY <1>4, <1>5, <1>6, <1>7 DEF FeedInv, Feed!Next

-----------------------------------------------------------------------------
(* Every step.                                                             *)

LEMMA GoesFacts ==
  ASSUME TypeOK, NEW s \in Senders, NEW where, NEW frames, Goes(s, where, frames)
  PROVE  /\ pc'[s] = where /\ \A t \in Senders \ {s} : pc'[t] = pc[t]
         /\ hold' = [hold EXCEPT ![s] = frames]
  BY DEF TypeOK, Goes

\* A sender that sends begins with empty hands.
LEMMA FreshFacts ==
  ASSUME TypeOK, NEW s \in Senders, NEW kind \in Kinds, Begin(s)
  PROVE  /\ Fresh(s, kind) \in Frames /\ Fresh(s, kind).by = s
         /\ Fresh(s, kind).n = count[s] + 1 /\ Fresh(s, kind).kind = kind
         /\ count'[s] = count[s] + 1 /\ count' = [count EXCEPT ![s] = @ + 1]
         /\ hold[s] = {}
         /\ hold' = [hold EXCEPT ![s] = {}] => Leaving(s, Fresh(s, kind))
<1>1. Fresh(s, kind) \in Frames
  BY FreshType
<1>2. Fresh(s, kind).by = s /\ Fresh(s, kind).n = count[s] + 1 /\ Fresh(s, kind).kind = kind
  BY DEF Fresh
<1>3. count' = [count EXCEPT ![s] = @ + 1] /\ count'[s] = count[s] + 1 /\ hold[s] = {}
  BY DEF TypeOK, Begin
<1> QED BY <1>1, <1>2, <1>3 DEF Leaving

\* A frame a sender held leaves its hands.
LEMMA HeldFacts ==
  ASSUME FeedInv, NEW s \in Senders, NEW f \in hold[s],
         hold' = [hold EXCEPT ![s] = {}], UNCHANGED count
  PROVE  f \in Frames /\ Leaving(s, f) /\ (pc[s] # "block" => f.kind = "life")
<1>1. hold[s] = {f} /\ f.by = s /\ f.n = count[s] /\ (pc[s] # "block" => f.kind = "life")
  BY HeldLast DEF FeedInv
<1>2. f \in Frames
  BY DEF FeedInv, TypeOK
<1> QED BY <1>1, <1>2 DEF Leaving

LEMMA ParkFeed ==
  ASSUME FeedInv, TypeOK', NEW s \in Senders, NEW f \in Frames, Park(s, f),
         hold' = [hold EXCEPT ![s] = {}] => Leaving(s, f), f.kind = "life",
         UNCHANGED <<out, wake, pumpVars>>
  PROVE  FeedInv' /\ [Feed!Next]_(Feed!vars)
<1>1. UNCHANGED <<out, pumpVars>>
  OBVIOUS
<1>2. CASE Len(crit) < CritCap
  <2>1. crit' = Append(crit, f) /\ Goes(s, "wake", {}) /\ UNCHANGED <<quit, lost>>
    BY <1>2 DEF Park
  <2>2. pc'[s] # "probe" /\ \A t \in Senders \ {s} : pc'[t] = pc[t]
    BY <2>1, GoesFacts DEF FeedInv
  <2>3. Leaving(s, f)
    BY <2>1, GoesFacts DEF FeedInv
  <2> QED BY <1>1, <2>1, <2>2, <2>3, EnterCrit
<1>3. CASE ~(Len(crit) < CritCap)
  <2>1. /\ quit' = Closed("overflow") /\ lost' = lost \union {f} /\ UNCHANGED crit
        /\ Goes(s, "idle", {})
    BY <1>3 DEF Park
  <2>2. pc'[s] # "probe" /\ \A t \in Senders \ {s} : pc'[t] = pc[t]
    BY <2>1, GoesFacts DEF FeedInv
  <2>3. Leaving(s, f)
    BY <2>1, GoesFacts DEF FeedInv
  <2>4. quit' # "no"
    BY <2>1 DEF Closed
  <2> QED BY <1>1, <2>1, <2>2, <2>3, <2>4, EnterLost
<1> QED BY <1>2, <1>3

LEMMA OfferFeed ==
  ASSUME FeedInv, TypeOK', NEW s \in Senders, NEW f \in Frames, Offer(s, f),
         Leaving(s, f), f.kind # "life", UNCHANGED <<crit, wake, quit, pumpVars>>,
         pc'[s] # "probe", \A t \in Senders \ {s} : pc'[t] = pc[t]
  PROVE  FeedInv' /\ [Feed!Next]_(Feed!vars)
<1>1. UNCHANGED <<crit, quit, pumpVars>>
  OBVIOUS
<1>2. CASE Room
  BY <1>1, <1>2, EnterOut DEF Offer
<1>3. CASE ~Room
  BY <1>1, <1>3, EnterLost DEF Offer
<1> QED BY <1>2, <1>3

LEMMA FeedStep == FeedInv /\ [Next]_vars => FeedInv' /\ [Feed!Next]_(Feed!vars)
<1> SUFFICES ASSUME FeedInv, [Next]_vars PROVE FeedInv' /\ [Feed!Next]_(Feed!vars)
  OBVIOUS
<1>a. TypeOK /\ TypeOK'
  BY TypeStep DEF FeedInv
<1>b. hold \in [Senders -> SUBSET Frames]
  BY <1>a DEF TypeOK
<1>1. ASSUME NEW s \in Senders, TrySend(s) PROVE FeedInv' /\ [Feed!Next]_(Feed!vars)
  <2> DEFINE f == Fresh(s, "plain")
  <2>1. Begin(s) /\ Offer(s, f) /\ UNCHANGED <<crit, wake, quit, pc, hold, pumpVars>>
    BY <1>1 DEF TrySend
  <2>2. /\ f \in Frames /\ f.kind # "life"
        /\ hold[s] = {} /\ hold' = [hold EXCEPT ![s] = {}] => Leaving(s, f)
    BY <1>a, <2>1, FreshFacts DEF Kinds
  <2>3. hold[s] = {} /\ pc[s] = "idle"
    BY <1>a, <2>1, FreshFacts DEF Kinds, Begin
  <2>4. hold' = [hold EXCEPT ![s] = {}]
    BY <1>b, <2>1, <2>3
  <2> HIDE DEF f
  <2> QED BY <1>a, <2>1, <2>2, <2>3, <2>4, OfferFeed
<1>2. ASSUME NEW s \in Senders, SendBlocking(s) PROVE FeedInv' /\ [Feed!Next]_(Feed!vars)
  <2> DEFINE f == Fresh(s, "plain")
  <2>1. Begin(s) /\ Goes(s, "block", {f}) /\ UNCHANGED <<out, crit, quit, pumpVars, lost>>
    BY <1>2 DEF SendBlocking
  <2>2. f \in Frames /\ f.by = s /\ f.n = count[s] + 1 /\ f.kind = "plain"
    BY <1>a, <2>1, FreshFacts DEF Kinds
  <2>3. /\ pc'[s] = "block" /\ \A t \in Senders \ {s} : pc'[t] = pc[t]
        /\ hold' = [hold EXCEPT ![s] = {f}]
    BY <1>a, <2>1, GoesFacts
  <2> HIDE DEF f
  <2> QED BY <1>a, <2>1, <2>2, <2>3, Holding
<1>3. ASSUME NEW s \in Senders, SendReliable(s) PROVE FeedInv' /\ [Feed!Next]_(Feed!vars)
  <2> DEFINE f == Fresh(s, "life")
  <2>1. Begin(s) /\ UNCHANGED <<out, wake, pumpVars>>
    BY <1>3 DEF SendReliable
  <2>2. /\ f \in Frames /\ f.by = s /\ f.n = count[s] + 1 /\ f.kind = "life"
        /\ hold' = [hold EXCEPT ![s] = {}] => Leaving(s, f)
    BY <1>a, <2>1, FreshFacts DEF Kinds
  <2>3. \/ Park(s, f)
        \/ crit = <<>> /\ Goes(s, "probe", {f}) /\ UNCHANGED <<crit, quit, lost>>
    BY <1>3 DEF SendReliable, OverflowActive
  <2> HIDE DEF f
  <2>4. CASE Park(s, f)
    BY <1>a, <2>1, <2>2, <2>4, ParkFeed
  <2>5. CASE crit = <<>> /\ Goes(s, "probe", {f}) /\ UNCHANGED <<crit, quit, lost>>
    <3>1. /\ pc'[s] = "probe" /\ \A t \in Senders \ {s} : pc'[t] = pc[t]
          /\ hold' = [hold EXCEPT ![s] = {f}]
      BY <1>a, <2>5, GoesFacts
    <3>2. UNCHANGED <<out, pumpVars>>
      BY <2>1
    <3> QED BY <1>a, <2>1, <2>2, <2>5, <3>1, <3>2, Holding
  <2> QED BY <2>3, <2>4, <2>5
<1>4. ASSUME NEW s \in Senders, Kick(s) PROVE FeedInv' /\ [Feed!Next]_(Feed!vars)
  <2> DEFINE f == Fresh(s, "bye")
  <2>1. Begin(s) /\ Offer(s, f) /\ Goes(s, "kick", {}) /\ UNCHANGED <<crit, wake, quit, pumpVars>>
    BY <1>4 DEF Kick
  <2>2. /\ f \in Frames /\ f.kind # "life"
        /\ hold' = [hold EXCEPT ![s] = {}] => Leaving(s, f)
    BY <1>a, <2>1, FreshFacts DEF Kinds
  <2>3. /\ pc'[s] = "kick" /\ \A t \in Senders \ {s} : pc'[t] = pc[t]
        /\ hold' = [hold EXCEPT ![s] = {}]
    BY <1>a, <2>1, GoesFacts
  <2> HIDE DEF f
  <2> QED BY <1>a, <2>1, <2>2, <2>3, OfferFeed
<1>5. ASSUME NEW s \in Senders, Unblock(s) PROVE FeedInv' /\ [Feed!Next]_(Feed!vars)
  <2>1. PICK f \in hold[s] :
          \/ Room /\ out' = Append(out, f) /\ UNCHANGED lost
          \/ quit # "no" /\ lost' = lost \union {f} /\ UNCHANGED out
    BY <1>5 DEF Unblock
  <2>2. /\ Goes(s, "idle", {}) /\ pc[s] = "block"
        /\ UNCHANGED <<crit, quit, count, pumpVars>>
    BY <1>5 DEF Unblock
  <2>3. /\ pc'[s] = "idle" /\ \A t \in Senders \ {s} : pc'[t] = pc[t]
        /\ hold' = [hold EXCEPT ![s] = {}]
    BY <1>a, <2>2, GoesFacts
  <2>4. f \in Frames /\ Leaving(s, f)
    BY <2>2, <2>3, HeldFacts
  <2>5. f.kind # "life"
    BY <1>a, <2>2, HeldLast DEF FeedInv
  <2>6. CASE out' = Append(out, f) /\ UNCHANGED lost
    BY <1>a, <2>2, <2>3, <2>4, <2>5, <2>6, EnterOut
  <2>7. CASE lost' = lost \union {f} /\ UNCHANGED out
    BY <1>a, <2>2, <2>3, <2>4, <2>5, <2>7, EnterLost
  <2> QED BY <2>1, <2>6, <2>7
<1>6. ASSUME NEW s \in Senders, Probe(s) PROVE FeedInv' /\ [Feed!Next]_(Feed!vars)
  <2>0. pc[s] = "probe" /\ UNCHANGED <<crit, quit, count, pumpVars, lost>>
    BY <1>6 DEF Probe
  <2>1. CASE Room
    <3>1. Goes(s, "idle", {})
      BY <1>6, <2>1 DEF Probe
    <3>2. PICK f \in hold[s] : out' = Append(out, f)
      BY <1>6, <2>1 DEF Probe
    <3>3. /\ pc'[s] = "idle" /\ \A t \in Senders \ {s} : pc'[t] = pc[t]
          /\ hold' = [hold EXCEPT ![s] = {}]
      BY <1>a, <3>1, GoesFacts
    <3>4. f \in Frames /\ Leaving(s, f)
      BY <2>0, <3>3, HeldFacts
    <3>5. \A g \in Range(crit) : g.by # s
      BY <2>0 DEF FeedInv, Overflown
    <3> QED BY <1>a, <2>0, <3>2, <3>3, <3>4, <3>5, EnterOut
  <2>2. CASE ~Room
    <3>1. Goes(s, "park", hold[s]) /\ UNCHANGED out
      BY <1>6, <2>2 DEF Probe
    <3>2. /\ pc'[s] = "park" /\ \A t \in Senders \ {s} : pc'[t] = pc[t]
          /\ hold' = [hold EXCEPT ![s] = hold[s]]
      BY <1>a, <3>1, GoesFacts
    <3>3. hold' = hold
      BY <1>b, <3>2
    <3> QED BY <1>a, <2>0, <3>1, <3>2, <3>3, Moving DEF pumpVars
  <2> QED BY <2>1, <2>2
<1>7. ASSUME NEW s \in Senders, Overflow(s) PROVE FeedInv' /\ [Feed!Next]_(Feed!vars)
  <2>1. PICK f \in hold[s] : Park(s, f)
    BY <1>7 DEF Overflow
  <2>2. pc[s] = "park" /\ UNCHANGED <<out, wake, count, pumpVars>>
    BY <1>7 DEF Overflow
  <2>3. /\ f \in Frames /\ f.kind = "life"
        /\ hold' = [hold EXCEPT ![s] = {}] => Leaving(s, f)
    <3>1. f \in Frames
      BY <1>b
    <3>2. f.kind = "life"
      BY <1>a, <2>2, HeldLast DEF FeedInv
    <3>3. hold' = [hold EXCEPT ![s] = {}] => Leaving(s, f)
      BY <2>2, HeldFacts
    <3> QED BY <3>1, <3>2, <3>3
  <2> QED BY <1>a, <2>1, <2>2, <2>3, ParkFeed
<1>8. ASSUME NEW s \in Senders, WakeCrit(s) \/ KickCloses(s)
      PROVE  FeedInv' /\ [Feed!Next]_(Feed!vars)
  <2>1. /\ Goes(s, "idle", {}) /\ pc[s] \in {"wake", "kick"}
        /\ UNCHANGED <<out, crit, count, pump, batch, emitted, late, lost>>
        /\ quit' = quit \/ quit' = Closed("kick")
    BY <1>8 DEF WakeCrit, KickCloses, pumpVars
  <2>2. hold[s] = {}
    BY <1>a, <2>1 DEF TypeOK
  <2>3. /\ pc'[s] = "idle" /\ \A t \in Senders \ {s} : pc'[t] = pc[t]
        /\ hold' = [hold EXCEPT ![s] = {}]
    BY <1>a, <2>1, GoesFacts
  <2>4. hold' = hold
    BY <1>b, <2>2, <2>3
  <2>5. quit' = quit \/ quit' # "no"
    BY <2>1 DEF Closed
  <2> QED BY <1>a, <2>1, <2>2, <2>3, <2>4, <2>5, Moving
<1>9. CASE Leave
  BY <1>9, <1>a, Moving DEF Leave, sendVars, pumpVars
<1>10. CASE Pump
  <2>1. CASE (Poll /\ out # <<>>) \/ WaitOut
    <3>1. /\ out # <<>> /\ pump \notin {"take", "emit"} /\ pump' # "take"
          /\ Write(out) /\ out' = Tail(out)
          /\ UNCHANGED <<crit, batch, late, quit, sendVars, lost>>
      BY <2>1 DEF Poll, WaitOut
    <3> QED BY <1>a, <3>1, WriteOut
  <2>2. CASE Drain /\ batch # <<>>
    <3>1. /\ Write(batch) /\ batch' = Tail(batch)
          /\ UNCHANGED <<out, crit, pump, late, quit, sendVars, lost>>
      BY <2>2 DEF Drain
    <3> QED BY <1>a, <2>2, <3>1, WriteBatch
  <2>3. CASE Take
    BY <1>a, <2>3, Taking
  <2>4. CASE Poll /\ out = <<>>
    BY <1>a, <2>4, Looking
  <2>5. CASE (Drain /\ batch = <<>>) \/ WaitWake \/ WaitQuit
    <3>1. /\ UNCHANGED <<out, crit, batch, emitted, late, lost, hold, count, quit, pc>>
          /\ pump # "take" /\ pump' # "take"
      BY <2>5 DEF Drain, WaitWake, WaitQuit, sendVars
    <3> QED BY <1>a, <3>1, Moving
  <2> QED BY <1>10, <2>1, <2>2, <2>3, <2>4, <2>5 DEF Pump
<1>11. CASE UNCHANGED vars
  BY <1>11, <1>a, Moving DEF vars, sendVars, pumpVars
<1> QED BY <1>1, <1>2, <1>3, <1>4, <1>5, <1>6, <1>7, <1>8, <1>9, <1>10, <1>11
         DEF Next, GoesOn

LEMMA FeedStart == Init => FeedInv /\ Feed!Init
<1> SUFFICES ASSUME Init PROVE FeedInv /\ Feed!Init
  OBVIOUS
<1>1. /\ out = <<>> /\ crit = <<>> /\ batch = <<>> /\ emitted = {} /\ lost = {} /\ quit = "no"
      /\ pump = "poll" /\ late = {}
      /\ hold = [s \in Senders |-> {}] /\ count = [s \in Senders |-> 0]
  BY DEF Init
<1>2. Range(out) = {} /\ Range(crit) = {} /\ Range(batch) = {}
  BY <1>1, RangeEmpty
<1>3. Queued = {} /\ Out = {} /\ Held = {}
  BY <1>1, <1>2 DEF Queued, Out, Held
<1>4. Numbered /\ Hands /\ Apart /\ Overflown /\ Complete /\ Excused
  BY <1>1, <1>2, <1>3 DEF Numbered, Hands, Apart, Overflown, Complete, Excused
<1>5. Ordered
  BY <1>1, <1>2, SortedEmpty DEF Ordered
<1>6. Feed!Init
  BY <1>1, <1>2, <1>3 DEF Feed!Init, Late
<1> QED BY <1>4, <1>5, <1>6, TypeInit DEF FeedInv

-----------------------------------------------------------------------------
(* The theorems.                                                           *)

LEMMA FeedAlways == Spec => []FeedInv
  BY FeedStart, FeedStep, PTL DEF Spec

\* Every frame is in one queue, or written, or lost, or in its sender's
\* hands, and a life-cycle frame is lost only with the session.
THEOREM GuaranteedAlways == Spec => []Guaranteed
<1>1. FeedInv => Guaranteed
  <2> SUFFICES ASSUME FeedInv PROVE Guaranteed
    OBVIOUS
  <2>1. IsInjective(out) /\ IsInjective(crit) /\ IsInjective(batch)
    BY SortedInjective DEF FeedInv, TypeOK, Ordered
  <2>2. Held \intersect (Queued \union emitted) = {}
    BY HeldApart DEF Out
  <2>3. Complete /\ Apart /\ Excused
    BY DEF FeedInv
  <2> QED BY <2>1, <2>2, <2>3 DEF Guaranteed, Complete, Apart, Excused, Out
<1> QED BY <1>1, FeedAlways, PTL

\* No life-cycle frame overtakes one of its sender that waits in the overflow.
THEOREM NoJumpAlways == Spec => []NoJump
<1>1. FeedInv => NoJump
  <2> SUFFICES ASSUME FeedInv PROVE NoJump
    OBVIOUS
  <2>1. Queued \subseteq Frames
    BY OutType DEF FeedInv, Out
  <2>2. ASSUME NEW f \in Range(crit), NEW g \in Range(out) \union Range(batch), After(g, f)
        PROVE  FALSE
    <3>1. g.n < f.n /\ f.n \in Nat /\ g.n \in Nat /\ g.n > f.n
      BY <2>1, <2>2 DEF FeedInv, Ordered, Older, After, Frames, Queued
    <3> QED BY <3>1
  <2>3. \A f \in Range(crit) \union Range(batch) \union (Range(out) \ Late), g \in emitted :
            ~After(g, f)
    BY DEF FeedInv, Ordered
  <2> QED BY <2>2, <2>3 DEF NoJump
<1> QED BY <1>1, FeedAlways, PTL

\* Channel, overflow, wake-ups and pump together implement the feed.
THEOREM QueueImplementsFeed == Spec => ImplementsFeed
  BY FeedStart, FeedStep, FeedAlways, PTL DEF Spec, ImplementsFeed, Feed!Spec
=============================================================================
