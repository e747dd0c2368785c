--------------------------- MODULE HandoverProofs ---------------------------
(***************************************************************************)
(* Proofs about the hand-over, for every number of pods, players, sessions *)
(* and mobs, every layout of dimensions and every bound: what the          *)
(* variables hold, that a mob is in one place, that an entity has one      *)
(* owner, that what travels under a token is its own player's, and that a  *)
(* source lets go of a player only once somebody else has it.              *)
(***************************************************************************)
EXTENDS Handover, TLAPS, SequenceTheorems, FiniteSetTheorems

Links == Pods \X Pods

(***************************************************************************)
(* What the wire operators do to a wire of frames.                         *)
(***************************************************************************)

\* Appending a frame to one direction keeps a wire a wire.
LEMMA SendType ==
  ASSUME wire \in [Links -> Seq(Frames)], NEW p \in Pods, NEW q \in Pods,
         NEW m \in Frames, Send(p, q, m)
  PROVE  wire' \in [Links -> Seq(Frames)]
<1>1. <<p, q>> \in Links
  BY DEF Links
<1>2. Append(wire[<<p, q>>], m) \in Seq(Frames)
  BY <1>1, AppendProperties
<1>. QED
  BY <1>1, <1>2 DEF Send

\* A prefix of a sequence of frames is one.
LEMMA PrefixType ==
  ASSUME NEW S, NEW s \in Seq(S), NEW i \in 0..Len(s)
  PROVE  SubSeq(s, 1, i) \in Seq(S)
<1>1. \A j \in 1..i : s[j] \in S
  BY LenProperties, ElementOfSeq
<1>. QED
  BY <1>1, SubSeqProperties

\* A dropped link leaves a wire.
LEMMA TruncatedType ==
  ASSUME wire \in [Links -> Seq(Frames)], NEW p \in Pods, NEW q \in Pods,
         NEW i \in 0..Len(wire[<<p, q>>]), NEW j \in 0..Len(wire[<<q, p>>])
  PROVE  Truncated(p, q, i, j) \in [Links -> Seq(Frames)]
<1>. SUFFICES ASSUME NEW l \in Links
              PROVE  Truncated(p, q, i, j)[l] \in Seq(Frames)
  BY DEF Truncated, Links
<1>1. wire[l] \in Seq(Frames)
  OBVIOUS
<1>2. CASE l = <<p, q>>
  BY <1>1, <1>2, PrefixType DEF Truncated, Links
<1>3. CASE l # <<p, q>> /\ l = <<q, p>>
  BY <1>1, <1>3, PrefixType DEF Truncated, Links
<1>4. CASE l # <<p, q>> /\ l # <<q, p>>
  BY <1>1, <1>4 DEF Truncated, Links
<1>. QED
  BY <1>2, <1>3, <1>4

\* Taking the first frame off a direction leaves a wire.
LEMMA TakenType ==
  ASSUME wire \in [Links -> Seq(Frames)], NEW q \in Pods, NEW p \in Pods,
         wire[<<q, p>>] # <<>>
  PROVE  /\ Taken(q, p) \in [Links -> Seq(Frames)]
         /\ Head(wire[<<q, p>>]) \in Frames
<1>1. wire[<<q, p>>] \in Seq(Frames)
  BY DEF Links
<1>2. Tail(wire[<<q, p>>]) \in Seq(Frames) /\ Head(wire[<<q, p>>]) \in Frames
  BY <1>1
<1>. QED
  BY <1>2 DEF Taken, Links

\* ... and so does answering it.
LEMMA AnsweredType ==
  ASSUME wire \in [Links -> Seq(Frames)], NEW q \in Pods, NEW p \in Pods,
         wire[<<q, p>>] # <<>>, NEW a \in Frames
  PROVE  Answered(q, p, a) \in [Links -> Seq(Frames)]
<1>. SUFFICES ASSUME NEW l \in Links
              PROVE  Answered(q, p, a)[l] \in Seq(Frames)
  BY DEF Answered, Links
<1>1. wire[l] \in Seq(Frames)
  OBVIOUS
<1>2. CASE l = <<q, p>>
  BY <1>1, <1>2 DEF Answered, Links
<1>3. CASE l # <<q, p>> /\ l = <<p, q>> /\ Connected(p, q)
  BY <1>1, <1>3, AppendProperties DEF Answered, Links
<1>4. CASE l # <<q, p>> /\ ~ (l = <<p, q>> /\ Connected(p, q))
  BY <1>1, <1>4 DEF Answered, Links
<1>. QED
  BY <1>2, <1>3, <1>4

(***************************************************************************)
(* Type correctness.                                                       *)
(***************************************************************************)

\* The constants are what ConstantsAssumption says, one bound at a time.
LEMMA Bounds ==
  /\ MaxEID \in Nat /\ MaxMig \in Nat /\ MaxRev \in Nat /\ MaxDrops \in Nat
  /\ MaxRestarts \in Nat /\ MaxFull \in Nat /\ MaxStale \in Nat
BY ConstantsAssumption

\* The states a pod boots in are typed.
LEMMA TypeInit == Init => TypeOK
<1>. SUFFICES ASSUME Init PROVE TypeOK
  OBVIOUS
<1>. USE Bounds, ConstantsAssumption
<1>1. ents \subseteq Tracked /\ mobs \subseteq Mob /\ filed \subseteq Mob
  BY DEF Init
<1>2. handoffs \subseteq Handoff /\ pending \subseteq Pending /\ rehomes \subseteq Rehome
  BY DEF Init
<1>3. /\ ses \in [Sessions -> Session \cup {Unused}]
      /\ home \in [Players -> Sessions \cup {Offline}]
  BY DEF Init
<1>4. links \subseteq Pairs
  BY DEF Init
<1>5. wire \in [Pods \X Pods -> Seq(Frames)]
  BY DEF Init
<1>6. eidCtr \in [Pods -> 0..MaxEID] /\ migSeq \in [Pods -> Nat]
  BY DEF Init
<1>7. faults \in FaultCounts
  BY DEF Init, FaultCounts
<1>8. minted \in Histories
  BY DEF Init, Histories
<1>. QED
  BY <1>1, <1>2, <1>3, <1>4, <1>5, <1>6, <1>7, <1>8 DEF TypeOK

\* Counting one more fault keeps the counts in their bounds.
LEMMA FaultsType ==
  ASSUME faults \in FaultCounts
  PROVE  /\ faults.drop < MaxDrops => [faults EXCEPT !.drop = @ + 1] \in FaultCounts
         /\ faults.restart < MaxRestarts => [faults EXCEPT !.restart = @ + 1] \in FaultCounts
         /\ faults.full < MaxFull => [faults EXCEPT !.full = @ + 1] \in FaultCounts
         /\ faults.stale < MaxStale => [faults EXCEPT !.stale = @ + 1] \in FaultCounts
<1>1. /\ faults.drop \in Nat /\ faults.restart \in Nat
      /\ faults.full \in Nat /\ faults.stale \in Nat
  BY Bounds DEF FaultCounts
<1>2. \A k \in Nat, n \in Nat : k < n => k + 1 \in 0..n
  OBVIOUS
<1>3. faults.drop < MaxDrops => [faults EXCEPT !.drop = @ + 1] \in FaultCounts
  BY <1>1, <1>2, Bounds DEF FaultCounts
<1>4. faults.restart < MaxRestarts => [faults EXCEPT !.restart = @ + 1] \in FaultCounts
  BY <1>1, <1>2, Bounds DEF FaultCounts
<1>5. faults.full < MaxFull => [faults EXCEPT !.full = @ + 1] \in FaultCounts
  BY <1>1, <1>2, Bounds DEF FaultCounts
<1>6. faults.stale < MaxStale => [faults EXCEPT !.stale = @ + 1] \in FaultCounts
  BY <1>1, <1>2, Bounds DEF FaultCounts
<1>. QED
  BY <1>3, <1>4, <1>5, <1>6

\* The parts of the type invariant a link break touches.
LEMMA BreakType ==
  ASSUME TypeOK, NEW p \in Pods, NEW q \in Pods, BreakLink(p, q)
  PROVE  /\ links' \subseteq Pairs
         /\ wire' \in [Links -> Seq(Frames)]
         /\ faults' \in FaultCounts
<1>1. links' \subseteq Pairs
  BY DEF BreakLink, TypeOK
<1>2. wire' \in [Links -> Seq(Frames)]
  <2>1. wire \in [Links -> Seq(Frames)]
    BY DEF TypeOK, Links
  <2>. QED
    BY <2>1, TruncatedType DEF BreakLink
<1>3. faults' \in FaultCounts
  BY FaultsType DEF BreakLink, TypeOK
<1>. QED
  BY <1>1, <1>2, <1>3

\* A session that is being joined is a session.
LEMMA JoiningType ==
  ASSUME NEW w \in Players, NEW p \in Pods, NEW snap \in Snaps
  PROVE  Joining(w, p, snap) \in Session
BY ConstantsAssumption DEF Joining, Session

\* A login leaves the state typed.
LEMMA LoginType ==
  ASSUME TypeOK, NEW w \in Players, NEW s \in Sessions, NEW p \in Pods, Login(w, s, p)
  PROVE  TypeOK'
<1>1. MintPlayerEID(p) \in EIDs /\ eidCtr' \in [Pods -> 0..MaxEID]
  BY Bounds DEF Login, TypeOK, MintPlayerEID, EIDs
<1>2. [who |-> w, eid |-> MintPlayerEID(p), dim |-> Overworld, rev |-> 0] \in Snaps
  BY <1>1, Bounds, ConstantsAssumption DEF Snaps
<1>3. ses' \in [Sessions -> Session \cup {Unused}]
  <2>1. Joining(w, p, [who |-> w, eid |-> MintPlayerEID(p), dim |-> Overworld, rev |-> 0])
          \in Session
    BY <1>2, JoiningType
  <2>. QED
    BY <2>1 DEF Login, TypeOK
<1>4. home' \in [Players -> Sessions \cup {Offline}]
  BY DEF Login, TypeOK
<1>5. minted' \in Histories
  <2>1. \A e \in EIDs, b \in BOOLEAN :
          [minted EXCEPT !.eids = @ \cup {e}, !.twice = b] \in Histories
    <3>1. minted \in Histories
      BY DEF TypeOK
    <3>2. \A e \in EIDs : minted.eids \cup {e} \in SUBSET EIDs
      BY <3>1 DEF Histories
    <3>. QED
      BY <3>1, <3>2 DEF Histories
  <2>2. (minted.twice \/ MintPlayerEID(p) \in minted.eids) \in BOOLEAN
    BY DEF TypeOK, Histories
  <2>. QED
    BY <1>1, <2>1, <2>2 DEF Login
<1>. QED
  BY <1>1, <1>3, <1>4, <1>5 DEF Login, TypeOK

\* A handled join leaves the state typed.
LEMMA OnJoinType ==
  ASSUME TypeOK, NEW s \in Sessions, OnJoin(s)
  PROVE  TypeOK'
<1>1. ses[s] \in Session
  BY DEF OnJoin, TypeOK
<1>2. [pod |-> ses[s].pod, ses |-> s, mig |-> FALSE, snap |-> ses[s].snap] \in Tracked
  BY <1>1 DEF Session, Tracked
<1>3. ents' \subseteq Tracked
  <2>1. ents \subseteq Tracked
    BY DEF TypeOK
  <2>2. ents' \subseteq
          ents \cup {[pod |-> ses[s].pod, ses |-> s, mig |-> FALSE, snap |-> ses[s].snap]}
    BY DEF OnJoin
  <2>. QED
    BY <1>2, <2>1, <2>2
<1>4. [ses[s] EXCEPT !.st = "live"] \in Session
  BY <1>1 DEF Session
<1>5. ses' \in [Sessions -> Session \cup {Unused}]
  BY <1>4 DEF OnJoin, TypeOK
<1>. QED
  BY <1>3, <1>5 DEF OnJoin, TypeOK

\* A handled leave leaves the state typed.
LEMMA OnLeaveType ==
  ASSUME TypeOK, NEW s \in Sessions, OnLeave(s)
  PROVE  TypeOK'
<1>1. ses[s] \in Session
  BY DEF OnLeave, TypeOK
<1>2. ents' \subseteq ents /\ ents \subseteq Tracked
  BY DEF OnLeave, TypeOK
<1>3. [ses[s] EXCEPT !.st = "left"] \in Session
  BY <1>1 DEF Session
<1>4. ses' \in [Sessions -> Session \cup {Unused}]
  BY <1>3 DEF OnLeave, TypeOK
<1>5. faults' \in FaultCounts
  <2>1. faults \in FaultCounts
    BY DEF TypeOK
  <2>2. \/ faults' = faults
        \/ faults.stale < MaxStale /\ faults' = [faults EXCEPT !.stale = @ + 1]
    BY DEF OnLeave
  <2>. QED
    BY <2>1, <2>2, FaultsType
<1>. QED
  BY <1>2, <1>4, <1>5 DEF OnLeave, TypeOK

\* A change to a player leaves the state typed.
LEMMA ChangeType ==
  ASSUME TypeOK, NEW t \in ents, LocalChange(t)
  PROVE  TypeOK'
<1>1. t \in Tracked /\ t.snap \in Snaps
  BY DEF TypeOK, Tracked
<1>2. [t EXCEPT !.snap.rev = @ + 1] \in Tracked
  BY <1>1, Bounds DEF LocalChange, Tracked, Snaps
<1>3. ents' \subseteq Tracked
  <2>1. ents \subseteq Tracked
    BY DEF TypeOK
  <2>2. ents' \subseteq ents \cup {[t EXCEPT !.snap.rev = @ + 1]}
    BY DEF LocalChange
  <2>. QED
    BY <1>2, <2>1, <2>2
<1>4. UNCHANGED <<mobs, filed, handoffs, pending, ses, rehomes, home, links, wire, eidCtr,
                  migSeq, faults, minted>>
  BY DEF LocalChange
<1>. QED
  BY <1>3, <1>4 DEF TypeOK

\* A connection's change of dimension leaves the state typed.
LEMMA SwitchDimType ==
  ASSUME TypeOK, NEW s \in Sessions, NEW d \in Dims, SwitchDim(s, d)
  PROVE  TypeOK'
<1>1. ses[s] \in Session
  BY DEF SwitchDim, TypeOK
<1>2. [ses[s] EXCEPT !.dim = d, !.moving = TRUE] \in Session
  BY <1>1 DEF Session
<1>3. ses' \in [Sessions -> Session \cup {Unused}]
  BY <1>2 DEF SwitchDim, TypeOK
<1>4. UNCHANGED <<ents, mobs, filed, handoffs, pending, rehomes, home, links, wire, eidCtr,
                  migSeq, faults, minted>>
  BY DEF SwitchDim
<1>. QED
  BY <1>3, <1>4 DEF TypeOK

\* ... and so does the hub's half of it.
LEMMA OnDimSwitchType ==
  ASSUME TypeOK, NEW s \in Sessions, OnDimSwitch(s)
  PROVE  TypeOK'
<1>1. ses[s] \in Session /\ ses[s].dim \in Dims
  BY DEF OnDimSwitch, TypeOK, Session
<1>2. [ses[s] EXCEPT !.moving = FALSE] \in Session
  BY <1>1 DEF Session
<1>3. ses' \in [Sessions -> Session \cup {Unused}]
  BY <1>2 DEF OnDimSwitch, TypeOK
<1>4. ents' \subseteq Tracked
  <2>1. ents \subseteq Tracked
    BY DEF TypeOK
  <2>2. \A t \in Tracked : [t EXCEPT !.snap.dim = ses[s].dim] \in Tracked
    BY <1>1 DEF Tracked, Snaps
  <2>3. \A u \in ents' : u \in ents \/ \E t \in ents : u = [t EXCEPT !.snap.dim = ses[s].dim]
    BY DEF OnDimSwitch, Here
  <2>. QED
    BY <2>1, <2>2, <2>3
<1>5. UNCHANGED <<mobs, filed, handoffs, pending, rehomes, home, links, wire, eidCtr,
                  migSeq, faults, minted>>
  BY DEF OnDimSwitch
<1>. QED
  BY <1>3, <1>4, <1>5 DEF TypeOK

\* A migration id is a token, and minting one leaves the history typed.
LEMMA MintType ==
  ASSUME TypeOK, NEW p \in Pods
  PROVE  /\ [sid |-> p, n |-> migSeq[p] + 1] \in Tokens
         /\ [migSeq EXCEPT ![p] = @ + 1] \in [Pods -> Nat]
         /\ \A b \in BOOLEAN :
              [minted EXCEPT !.toks = @ \cup {[sid |-> p, n |-> migSeq[p] + 1]}, !.twice = b]
                \in Histories
<1>1. migSeq[p] \in Nat
  BY DEF TypeOK
<1>2. [sid |-> p, n |-> migSeq[p] + 1] \in Tokens
  BY <1>1 DEF Tokens
<1>3. [migSeq EXCEPT ![p] = @ + 1] \in [Pods -> Nat]
  BY <1>1 DEF TypeOK
<1>4. \A k \in Tokens, b \in BOOLEAN :
        [minted EXCEPT !.toks = @ \cup {k}, !.twice = b] \in Histories
  <2>1. minted \in Histories
    BY DEF TypeOK
  <2>2. \A k \in Tokens : minted.toks \cup {k} \in SUBSET Tokens
    BY <2>1 DEF Histories
  <2>. QED
    BY <2>1, <2>2 DEF Histories
<1>. QED
  BY <1>2, <1>3, <1>4

\* A player's seam crossing, sent or rolled back, leaves the state typed.
LEMMA CrossSeamType ==
  ASSUME TypeOK, NEW t \in ents, NEW q \in Pods, CrossSeam(t, q)
  PROVE  TypeOK'
<1>. DEFINE tok == [sid |-> t.pod, n |-> migSeq[t.pod] + 1]
<1>1. t \in Tracked /\ t.pod \in Pods /\ t.ses \in Sessions /\ t.snap \in Snaps
  BY DEF TypeOK, Tracked
<1>2. /\ tok \in Tokens
      /\ migSeq' \in [Pods -> Nat]
      /\ minted' \in Histories
  <2>1. /\ migSeq' = [migSeq EXCEPT ![t.pod] = @ + 1]
        /\ minted' = [minted EXCEPT !.toks = @ \cup {tok},
                                    !.twice = @ \/ tok \in minted.toks]
    BY DEF CrossSeam
  <2>2. (minted.twice \/ tok \in minted.toks) \in BOOLEAN
    BY DEF TypeOK, Histories
  <2>. HIDE DEF tok
  <2>3. tok = [sid |-> t.pod, n |-> migSeq[t.pod] + 1]
    BY DEF tok
  <2>. QED
    BY <1>1, <2>1, <2>2, <2>3, MintType
<1>3. UNCHANGED <<mobs, filed, pending, ses, rehomes, home, eidCtr>>
  BY DEF CrossSeam
<1>4. CASE /\ ents' = (ents \ {t}) \cup {[t EXCEPT !.mig = TRUE]}
           /\ handoffs' = handoffs \cup
                {[tok |-> tok, ses |-> t.ses, eid |-> t.snap.eid, dest |-> q]}
           /\ Send(t.pod, q, [typ |-> "migrate", tok |-> tok, snap |-> t.snap])
           /\ UNCHANGED <<links, faults>>
  <2>. HIDE DEF tok
  <2>1. [t EXCEPT !.mig = TRUE] \in Tracked
    BY <1>1 DEF Tracked
  <2>2. ents' \subseteq Tracked
    <3>1. ents \subseteq Tracked
      BY DEF TypeOK
    <3>. QED
      BY <1>4, <2>1, <3>1
  <2>3. [tok |-> tok, ses |-> t.ses, eid |-> t.snap.eid, dest |-> q] \in Handoff
    BY <1>1, <1>2 DEF Handoff, Snaps
  <2>4. handoffs' \subseteq Handoff
    BY <1>4, <2>3 DEF TypeOK
  <2>5. [typ |-> "migrate", tok |-> tok, snap |-> t.snap] \in Frames
    BY <1>1, <1>2 DEF Frames, Migrates
  <2>6. wire \in [Links -> Seq(Frames)]
    BY DEF TypeOK, Links
  <2>7. wire' \in [Pods \X Pods -> Seq(Frames)]
    BY <1>1, <1>4, <2>5, <2>6, SendType DEF Links
  <2>. QED
    BY <1>2, <1>3, <1>4, <2>2, <2>4, <2>7 DEF TypeOK
<1>5. CASE BreakLink(t.pod, q) /\ UNCHANGED <<ents, handoffs>>
  <2>1. /\ links' \subseteq Pairs
        /\ wire' \in [Pods \X Pods -> Seq(Frames)]
        /\ faults' \in FaultCounts
    <3>1. BreakLink(t.pod, q)
      BY <1>5
    <3>2. [Links -> Seq(Frames)] = [Pods \X Pods -> Seq(Frames)]
      BY DEF Links
    <3>. QED
      BY <1>1, <3>1, <3>2, BreakType
  <2>. QED
    BY <1>2, <1>3, <1>5, <2>1 DEF TypeOK
<1>. QED
  BY <1>4, <1>5 DEF CrossSeam

\* A mob save and a mob's crossing leave the state typed.
LEMMA MobStepType ==
  ASSUME TypeOK, NEW m \in mobs, NEW q \in Pods, MobMove(m, q)
  PROVE  TypeOK'
<1>. DEFINE tok == [sid |-> m.pod, n |-> migSeq[m.pod] + 1]
<1>1. m \in Mob /\ m.pod \in Pods /\ m.id \in Mobs /\ m.dim \in Dims
  BY DEF TypeOK, Mob
<1>2. /\ tok \in Tokens
      /\ migSeq' \in [Pods -> Nat]
      /\ minted' \in Histories
  <2>1. /\ migSeq' = [migSeq EXCEPT ![m.pod] = @ + 1]
        /\ minted' = [minted EXCEPT !.toks = @ \cup {tok},
                                    !.twice = @ \/ tok \in minted.toks]
    BY DEF MobMove
  <2>2. (minted.twice \/ tok \in minted.toks) \in BOOLEAN
    BY DEF TypeOK, Histories
  <2>. HIDE DEF tok
  <2>3. tok = [sid |-> m.pod, n |-> migSeq[m.pod] + 1]
    BY DEF tok
  <2>. QED
    BY <1>1, <2>1, <2>2, <2>3, MintType
<1>3. UNCHANGED <<ents, filed, handoffs, pending, ses, rehomes, home, eidCtr>>
  BY DEF MobMove
<1>4. CASE /\ mobs' = mobs \ Removed(m)
           /\ Send(m.pod, q, [typ |-> "mob", tok |-> tok, id |-> m.id, dim |-> m.dim])
           /\ UNCHANGED <<links, faults>>
  <2>. HIDE DEF tok
  <2>1. mobs' \subseteq Mob
    BY <1>4 DEF TypeOK
  <2>2. [typ |-> "mob", tok |-> tok, id |-> m.id, dim |-> m.dim] \in Frames
    BY <1>1, <1>2 DEF Frames, MobMoves
  <2>3. wire \in [Links -> Seq(Frames)]
    BY DEF TypeOK, Links
  <2>4. wire' \in [Pods \X Pods -> Seq(Frames)]
    BY <1>1, <1>4, <2>2, <2>3, SendType DEF Links
  <2>. QED
    BY <1>2, <1>3, <1>4, <2>1, <2>4 DEF TypeOK
<1>5. CASE BreakLink(m.pod, q) /\ UNCHANGED mobs
  <2>1. /\ links' \subseteq Pairs
        /\ wire' \in [Pods \X Pods -> Seq(Frames)]
        /\ faults' \in FaultCounts
    <3>1. BreakLink(m.pod, q)
      BY <1>5
    <3>2. [Links -> Seq(Frames)] = [Pods \X Pods -> Seq(Frames)]
      BY DEF Links
    <3>. QED
      BY <1>1, <3>1, <3>2, BreakType
  <2>. QED
    BY <1>2, <1>3, <1>5, <2>1 DEF TypeOK
<1>. QED
  BY <1>4, <1>5 DEF MobMove

\* A frame at the head of a direction is a frame, of the set its type names.
LEMMA HeadType ==
  ASSUME TypeOK, NEW q \in Pods, NEW p \in Pods, wire[<<q, p>>] # <<>>
  PROVE  LET m == Head(wire[<<q, p>>]) IN
         /\ m.typ = "migrate" => m \in Migrates
         /\ m.typ = "mob" => m \in MobMoves
         /\ m.typ = "ack" => m \in Acks
<1>1. wire \in [Links -> Seq(Frames)]
  BY DEF TypeOK, Links
<1>2. Head(wire[<<q, p>>]) \in Frames
  BY <1>1, TakenType
<1>. QED
  BY <1>2 DEF Frames, Migrates, MobMoves, Acks

\* Taking a frame, and answering it with an ack, leave a wire.
LEMMA AckType ==
  ASSUME TypeOK, NEW q \in Pods, NEW p \in Pods, wire[<<q, p>>] # <<>>,
         NEW m, m.tok \in Tokens, NEW b \in BOOLEAN
  PROVE  /\ Taken(q, p) \in [Pods \X Pods -> Seq(Frames)]
         /\ AckOf(q, p, m, b) \in [Pods \X Pods -> Seq(Frames)]
<1>1. wire \in [Links -> Seq(Frames)]
  BY DEF TypeOK, Links
<1>2. [typ |-> "ack", tok |-> m.tok, ok |-> b] \in Frames
  BY DEF Frames, Acks
<1>3. Taken(q, p) \in [Links -> Seq(Frames)]
  BY <1>1, TakenType
<1>4. AckOf(q, p, m, b) \in [Links -> Seq(Frames)]
  BY <1>1, <1>2, AnsweredType DEF AckOf
<1>. QED
  BY <1>3, <1>4 DEF Links

\* A migrated player, held or refused, leaves the state typed.
LEMMA ApplyMigrationType ==
  ASSUME TypeOK, NEW q \in Pods, NEW p \in Pods, ApplyMigration(q, p)
  PROVE  TypeOK'
<1>. DEFINE m == Head(wire[<<q, p>>])
<1>1. wire[<<q, p>>] # <<>> /\ m.typ = "migrate"
  BY DEF ApplyMigration, Arrives
<1>2. m \in Migrates
  BY <1>1, HeadType
<1>3. m.tok \in Tokens /\ m.snap \in Snaps
  BY <1>2 DEF Migrates
<1>4. pending' \subseteq Pending
  <2>1. [pod |-> p, tok |-> m.tok, snap |-> m.snap] \in Pending
    BY <1>3 DEF Pending
  <2>2. pending' \subseteq pending \cup {[pod |-> p, tok |-> m.tok, snap |-> m.snap]}
    BY DEF ApplyMigration, Held
  <2>3. pending \subseteq Pending
    BY DEF TypeOK
  <2>. QED
    BY <2>1, <2>2, <2>3
<1>5. wire' \in [Pods \X Pods -> Seq(Frames)]
  <2>1. wire' = AckOf(q, p, m, m.snap.dim \in DimsOf[p])
    BY DEF ApplyMigration
  <2>2. wire[<<q, p>>] # <<>> /\ m.tok \in Tokens
    BY <1>1, <1>3
  <2>3. \A b \in BOOLEAN : AckOf(q, p, m, b) \in [Pods \X Pods -> Seq(Frames)]
    <3>. HIDE DEF m
    <3>. QED
      BY <2>2, AckType
  <2>4. (m.snap.dim \in DimsOf[p]) \in BOOLEAN
    OBVIOUS
  <2>. HIDE DEF m
  <2>. QED
    BY <2>1, <2>3, <2>4
<1>6. UNCHANGED <<ents, mobs, filed, handoffs, ses, rehomes, home, links, eidCtr, migSeq,
                  faults, minted>>
  BY DEF ApplyMigration
<1>. QED
  BY <1>4, <1>5, <1>6 DEF TypeOK

\* A migrated mob, spawned or refused, leaves the state typed.
LEMMA ApplyMobMigrationType ==
  ASSUME TypeOK, NEW q \in Pods, NEW p \in Pods, ApplyMobMigration(q, p)
  PROVE  TypeOK'
<1>. DEFINE m == Head(wire[<<q, p>>])
<1>1. wire[<<q, p>>] # <<>> /\ m.typ = "mob"
  BY DEF ApplyMobMigration, Arrives
<1>2. m \in MobMoves
  BY <1>1, HeadType
<1>3. m.tok \in Tokens /\ m.id \in Mobs /\ m.dim \in Dims
  BY <1>2 DEF MobMoves
<1>4. mobs' \subseteq Mob
  <2>1. [pod |-> p, id |-> m.id, dim |-> m.dim] \in Mob
    BY <1>3 DEF Mob
  <2>2. mobs' \subseteq mobs \cup {[pod |-> p, id |-> m.id, dim |-> m.dim]}
    BY DEF ApplyMobMigration
  <2>3. mobs \subseteq Mob
    BY DEF TypeOK
  <2>. QED
    BY <2>1, <2>2, <2>3
<1>5. wire' \in [Pods \X Pods -> Seq(Frames)]
  <2>1. wire' = Taken(q, p) \/ wire' = AckOf(q, p, m, FALSE)
    BY DEF ApplyMobMigration
  <2>2. wire[<<q, p>>] # <<>> /\ m.tok \in Tokens
    BY <1>1, <1>3
  <2>. HIDE DEF m
  <2>3. Taken(q, p) \in [Pods \X Pods -> Seq(Frames)]
    BY <2>2, AckType
  <2>4. \A b \in BOOLEAN : AckOf(q, p, m, b) \in [Pods \X Pods -> Seq(Frames)]
    BY <2>2, AckType
  <2>. QED
    BY <2>1, <2>3, <2>4
<1>6. UNCHANGED <<ents, filed, handoffs, pending, ses, rehomes, home, links, eidCtr,
                  migSeq, faults, minted>>
  BY DEF ApplyMobMigration
<1>. QED
  BY <1>4, <1>5, <1>6 DEF TypeOK

\* A release, a thaw and a stray ack leave the state typed.
LEMMA FinishHandoverType ==
  ASSUME TypeOK, NEW q \in Pods, NEW p \in Pods, FinishHandover(q, p)
  PROVE  TypeOK'
<1>. DEFINE m    == Head(wire[<<q, p>>])
            mine == {h \in handoffs : h.tok = m.tok /\ h.tok.sid = p}
            frozen == {t \in ents : \E h \in mine : t.pod = p /\ t.ses = h.ses}
<1>1. wire[<<q, p>>] # <<>> /\ m.typ = "ack"
  BY DEF FinishHandover, Arrives
<1>2. m.tok \in Tokens
  BY <1>1, HeadType DEF Acks
<1>3. wire' \in [Pods \X Pods -> Seq(Frames)]
  BY <1>1, <1>2, AckType DEF FinishHandover
<1>4. handoffs' \subseteq Handoff /\ mine \subseteq Handoff
  BY DEF FinishHandover, TypeOK
<1>5. UNCHANGED <<mobs, filed, pending, ses, home, links, eidCtr, migSeq, minted>>
  BY DEF FinishHandover
<1>6. CASE m.ok
  <2>1. ents' \subseteq ents
    BY <1>6 DEF FinishHandover
  <2>2. rehomes' \subseteq
          rehomes \cup {[ses |-> h.ses, dest |-> h.dest, tok |-> h.tok] : h \in mine}
    BY <1>6 DEF FinishHandover
  <2>3. \A h \in Handoff : [ses |-> h.ses, dest |-> h.dest, tok |-> h.tok] \in Rehome
    BY DEF Handoff, Rehome
  <2>4. rehomes' \subseteq Rehome
    <3>1. rehomes \subseteq Rehome
      BY DEF TypeOK
    <3>. QED
      BY <1>4, <2>2, <2>3, <3>1
  <2>5. faults' \in FaultCounts
    <3>1. faults \in FaultCounts
      BY DEF TypeOK
    <3>2. \/ faults' = faults
          \/ faults.full < MaxFull /\ faults' = [faults EXCEPT !.full = @ + 1]
      BY <1>6 DEF FinishHandover
    <3>. QED
      BY <3>1, <3>2, FaultsType
  <2>. QED
    BY <1>3, <1>4, <1>5, <2>1, <2>4, <2>5 DEF TypeOK
<1>7. CASE ~ m.ok
  <2>1. ents' = {t \in ents : t \notin frozen}
                  \cup {[t EXCEPT !.mig = FALSE] : t \in frozen}
    BY <1>7 DEF FinishHandover
  <2>2. \A t \in Tracked : [t EXCEPT !.mig = FALSE] \in Tracked
    BY DEF Tracked
  <2>3. ents' \subseteq Tracked
    <3>1. ents \subseteq Tracked
      BY DEF TypeOK
    <3>. QED
      BY <2>1, <2>2, <3>1
  <2>4. UNCHANGED <<rehomes, faults>>
    BY <1>7 DEF FinishHandover
  <2>. QED
    BY <1>3, <1>4, <1>5, <2>3, <2>4 DEF TypeOK
<1>. QED
  BY <1>6, <1>7

\* A re-attach, honoured or refused, leaves the state typed.
LEMMA ResumeType ==
  ASSUME TypeOK, NEW w \in Players, NEW s \in Sessions, NEW r \in rehomes, Resume(w, s, r)
  PROVE  TypeOK'
<1>1. r \in Rehome /\ r.dest \in Pods
  BY DEF TypeOK, Rehome
<1>2. rehomes' \subseteq rehomes /\ pending' \subseteq pending
  BY DEF Resume
<1>3. home' \in [Players -> Sessions \cup {Offline}]
  <2>1. home' = [home EXCEPT ![w] = Offline] \/ home' = [home EXCEPT ![w] = s]
    BY DEF Resume
  <2>. QED
    BY <2>1 DEF TypeOK
<1>4. ses' \in [Sessions -> Session \cup {Unused}]
  <2>1. CASE UNCHANGED ses
    BY <2>1 DEF TypeOK
  <2>2. CASE \E x \in Claimed(r) : ses' = [ses EXCEPT ![s] = Joining(w, r.dest, x.snap)]
    <3>1. PICK x \in Claimed(r) : ses' = [ses EXCEPT ![s] = Joining(w, r.dest, x.snap)]
      BY <2>2
    <3>2. x.snap \in Snaps
      BY <3>1 DEF Claimed, TypeOK, Pending
    <3>3. Joining(w, r.dest, x.snap) \in Session
      BY <1>1, <3>2, JoiningType
    <3>. QED
      BY <3>1, <3>3 DEF TypeOK
  <2>. QED
    BY <2>1, <2>2 DEF Resume
<1>5. UNCHANGED <<ents, mobs, filed, handoffs, links, wire, eidCtr, migSeq, faults, minted>>
  BY DEF Resume
<1>. QED
  BY <1>2, <1>3, <1>4, <1>5 DEF TypeOK

\* A hang-up leaves the state typed.
LEMMA CloseType ==
  ASSUME TypeOK, NEW s \in Sessions, Close(s)
  PROVE  TypeOK'
<1>1. ses[s] \in Session
  BY DEF Close, TypeOK
<1>2. [ses[s] EXCEPT !.closed = TRUE] \in Session
  BY <1>1 DEF Session
<1>3. ses' \in [Sessions -> Session \cup {Unused}]
  BY <1>2 DEF Close, TypeOK
<1>4. UNCHANGED <<ents, mobs, filed, handoffs, pending, rehomes, home, links, wire, eidCtr,
                  migSeq, faults, minted>>
  BY DEF Close
<1>. QED
  BY <1>3, <1>4 DEF TypeOK

\* A restart leaves the state typed.
LEMMA RestartType ==
  ASSUME TypeOK, NEW p \in Pods, Restart(p)
  PROVE  TypeOK'
<1>. DEFINE dead == {s \in Opened : ses[s].pod = p}
<1>1. ents' \subseteq ents /\ handoffs' \subseteq handoffs /\ pending' \subseteq pending
  BY DEF Restart
<1>2. mobs' \subseteq mobs \cup filed
  BY DEF Restart
<1>3. rehomes' \subseteq rehomes
  BY DEF Restart
<1>4. ses' \in [Sessions -> Session \cup {Unused}]
  <2>1. ses' = [s \in Sessions |->
          IF s \in dead THEN [ses[s] EXCEPT !.st = "left", !.closed = TRUE, !.moving = FALSE]
          ELSE ses[s]]
    BY DEF Restart
  <2>2. \A s \in dead : ses[s] \in Session
    BY DEF Opened, TypeOK
  <2>3. \A s \in dead : [ses[s] EXCEPT !.st = "left", !.closed = TRUE, !.moving = FALSE] \in Session
    BY <2>2 DEF Session
  <2>4. \A s \in Sessions : ses[s] \in Session \cup {Unused}
    BY DEF TypeOK
  <2>. QED
    BY <2>1, <2>3, <2>4
<1>5. wire' \in [Pods \X Pods -> Seq(Frames)]
  <2>1. wire' = [l \in Pods \X Pods |-> IF l[2] = p THEN <<>> ELSE wire[l]]
    BY DEF Restart
  <2>2. \A l \in Pods \X Pods : wire[l] \in Seq(Frames)
    BY DEF TypeOK
  <2>3. <<>> \in Seq(Frames)
    OBVIOUS
  <2>. QED
    BY <2>1, <2>2, <2>3
<1>6. eidCtr' \in [Pods -> 0..MaxEID] /\ migSeq' \in [Pods -> Nat]
  <2>1. 0 \in 0..MaxEID /\ 0 \in Nat
    BY Bounds
  <2>2. eidCtr' = [eidCtr EXCEPT ![p] = 0] /\ migSeq' = [migSeq EXCEPT ![p] = 0]
    BY DEF Restart
  <2>3. eidCtr \in [Pods -> 0..MaxEID] /\ migSeq \in [Pods -> Nat]
    BY DEF TypeOK
  <2>. QED
    BY <2>1, <2>2, <2>3
<1>7. faults' \in FaultCounts
  BY FaultsType DEF Restart, TypeOK
<1>8. UNCHANGED <<filed, home, links, minted>>
  BY DEF Restart
<1>. QED
  BY <1>1, <1>2, <1>3, <1>4, <1>5, <1>6, <1>7, <1>8 DEF TypeOK

\* Every step leaves the state typed.
LEMMA TypeStep == TypeOK /\ [Next]_vars => TypeOK'
<1>. SUFFICES ASSUME TypeOK, [Next]_vars PROVE TypeOK'
  OBVIOUS
<1>1. CASE UNCHANGED vars
  BY <1>1 DEF vars, TypeOK
<1>2. CASE HubStep
  <2>1. ASSUME NEW s \in Sessions, OnJoin(s) \/ OnLeave(s) \/ OnDimSwitch(s) PROVE TypeOK'
    BY <2>1, OnJoinType, OnLeaveType, OnDimSwitchType
  <2>2. ASSUME NEW t \in ents, LocalChange(t) PROVE TypeOK'
    BY <2>2, ChangeType
  <2>3. ASSUME NEW t \in ents, NEW q \in Pods, CrossSeam(t, q) PROVE TypeOK'
    BY <2>3, CrossSeamType
  <2>4. ASSUME NEW m \in mobs, NEW q \in Pods, MobMove(m, q) PROVE TypeOK'
    BY <2>4, MobStepType
  <2>5. ASSUME NEW p \in Pods, SaveMobs(p) PROVE TypeOK'
    <3>1. filed' \subseteq filed \cup mobs
      BY <2>5 DEF SaveMobs
    <3>2. UNCHANGED <<ents, mobs, handoffs, pending, ses, rehomes, home, links, wire,
                      eidCtr, migSeq, faults, minted>>
      BY <2>5 DEF SaveMobs
    <3>. QED
      BY <3>1, <3>2 DEF TypeOK
  <2>6. ASSUME NEW q \in Pods, NEW p \in Pods,
               ApplyMigration(q, p) \/ ApplyMobMigration(q, p) \/ FinishHandover(q, p)
        PROVE  TypeOK'
    BY <2>6, ApplyMigrationType, ApplyMobMigrationType, FinishHandoverType
  <2>. QED
    BY <1>2, <2>1, <2>2, <2>3, <2>4, <2>5, <2>6 DEF HubStep
<1>3. CASE GatewayStep
  <2>1. ASSUME NEW w \in Players, NEW s \in Sessions, NEW p \in Pods, Login(w, s, p)
        PROVE  TypeOK'
    BY <2>1, LoginType
  <2>2. ASSUME NEW w \in Players, NEW s \in Sessions, NEW r \in rehomes, Resume(w, s, r)
        PROVE  TypeOK'
    BY <2>2, ResumeType
  <2>3. ASSUME NEW w \in Players, Quit(w) PROVE TypeOK'
    <3>1. home' \in [Players -> Sessions \cup {Offline}]
      BY <2>3 DEF Quit, TypeOK
    <3>2. UNCHANGED <<ents, mobs, filed, handoffs, pending, ses, rehomes, links, wire,
                      eidCtr, migSeq, faults, minted>>
      BY <2>3 DEF Quit
    <3>. QED
      BY <3>1, <3>2 DEF TypeOK
  <2>4. ASSUME NEW s \in Sessions, Close(s) PROVE TypeOK'
    BY <2>4, CloseType
  <2>5. ASSUME NEW s \in Sessions, NEW d \in Dims, SwitchDim(s, d) PROVE TypeOK'
    BY <2>5, SwitchDimType
  <2>. QED
    BY <1>3, <2>1, <2>2, <2>3, <2>4, <2>5 DEF GatewayStep
<1>4. CASE FaultStep
  <2>1. ASSUME NEW p \in Pods, NEW q \in Pods, LinkDrop(p, q) PROVE TypeOK'
    <3>1. /\ links' \subseteq Pairs
          /\ wire' \in [Links -> Seq(Frames)]
          /\ faults' \in FaultCounts
      BY <2>1, BreakType DEF LinkDrop
    <3>2. UNCHANGED <<ents, mobs, filed, handoffs, pending, ses, rehomes, home, eidCtr,
                      migSeq, minted>>
      BY <2>1 DEF LinkDrop
    <3>. QED
      BY <3>1, <3>2 DEF TypeOK, Links
  <2>2. ASSUME NEW p \in Pods, NEW q \in Pods, LinkUp(p, q) PROVE TypeOK'
    <3>1. links' \subseteq Pairs
      BY <2>2 DEF LinkUp, TypeOK, Pairs
    <3>2. UNCHANGED <<ents, mobs, filed, handoffs, pending, ses, rehomes, home, wire,
                      eidCtr, migSeq, faults, minted>>
      BY <2>2 DEF LinkUp
    <3>. QED
      BY <3>1, <3>2 DEF TypeOK
  <2>3. ASSUME NEW p \in Pods, Restart(p) PROVE TypeOK'
    BY <2>3, RestartType
  <2>. QED
    BY <1>4, <2>1, <2>2, <2>3 DEF FaultStep
<1>. QED
  BY <1>1, <1>2, <1>3, <1>4 DEF Next

\* Every variable of the hand-over always holds what the code keeps in it.
THEOREM TypeCorrect == Spec => []TypeOK
BY TypeInit, TypeStep, PTL DEF Spec

(***************************************************************************)
(* A mob is in one place.                                                  *)
(***************************************************************************)

\* At place i of direction l there is a frame that carries a mob.
Rides(l, i) == i \in DOMAIN wire[l] /\ wire[l][i].typ = "mob"

\* No mob is simulated twice, or sent twice, or both.
Apart ==
  /\ \A m, n \in mobs : m.id = n.id => m = n
  /\ \A l, k \in Links, i, j \in Nat :
       Rides(l, i) /\ Rides(k, j) /\ wire[l][i].id = wire[k][j].id => l = k /\ i = j
  /\ \A m \in mobs, l \in Links, i \in Nat : Rides(l, i) => wire[l][i].id # m.id

\* What makes MobOnce inductive.
MobInv == faults.restart = 0 => Apart

\* The mobs on direction l after the step were d places further back in it before.
Moved(l, d) ==
  \A i \in Nat : Rides(l, i)' => Rides(l, i + d) /\ wire'[l][i] = wire[l][i + d]

\* Frames lost, and frames read, leave the mobs apart.
LEMMA ApartKept ==
  ASSUME Apart, mobs' \subseteq mobs,
         \A l \in Links : \E d \in Nat : Moved(l, d)
  PROVE  Apart'
<1>1. PICK d \in [Links -> Nat] : \A l \in Links : Moved(l, d[l])
  <2>. DEFINE d == [l \in Links |-> CHOOSE n \in Nat : Moved(l, n)]
  <2>1. d \in [Links -> Nat] /\ \A l \in Links : Moved(l, d[l])
    OBVIOUS
  <2>. QED
    BY <2>1
<1>2. ASSUME NEW l \in Links, NEW k \in Links, NEW i \in Nat, NEW j \in Nat,
             Rides(l, i)', Rides(k, j)', wire'[l][i].id = wire'[k][j].id
      PROVE  l = k /\ i = j
  <2>1. /\ Rides(l, i + d[l]) /\ wire'[l][i] = wire[l][i + d[l]]
        /\ Rides(k, j + d[k]) /\ wire'[k][j] = wire[k][j + d[k]]
        /\ i + d[l] \in Nat /\ j + d[k] \in Nat
    BY <1>1, <1>2 DEF Moved
  <2>2. l = k /\ i + d[l] = j + d[k]
    BY <1>2, <2>1 DEF Apart
  <2>. QED
    BY <2>2
<1>3. ASSUME NEW m \in mobs', NEW l \in Links, NEW i \in Nat, Rides(l, i)'
      PROVE  wire'[l][i].id # m.id
  <2>1. Rides(l, i + d[l]) /\ wire'[l][i] = wire[l][i + d[l]] /\ i + d[l] \in Nat
    BY <1>1, <1>3 DEF Moved
  <2>. QED
    BY <2>1 DEF Apart
<1>4. \A m, n \in mobs' : m.id = n.id => m = n
  BY DEF Apart
<1>5. \A l, k \in Links, i, j \in Nat :
        Rides(l, i)' /\ Rides(k, j)' /\ wire'[l][i].id = wire'[k][j].id => l = k /\ i = j
  BY <1>2
<1>6. \A m \in mobs', l \in Links, i \in Nat : Rides(l, i)' => wire'[l][i].id # m.id
  BY <1>3
<1>. QED
  BY <1>4, <1>5, <1>6 DEF Apart, Rides

\* A direction of which a prefix, or the rest behind the first frame, is left,
\* and one that has an ack appended.
LEMMA PrefixMoved ==
  ASSUME NEW l \in Links, wire[l] \in Seq(Frames),
         \/ wire'[l] = wire[l]
         \/ wire'[l] = <<>>
         \/ \E n \in 0..Len(wire[l]) : wire'[l] = SubSeq(wire[l], 1, n)
  PROVE  Moved(l, 0)
<1>. SUFFICES ASSUME NEW i \in Nat, Rides(l, i)'
              PROVE  Rides(l, i) /\ wire'[l][i] = wire[l][i]
  BY DEF Moved, Rides
<1>1. CASE wire'[l] = wire[l]
  BY <1>1 DEF Rides
<1>2. CASE wire'[l] = <<>>
  BY <1>2 DEF Rides
<1>3. CASE \E n \in 0..Len(wire[l]) : wire'[l] = SubSeq(wire[l], 1, n)
  BY <1>3 DEF Rides
<1>. QED
  BY <1>1, <1>2, <1>3

LEMMA TailMoved ==
  ASSUME NEW l \in Links, wire[l] \in Seq(Frames), wire[l] # <<>>, wire'[l] = Tail(wire[l])
  PROVE  Moved(l, 1)
<1>. SUFFICES ASSUME NEW i \in Nat, Rides(l, i)'
              PROVE  Rides(l, i + 1) /\ wire'[l][i] = wire[l][i + 1]
  BY DEF Moved, Rides
<1>1. i \in 1..(Len(wire[l]) - 1) /\ i + 1 \in DOMAIN wire[l]
  BY DEF Rides
<1>2. wire'[l][i] = wire[l][i + 1]
  BY <1>1
<1>. QED
  BY <1>1, <1>2 DEF Rides

LEMMA AppendMoved ==
  ASSUME NEW l \in Links, wire[l] \in Seq(Frames), NEW m \in Frames, m.typ # "mob",
         wire'[l] = Append(wire[l], m)
  PROVE  Moved(l, 0)
<1>. SUFFICES ASSUME NEW i \in Nat, Rides(l, i)'
              PROVE  Rides(l, i) /\ wire'[l][i] = wire[l][i]
  BY DEF Moved, Rides
<1>1. i \in 1..(Len(wire[l]) + 1)
  BY DEF Rides
<1>2. i # Len(wire[l]) + 1
  BY DEF Rides
<1>. QED
  BY <1>1, <1>2 DEF Rides

\* What each wire operation does to the mobs under way.
LEMMA WireMoved ==
  ASSUME TypeOK, NEW p \in Pods, NEW q \in Pods,
         \/ \E m \in Frames : m.typ # "mob" /\ Send(p, q, m)
         \/ BreakLink(p, q)
         \/ wire[<<q, p>>] # <<>> /\ wire' = Taken(q, p)
         \/ \E m \in Frames : /\ m.typ # "mob" /\ wire[<<q, p>>] # <<>>
                              /\ wire' = Answered(q, p, m)
         \/ UNCHANGED wire
  PROVE  \A l \in Links : \E d \in Nat : Moved(l, d)
<1>. SUFFICES ASSUME NEW l \in Links PROVE \E d \in {0, 1} : Moved(l, d)
  OBVIOUS
<1>1. /\ wire \in [Links -> Seq(Frames)] /\ wire[l] \in Seq(Frames)
      /\ <<p, q>> \in Links /\ <<q, p>> \in Links
  BY DEF TypeOK, Links
<1>2. CASE \E m \in Frames : m.typ # "mob" /\ Send(p, q, m)
  <2>1. \/ wire'[l] = wire[l]
        \/ \E m \in Frames : m.typ # "mob" /\ wire'[l] = Append(wire[l], m)
    BY <1>1, <1>2 DEF Send
  <2>. QED
    BY <1>1, <2>1, PrefixMoved, AppendMoved
<1>3. CASE BreakLink(p, q)
  <2>1. PICK a \in 0..Len(wire[<<p, q>>]), b \in 0..Len(wire[<<q, p>>]) :
          wire' = Truncated(p, q, a, b)
    BY <1>3 DEF BreakLink
  <2>2. \/ wire'[l] = wire[l]
        \/ \E n \in 0..Len(wire[l]) : wire'[l] = SubSeq(wire[l], 1, n)
    BY <2>1 DEF Truncated, Links
  <2>. QED
    BY <1>1, <2>2, PrefixMoved
<1>4. CASE wire[<<q, p>>] # <<>> /\ wire' = Taken(q, p)
  <2>1. \/ wire'[l] = wire[l]
        \/ wire[l] # <<>> /\ wire'[l] = Tail(wire[l])
    BY <1>1, <1>4 DEF Taken
  <2>. QED
    BY <1>1, <2>1, PrefixMoved, TailMoved
<1>5. CASE \E m \in Frames : /\ m.typ # "mob" /\ wire[<<q, p>>] # <<>>
                             /\ wire' = Answered(q, p, m)
  <2>1. \/ wire'[l] = wire[l]
        \/ wire[l] # <<>> /\ wire'[l] = Tail(wire[l])
        \/ \E m \in Frames : m.typ # "mob" /\ wire'[l] = Append(wire[l], m)
    BY <1>1, <1>5 DEF Answered, Links
  <2>. QED
    BY <1>1, <2>1, PrefixMoved, TailMoved, AppendMoved
<1>6. CASE UNCHANGED wire
  BY <1>1, <1>6, PrefixMoved
<1>. QED
  BY <1>2, <1>3, <1>4, <1>5, <1>6

\* A mob that is sent leaves its pod in the same step.
LEMMA SentApart ==
  ASSUME TypeOK, Apart, NEW m \in mobs, NEW q \in Pods, MobMove(m, q)
  PROVE  Apart'
<1>. DEFINE tok == [sid |-> m.pod, n |-> migSeq[m.pod] + 1]
            f == [typ |-> "mob", tok |-> tok, id |-> m.id, dim |-> m.dim]
            k == <<m.pod, q>>
<1>1. m \in Mob /\ m.pod \in Pods /\ tok \in Tokens /\ k \in Links
  BY DEF TypeOK, Mob, Tokens, Links
<1>2. f \in Frames /\ f.id = m.id
  BY <1>1 DEF Frames, MobMoves, Mob
<1>3. \/ mobs' = mobs \ {m} /\ Send(m.pod, q, f)
      \/ UNCHANGED mobs /\ BreakLink(m.pod, q)
  BY DEF MobMove, Removed
<1>. HIDE DEF tok, f
<1>4. CASE UNCHANGED mobs /\ BreakLink(m.pod, q)
  BY <1>1, <1>4, WireMoved, ApartKept
<1>5. CASE mobs' = mobs \ {m} /\ Send(m.pod, q, f)
  <2>1. wire[k] \in Seq(Frames) /\ wire'[k] = Append(wire[k], f)
        /\ \A l \in Links : l # k => wire'[l] = wire[l]
    BY <1>1, <1>5 DEF Send, TypeOK, Links
  <2>. DEFINE last == Len(wire[k]) + 1
  <2>2. \A l \in Links, i \in Nat :
          Rides(l, i)' => \/ l = k /\ i = last /\ wire'[l][i] = f
                          \/ Rides(l, i) /\ wire'[l][i] = wire[l][i]
    <3>. SUFFICES ASSUME NEW l \in Links, NEW i \in Nat, Rides(l, i)'
                  PROVE  \/ l = k /\ i = last /\ wire'[l][i] = f
                         \/ Rides(l, i) /\ wire'[l][i] = wire[l][i]
      OBVIOUS
    <3>1. CASE l # k
      BY <2>1, <3>1 DEF Rides
    <3>2. CASE l = k
      <4>. HIDE DEF k
      <4>1. i \in 1..last /\ wire'[l][i].typ = "mob"
        BY <1>2, <2>1, <3>2 DEF Rides
      <4>2. CASE i = last
        BY <1>2, <2>1, <3>2, <4>2
      <4>3. CASE i # last
        <5>1. i \in DOMAIN wire[l] /\ wire'[l][i] = wire[l][i]
          BY <1>2, <2>1, <3>2, <4>1, <4>3
        <5>. QED
          BY <4>1, <5>1 DEF Rides
      <4>. QED
        BY <4>2, <4>3
    <3>. QED
      BY <3>1, <3>2
  <2>. HIDE DEF last, k
  <2>3. \A l \in Links, i \in Nat : Rides(l, i) => wire[l][i].id # m.id
    BY DEF Apart
  <2>4. \A a, b \in mobs' : a.id = b.id => a = b
    BY <1>5 DEF Apart
  <2>5. \A l, j \in Links, a, b \in Nat :
          Rides(l, a)' /\ Rides(j, b)' /\ wire'[l][a].id = wire'[j][b].id => l = j /\ a = b
    BY <1>2, <2>2, <2>3 DEF Apart
  <2>6. \A a \in mobs', l \in Links, i \in Nat : Rides(l, i)' => wire'[l][i].id # a.id
    BY <1>2, <1>5, <2>2 DEF Apart
  <2>. QED
    BY <2>4, <2>5, <2>6 DEF Apart, Rides
<1>. QED
  BY <1>3, <1>4, <1>5

\* A mob that arrives has left the wire it came by.
LEMMA ArrivedApart ==
  ASSUME TypeOK, Apart, NEW q \in Pods, NEW p \in Pods, ApplyMobMigration(q, p)
  PROVE  Apart'
<1>. DEFINE k == <<q, p>>
            m == Head(wire[k])
            no == [typ |-> "ack", tok |-> m.tok, ok |-> FALSE]
            new == [pod |-> p, id |-> m.id, dim |-> m.dim]
<1>1. wire[k] # <<>> /\ m.typ = "mob" /\ k \in Links
  BY DEF ApplyMobMigration, Arrives, Links
<1>2. wire[k] \in Seq(Frames) /\ m = wire[k][1] /\ 1 \in DOMAIN wire[k] /\ m \in Frames
  BY <1>1, TakenType DEF TypeOK, Links
<1>3. no \in Frames /\ no.typ # "mob"
  BY <1>2 DEF Frames, Migrates, MobMoves, Acks
<1>4. \/ mobs' = mobs \cup {new} /\ wire' = Taken(q, p)
      \/ UNCHANGED mobs /\ wire' = Answered(q, p, no)
  BY DEF ApplyMobMigration, AckOf
<1>5. new.id = m.id
  OBVIOUS
<1>. HIDE DEF no, new
<1>6. CASE UNCHANGED mobs /\ wire' = Answered(q, p, no)
  BY <1>1, <1>3, <1>6, WireMoved, ApartKept
<1>7. CASE mobs' = mobs \cup {new} /\ wire' = Taken(q, p)
  <2>1. /\ wire'[k] = Tail(wire[k]) /\ \A l \in Links : l # k => wire'[l] = wire[l]
        /\ \A l \in Links : wire[l] \in Seq(Frames)
    BY <1>1, <1>7 DEF Taken, TypeOK, Links
  <2>2. Moved(k, 1) /\ \A l \in Links : l # k => Moved(l, 0)
    BY <1>1, <1>2, <2>1, TailMoved, PrefixMoved
  <2>3. Rides(k, 1) /\ wire[k][1].id = new.id
    BY <1>1, <1>2, <1>5 DEF Rides
  <2>. HIDE DEF k, m
  <2>4. \A l \in Links, i \in Nat : Rides(l, i)' =>
          \E j \in Nat : /\ j = (IF l = k THEN i + 1 ELSE i)
                         /\ Rides(l, j) /\ wire'[l][i] = wire[l][j]
    BY <2>2 DEF Moved
  <2>5. \A l \in Links, i \in Nat : Rides(l, i)' => i # 0
    <3>1. \A l \in Links : wire'[l] \in Seq(Frames)
      <4>1. wire'[k] \in Seq(Frames)
        BY <1>1, <1>2, <2>1
      <4>. QED
        BY <2>1, <4>1
    <3>. QED
      BY <3>1 DEF Rides
  <2>6. \A l \in Links, i \in Nat : Rides(l, i)' => wire'[l][i].id # new.id
    <3>. SUFFICES ASSUME NEW l \in Links, NEW i \in Nat, Rides(l, i)', wire'[l][i].id = new.id
                  PROVE  FALSE
      OBVIOUS
    <3>1. PICK j \in Nat : /\ j = (IF l = k THEN i + 1 ELSE i)
                           /\ Rides(l, j) /\ wire'[l][i] = wire[l][j]
      BY <2>4
    <3>2. l = k /\ j = 1
      BY <1>1, <2>3, <3>1 DEF Apart
    <3>. QED
      BY <2>5, <3>1, <3>2
  <2>7. \A a \in mobs : a.id # new.id
    BY <1>1, <2>3 DEF Apart
  <2>8. \A a, b \in mobs' : a.id = b.id => a = b
    BY <1>7, <2>7 DEF Apart
  <2>9. \A a \in mobs', l \in Links, i \in Nat : Rides(l, i)' => wire'[l][i].id # a.id
    BY <1>7, <2>4, <2>6 DEF Apart
  <2>10. \A l, j \in Links, a, b \in Nat :
           Rides(l, a)' /\ Rides(j, b)' /\ wire'[l][a].id = wire'[j][b].id => l = j /\ a = b
    <3>. SUFFICES ASSUME NEW l \in Links, NEW j \in Links, NEW a \in Nat, NEW b \in Nat,
                         Rides(l, a)', Rides(j, b)', wire'[l][a].id = wire'[j][b].id
                  PROVE  l = j /\ a = b
      OBVIOUS
    <3>1. PICK x \in Nat : /\ x = (IF l = k THEN a + 1 ELSE a)
                           /\ Rides(l, x) /\ wire'[l][a] = wire[l][x]
      BY <2>4
    <3>2. PICK y \in Nat : /\ y = (IF j = k THEN b + 1 ELSE b)
                           /\ Rides(j, y) /\ wire'[j][b] = wire[j][y]
      BY <2>4
    <3>3. l = j /\ x = y
      BY <3>1, <3>2 DEF Apart
    <3>. QED
      BY <3>1, <3>2, <3>3
  <2>. QED
    BY <2>8, <2>9, <2>10 DEF Apart, Rides
<1>. QED
  BY <1>4, <1>6, <1>7

\* The frames of players carry no mobs.
LEMMA PlayersApart ==
  ASSUME TypeOK, Apart,
         \/ \E t \in ents, q \in Pods : CrossSeam(t, q)
         \/ \E q, p \in Pods : ApplyMigration(q, p) \/ FinishHandover(q, p) \/ LinkDrop(q, p)
         \/ UNCHANGED <<mobs, wire>>
  PROVE  Apart'
<1>1. mobs' = mobs
  BY DEF CrossSeam, ApplyMigration, FinishHandover, LinkDrop
<1>2. ASSUME NEW t \in ents, NEW q \in Pods, CrossSeam(t, q) PROVE Apart'
  <2>. DEFINE tok == [sid |-> t.pod, n |-> migSeq[t.pod] + 1]
              f == [typ |-> "migrate", tok |-> tok, snap |-> t.snap]
  <2>1. t \in Tracked /\ tok \in Tokens
    BY DEF TypeOK, Tracked, Tokens
  <2>2. f \in Frames /\ f.typ # "mob" /\ t.pod \in Pods
    BY <2>1 DEF Frames, Migrates, Tracked
  <2>3. Send(t.pod, q, f) \/ BreakLink(t.pod, q)
    BY <1>2 DEF CrossSeam
  <2>. HIDE DEF f
  <2>. QED
    BY <1>1, <2>2, <2>3, WireMoved, ApartKept
<1>3. ASSUME NEW q \in Pods, NEW p \in Pods, ApplyMigration(q, p) PROVE Apart'
  <2>. DEFINE m == Head(wire[<<q, p>>])
  <2>1. wire[<<q, p>>] # <<>> /\ m \in Frames
    BY <1>3, TakenType DEF ApplyMigration, Arrives, TypeOK, Links
  <2>2. \A b \in BOOLEAN : [typ |-> "ack", tok |-> m.tok, ok |-> b] \in Frames
    BY <2>1 DEF Frames, Migrates, MobMoves, Acks
  <2>3. PICK b \in BOOLEAN : wire' = Answered(q, p, [typ |-> "ack", tok |-> m.tok, ok |-> b])
    <3>1. wire' = AckOf(q, p, m, m.snap.dim \in DimsOf[p])
      BY <1>3 DEF ApplyMigration
    <3>2. CASE m.snap.dim \in DimsOf[p]
      <4>1. (m.snap.dim \in DimsOf[p]) = TRUE
        BY <3>2
      <4>. QED
        BY <3>1, <4>1, Zenon DEF AckOf
    <3>3. CASE m.snap.dim \notin DimsOf[p]
      <4>1. (m.snap.dim \in DimsOf[p]) = FALSE
        BY <3>3
      <4>. QED
        BY <3>1, <4>1, Zenon DEF AckOf
    <3>. QED
      BY <3>2, <3>3
  <2>. DEFINE a == [typ |-> "ack", tok |-> m.tok, ok |-> b]
  <2>4. a \in Frames /\ a.typ # "mob" /\ wire' = Answered(q, p, a)
    BY <2>2, <2>3
  <2>. HIDE DEF a, m
  <2>. QED
    BY <1>1, <2>1, <2>4, WireMoved, ApartKept
<1>4. ASSUME NEW q \in Pods, NEW p \in Pods, FinishHandover(q, p) PROVE Apart'
  BY <1>1, <1>4, WireMoved, ApartKept DEF FinishHandover, Arrives
<1>5. ASSUME NEW q \in Pods, NEW p \in Pods, LinkDrop(q, p) PROVE Apart'
  BY <1>1, <1>5, WireMoved, ApartKept DEF LinkDrop
<1>6. CASE UNCHANGED <<mobs, wire>>
  BY <1>6 DEF Apart, Rides
<1>. QED
  BY <1>2, <1>3, <1>4, <1>5, <1>6

LEMMA MobInvInit == Init => MobInv
<1>. SUFFICES ASSUME Init PROVE Apart
  BY DEF MobInv
<1>1. \A l \in Links, i \in Nat : ~ Rides(l, i)
  BY DEF Init, Links, Rides
<1>2. \A m, n \in mobs : m.id = n.id => m = n
  <2>. SUFFICES ASSUME NEW m \in mobs, NEW n \in mobs, m.id = n.id PROVE m = n
    OBVIOUS
  <2>1. m.id \in Mobs
    BY DEF Init, Mob
  <2>2. PICK k \in mobs : k.id = m.id /\ \A o \in mobs : o.id = m.id => o = k
    BY <2>1 DEF Init
  <2>. QED
    BY <2>2
<1>. QED
  BY <1>1, <1>2 DEF Apart

\* Faults are counted one by one.
LEMMA FaultsGrow ==
  ASSUME TypeOK, [Next]_vars
  PROVE  /\ faults'.restart = 0 => faults.restart = 0
         /\ faults'.full = 0 => faults.full = 0
         /\ faults'.stale = 0 => faults.stale = 0
<1>1. faults \in [drop : Nat, restart : Nat, full : Nat, stale : Nat]
  BY Bounds DEF TypeOK, FaultCounts
<1>. DEFINE Counted ==
       \/ faults' = faults
       \/ faults' = [faults EXCEPT !.drop = @ + 1]
       \/ faults' = [faults EXCEPT !.restart = @ + 1]
       \/ faults' = [faults EXCEPT !.full = @ + 1]
       \/ faults' = [faults EXCEPT !.stale = @ + 1]
<1>2. HubStep => Counted
  <2>1. ASSUME NEW s \in Sessions, OnJoin(s) \/ OnLeave(s) \/ OnDimSwitch(s) PROVE Counted
    BY <2>1 DEF OnJoin, OnLeave, OnDimSwitch
  <2>2. ASSUME NEW t \in ents, LocalChange(t) PROVE Counted
    BY <2>2 DEF LocalChange
  <2>3. ASSUME NEW t \in ents, NEW q \in Pods, CrossSeam(t, q) PROVE Counted
    BY <2>3 DEF CrossSeam, BreakLink
  <2>4. ASSUME NEW m \in mobs, NEW q \in Pods, MobMove(m, q) PROVE Counted
    BY <2>4 DEF MobMove, BreakLink
  <2>5. ASSUME NEW p \in Pods, SaveMobs(p) PROVE Counted
    BY <2>5 DEF SaveMobs
  <2>6. ASSUME NEW q \in Pods, NEW p \in Pods, ApplyMigration(q, p) PROVE Counted
    BY <2>6 DEF ApplyMigration
  <2>7. ASSUME NEW q \in Pods, NEW p \in Pods, ApplyMobMigration(q, p) PROVE Counted
    BY <2>7 DEF ApplyMobMigration
  <2>8. ASSUME NEW q \in Pods, NEW p \in Pods, FinishHandover(q, p) PROVE Counted
    BY <2>8 DEF FinishHandover
  <2>. HIDE DEF Counted
  <2>. QED
    BY <2>1, <2>2, <2>3, <2>4, <2>5, <2>6, <2>7, <2>8 DEF HubStep
<1>3. GatewayStep => Counted
  BY DEF GatewayStep, Login, Resume, SwitchDim, Quit, Close
<1>4. FaultStep => Counted
  BY DEF FaultStep, LinkDrop, LinkUp, BreakLink, Restart
<1>5. UNCHANGED vars => Counted
  BY DEF vars
<1>6. Counted
  BY <1>2, <1>3, <1>4, <1>5 DEF Next
<1>. QED
  BY <1>1, <1>6

LEMMA MobInvStep == TypeOK /\ MobInv /\ [Next]_vars => MobInv'
<1>. SUFFICES ASSUME TypeOK, MobInv, [Next]_vars, faults'.restart = 0 PROVE Apart'
  BY DEF MobInv
<1>1. faults \in [drop : Nat, restart : Nat, full : Nat, stale : Nat]
  BY Bounds DEF TypeOK, FaultCounts
<1>2. faults.restart = 0
  BY <1>1, FaultsGrow
<1>3. Apart
  BY <1>2 DEF MobInv
<1>4. ~ \E p \in Pods : Restart(p)
  <2>1. \A p \in Pods : Restart(p) => faults' = [faults EXCEPT !.restart = @ + 1]
    BY DEF Restart
  <2>. QED
    BY <1>1, <2>1
<1>5. CASE HubStep
  <2>1. CASE \E m \in mobs, q \in Pods : MobMove(m, q)
    BY <1>3, <2>1, SentApart
  <2>2. CASE \E q, p \in Pods : ApplyMobMigration(q, p)
    BY <1>3, <2>2, ArrivedApart
  <2>3. CASE \/ \E t \in ents, q \in Pods : CrossSeam(t, q)
             \/ \E q, p \in Pods : ApplyMigration(q, p) \/ FinishHandover(q, p)
    BY <1>3, <2>3, PlayersApart
  <2>4. CASE \/ \E s \in Sessions : OnJoin(s) \/ OnLeave(s) \/ OnDimSwitch(s)
             \/ \E t \in ents : LocalChange(t)
             \/ \E p \in Pods : SaveMobs(p)
    <3>1. UNCHANGED <<mobs, wire>>
      BY <2>4 DEF OnJoin, OnLeave, OnDimSwitch, LocalChange, SaveMobs
    <3>. QED
      BY <1>3, <3>1, PlayersApart
  <2>. QED
    BY <1>5, <2>1, <2>2, <2>3, <2>4 DEF HubStep
<1>6. CASE GatewayStep
  <2>1. UNCHANGED <<mobs, wire>>
    BY <1>6 DEF GatewayStep, Login, Resume, SwitchDim, Quit, Close
  <2>. QED
    BY <1>3, <2>1, PlayersApart
<1>7. CASE FaultStep
  <2>1. CASE \E p, q \in Pods : LinkUp(p, q)
    <3>1. UNCHANGED <<mobs, wire>>
      BY <2>1 DEF LinkUp
    <3>. QED
      BY <1>3, <3>1, PlayersApart
  <2>. QED
    BY <1>3, <1>4, <1>7, <2>1, PlayersApart DEF FaultStep
<1>8. CASE UNCHANGED vars
  <2>1. UNCHANGED <<mobs, wire>>
    BY <1>8 DEF vars
  <2>. QED
    BY <1>3, <2>1, PlayersApart
<1>. QED
  BY <1>5, <1>6, <1>7, <1>8 DEF Next

\* A mob crosses by fire and forget; until a pod is restored from an older
\* mobs.json it is never in two places.
THEOREM MobOnceAlways == Spec => []MobOnce
<1>1. TypeOK /\ MobInv => MobOnce
  <2>. SUFFICES ASSUME TypeOK, Apart, NEW id \in Mobs
                PROVE  Cardinality(MobCopies(id)) <= 1
    BY DEF MobInv, MobOnce
  <2>1. \A x, y \in MobCopies(id) : x = y
    <3>1. \A x \in MobCopies(id) :
            \/ \E m \in mobs : m.id = id /\ x = m.pod
            \/ \E l \in Links, i \in Nat : Rides(l, i) /\ wire[l][i].id = id /\ x = <<l, i>>
      <4>. SUFFICES ASSUME NEW x \in MobCopies(id)
             PROVE  \/ \E m \in mobs : m.id = id /\ x = m.pod
                    \/ \E l \in Links, i \in Nat :
                         Rides(l, i) /\ wire[l][i].id = id /\ x = <<l, i>>
        OBVIOUS
      <4>1. DOMAIN wire = Links /\ \A l \in Links : DOMAIN wire[l] \subseteq Nat
        BY DEF TypeOK, Links
      <4>2. \/ \E m \in mobs : m.id = id /\ x = m.pod
            \/ \E l \in DOMAIN wire : \E i \in DOMAIN wire[l] :
                 wire[l][i].typ = "mob" /\ wire[l][i].id = id /\ x = <<l, i>>
        BY DEF MobCopies
      <4>. QED
        BY <4>1, <4>2 DEF Rides
    <3>. QED
      BY <3>1 DEF Apart
  <2>2. CASE MobCopies(id) = {}
    BY <2>2, FS_EmptySet
  <2>3. CASE MobCopies(id) # {}
    <3>1. PICK x : MobCopies(id) = {x}
      BY <2>1, <2>3
    <3>2. Cardinality({x}) = 1
      BY FS_Singleton
    <3>. QED
      BY <3>1, <3>2
  <2>. QED
    BY <2>2, <2>3
<1>. QED
  BY TypeInit, TypeStep, MobInvInit, MobInvStep, <1>1, PTL DEF Spec

-----------------------------------------------------------------------------
(***************************************************************************)
(* One owner.  An entity id has at most one owner among the players a pod  *)
(* simulates, the sessions whose join is queued and the tokens a gateway   *)
(* has been told: a release passes it on only because the snapshot that    *)
(* travels under the token is the frozen player's, and nothing else can    *)
(* own the id while the release is open.                                   *)
(***************************************************************************)

\* The frames in flight.
Flying == UNION {{wire[l][i] : i \in DOMAIN wire[l]} : l \in Links}

\* The entities whose snapshot is held, or on its way, with its token.
Carried ==
  {[tok |-> x.tok, eid |-> x.snap.eid] : x \in pending}
    \cup {[tok |-> m.tok, eid |-> m.snap.eid] : m \in {f \in Flying : f.typ = "migrate"}}

\* The sessions whose join is queued.
Posted == {s \in Opened : ses[s].st = "posted"}

\* A player and a release are of the entity their session was opened for.
Grounded ==
  /\ \A t \in ents : t.ses \in Opened /\ ses[t.ses].snap.eid = t.snap.eid
  /\ \A h \in handoffs : h.ses \in Opened /\ ses[h.ses].snap.eid = h.eid

\* Whatever is in use has been minted.
Known ==
  /\ \A s \in Opened : ses[s].snap.eid \in minted.eids
  /\ \A c \in Carried : c.tok \in minted.toks /\ c.eid \in minted.eids
  /\ \A h \in handoffs : h.tok \in minted.toks
  /\ \A r \in rehomes : r.tok \in minted.toks

\* A token is one release or one re-home, of one entity.
TokenOnce ==
  /\ \A g, h \in handoffs : g.tok = h.tok => g = h
  /\ \A r, z \in rehomes : r.tok = z.tok => r = z
  /\ \A r \in rehomes, h \in handoffs : r.tok # h.tok
  /\ \A c, d \in Carried : c.tok = d.tok => c.eid = d.eid
  /\ \A h \in handoffs, c \in Carried : c.tok = h.tok => c.eid = h.eid

\* An entity has one owner.
Exclusive ==
  /\ \A t, u \in ents : t.snap.eid = u.snap.eid => t = u
  /\ \A s, z \in Posted : ses[s].snap.eid = ses[z].snap.eid => s = z
  /\ \A t \in ents, s \in Posted : ses[s].snap.eid # t.snap.eid
  /\ \A t \in ents, r \in rehomes, c \in Carried : c.tok = r.tok => c.eid # t.snap.eid
  /\ \A s \in Posted, r \in rehomes, c \in Carried : c.tok = r.tok => c.eid # ses[s].snap.eid
  /\ \A r, z \in rehomes, c, d \in Carried :
       c.tok = r.tok /\ d.tok = z.tok /\ c.eid = d.eid => r = z

\* The only owner an entity has while its release is open is the frozen
\* player at the source.
Frozen ==
  /\ \A g, h \in handoffs : g.eid = h.eid => g = h
  /\ \A h \in handoffs, t \in ents : t.snap.eid = h.eid => t.pod = h.tok.sid /\ t.mig
  /\ \A h \in handoffs, s \in Posted : ses[s].snap.eid # h.eid
  /\ \A h \in handoffs, r \in rehomes, c \in Carried : c.tok = r.tok => c.eid # h.eid

Owned == Grounded /\ Known /\ TokenOnce /\ Exclusive /\ Frozen

\* What makes OneOwner inductive.
OwnerInv == Unique => Owned

\* The frame at the head of a direction is in flight.
LEMMA HeadFlies ==
  ASSUME TypeOK, NEW q \in Pods, NEW p \in Pods, wire[<<q, p>>] # <<>>
  PROVE  Head(wire[<<q, p>>]) \in Flying
<1>1. <<q, p>> \in Links
  BY DEF Links
<1>2. wire[<<q, p>>] \in Seq(Frames)
  BY <1>1 DEF TypeOK, Links
<1>3. 1 \in DOMAIN wire[<<q, p>>] /\ Head(wire[<<q, p>>]) = wire[<<q, p>>][1]
  BY <1>2
<1>. QED
  BY <1>1, <1>3 DEF Flying

\* What is left of a sequence of frames was in it.
LEMMA Leftovers ==
  ASSUME NEW s \in Seq(Frames)
  PROVE  /\ s # <<>> => \A i \in DOMAIN Tail(s) : \E j \in DOMAIN s : Tail(s)[i] = s[j]
         /\ \A n \in 0..Len(s) : \A i \in DOMAIN SubSeq(s, 1, n) :
              \E j \in DOMAIN s : SubSeq(s, 1, n)[i] = s[j]
         /\ \A m \in Frames : \A i \in DOMAIN Append(s, m) :
              Append(s, m)[i] = m \/ \E j \in DOMAIN s : Append(s, m)[i] = s[j]
<1>1. ASSUME s # <<>>, NEW i \in DOMAIN Tail(s) PROVE \E j \in DOMAIN s : Tail(s)[i] = s[j]
  <2>1. i \in 1..(Len(s) - 1) /\ i + 1 \in DOMAIN s
    BY <1>1
  <2>2. Tail(s)[i] = s[i + 1]
    BY <1>1, <2>1
  <2>. QED
    BY <2>1, <2>2
<1>2. ASSUME NEW n \in 0..Len(s), NEW i \in DOMAIN SubSeq(s, 1, n)
      PROVE  \E j \in DOMAIN s : SubSeq(s, 1, n)[i] = s[j]
  <2>1. i \in 1..n /\ i \in DOMAIN s
    BY <1>2
  <2>2. SubSeq(s, 1, n)[i] = s[i]
    BY <1>2, <2>1
  <2>. QED
    BY <2>1, <2>2
<1>3. ASSUME NEW m \in Frames, NEW i \in DOMAIN Append(s, m)
      PROVE  Append(s, m)[i] = m \/ \E j \in DOMAIN s : Append(s, m)[i] = s[j]
  BY <1>3
<1>. QED
  BY <1>1, <1>2, <1>3

\* The frame at place i of direction l was in that direction before the step.
Kept(l, i) == \E j \in DOMAIN wire[l] : wire'[l][i] = wire[l][j]

\* What each wire operation adds to a direction: nothing, or one frame at the
\* end of the one it writes to.
LEMMA WireAfter ==
  ASSUME TypeOK, NEW p \in Pods, NEW q \in Pods, NEW l \in Links, NEW i \in DOMAIN wire'[l]
  PROVE  /\ \A m \in Frames : Send(p, q, m) => Kept(l, i) \/ (l = <<p, q>> /\ wire'[l][i] = m)
         /\ BreakLink(p, q) => Kept(l, i)
         /\ wire[<<q, p>>] # <<>> /\ wire' = Taken(q, p) => Kept(l, i)
         /\ \A m \in Frames : wire[<<q, p>>] # <<>> /\ wire' = Answered(q, p, m)
              => Kept(l, i) \/ (l = <<p, q>> /\ wire'[l][i] = m)
         /\ Restart(p) => Kept(l, i)
<1>1. /\ wire \in [Links -> Seq(Frames)]
      /\ wire[l] \in Seq(Frames)
      /\ <<p, q>> \in Links /\ <<q, p>> \in Links
  BY DEF TypeOK, Links
<1>2. ASSUME NEW m \in Frames, Send(p, q, m)
      PROVE  Kept(l, i) \/ (l = <<p, q>> /\ wire'[l][i] = m)
  <2>1. CASE l = <<p, q>>
    <3>1. wire'[l] = Append(wire[l], m)
      BY <1>1, <1>2, <2>1 DEF Send
    <3>. QED
      BY <1>1, <2>1, <3>1, Leftovers DEF Kept
  <2>2. CASE l # <<p, q>>
    <3>1. wire'[l] = wire[l]
      BY <1>1, <1>2, <2>2 DEF Send
    <3>. QED
      BY <3>1 DEF Kept
  <2>. QED
    BY <2>1, <2>2
<1>3. ASSUME BreakLink(p, q) PROVE Kept(l, i)
  <2>1. PICK a \in 0..Len(wire[<<p, q>>]), b \in 0..Len(wire[<<q, p>>]) :
          wire' = Truncated(p, q, a, b)
    BY <1>3 DEF BreakLink
  <2>2. \/ wire'[l] = wire[l]
        \/ \E n \in 0..Len(wire[l]) : wire'[l] = SubSeq(wire[l], 1, n)
    BY <2>1 DEF Truncated, Links
  <2>. QED
    BY <1>1, <2>2, Leftovers DEF Kept
<1>4. ASSUME wire[<<q, p>>] # <<>>, wire' = Taken(q, p) PROVE Kept(l, i)
  <2>1. CASE l = <<q, p>>
    <3>1. wire[l] # <<>> /\ wire'[l] = Tail(wire[l])
      BY <1>1, <1>4, <2>1 DEF Taken
    <3>2. \A k \in DOMAIN Tail(wire[l]) : \E j \in DOMAIN wire[l] : Tail(wire[l])[k] = wire[l][j]
      BY <1>1, <3>1, Leftovers
    <3>. QED
      BY <3>1, <3>2 DEF Kept
  <2>2. CASE l # <<q, p>>
    <3>1. wire'[l] = wire[l]
      BY <1>1, <1>4, <2>2 DEF Taken
    <3>. QED
      BY <3>1 DEF Kept
  <2>. QED
    BY <2>1, <2>2
<1>5. ASSUME NEW m \in Frames, wire[<<q, p>>] # <<>>, wire' = Answered(q, p, m)
      PROVE  Kept(l, i) \/ (l = <<p, q>> /\ wire'[l][i] = m)
  <2>1. \/ wire'[l] = wire[l]
        \/ wire[l] # <<>> /\ wire'[l] = Tail(wire[l])
        \/ l = <<p, q>> /\ wire'[l] = Append(wire[l], m)
    BY <1>1, <1>5 DEF Answered, Links
  <2>2. CASE wire'[l] = wire[l]
    BY <2>2 DEF Kept
  <2>3. CASE wire[l] # <<>> /\ wire'[l] = Tail(wire[l])
    BY <1>1, <2>3, Leftovers DEF Kept
  <2>4. CASE l = <<p, q>> /\ wire'[l] = Append(wire[l], m)
    BY <1>1, <1>5, <2>4, Leftovers DEF Kept
  <2>. QED
    BY <2>1, <2>2, <2>3, <2>4
<1>6. ASSUME Restart(p) PROVE Kept(l, i)
  <2>1. wire' = [a \in Links |-> IF a[2] = p THEN <<>> ELSE wire[a]]
    BY <1>6 DEF Restart, Links
  <2>2. wire'[l] = wire[l] \/ wire'[l] = <<>>
    BY <2>1
  <2>. QED
    BY <2>2 DEF Kept
<1>. QED
  BY <1>2, <1>3, <1>4, <1>5, <1>6

\* ... and to the frames in flight.
LEMMA FlyingAfter ==
  ASSUME TypeOK, NEW p \in Pods, NEW q \in Pods
  PROVE  /\ \A m \in Frames : Send(p, q, m) => Flying' \subseteq Flying \cup {m}
         /\ BreakLink(p, q) => Flying' \subseteq Flying
         /\ wire[<<q, p>>] # <<>> /\ wire' = Taken(q, p) => Flying' \subseteq Flying
         /\ \A m \in Frames : wire[<<q, p>>] # <<>> /\ wire' = Answered(q, p, m)
              => Flying' \subseteq Flying \cup {m}
         /\ Restart(p) => Flying' \subseteq Flying
<1>. SUFFICES ASSUME NEW l \in Links, NEW i \in DOMAIN wire'[l]
              PROVE  /\ \A m \in Frames : Send(p, q, m) => wire'[l][i] \in Flying \cup {m}
                     /\ BreakLink(p, q) => wire'[l][i] \in Flying
                     /\ wire[<<q, p>>] # <<>> /\ wire' = Taken(q, p) => wire'[l][i] \in Flying
                     /\ \A m \in Frames : wire[<<q, p>>] # <<>> /\ wire' = Answered(q, p, m)
                          => wire'[l][i] \in Flying \cup {m}
                     /\ Restart(p) => wire'[l][i] \in Flying
  BY DEF Flying
<1>1. Kept(l, i) => wire'[l][i] \in Flying
  BY DEF Kept, Flying
<1>. QED
  BY <1>1, WireAfter

(***************************************************************************)
(* Steps that create no owner.                                             *)
(***************************************************************************)

\* A snapshot is carried on only if it was held or in flight.
LEMMA CarriedShrinks ==
  ASSUME \A x \in pending' :
           \/ x \in pending
           \/ \E m \in Flying : m.typ = "migrate" /\ m.tok = x.tok /\ m.snap = x.snap,
         \A m \in Flying' : m.typ = "migrate" => m \in Flying
  PROVE  Carried' \subseteq Carried
<1>. SUFFICES ASSUME NEW c \in Carried' PROVE c \in Carried
  OBVIOUS
<1>1. CASE \E x \in pending' : c = [tok |-> x.tok, eid |-> x.snap.eid]
  BY <1>1 DEF Carried
<1>2. CASE \E m \in Flying' : m.typ = "migrate" /\ c = [tok |-> m.tok, eid |-> m.snap.eid]
  BY <1>2 DEF Carried
<1>. QED
  BY <1>1, <1>2 DEF Carried

\* Owners that stay what they were, or go, stay exclusive.
LEMMA Weaken ==
  ASSUME Owned,
         \A u \in ents' : \E t \in ents :
           t.pod = u.pod /\ t.ses = u.ses /\ t.snap.eid = u.snap.eid /\ (t.mig => u.mig),
         \A t, u \in ents' : t.snap.eid = u.snap.eid => t = u,
         handoffs' \subseteq handoffs, rehomes' \subseteq rehomes,
         Carried' \subseteq Carried, Posted' \subseteq Posted, Opened' = Opened,
         \A s \in Opened : ses'[s].snap = ses[s].snap,
         minted.toks \subseteq minted'.toks, minted.eids \subseteq minted'.eids
  PROVE  Owned'
<1>1. Posted' \subseteq Opened
  BY DEF Posted
<1>2. Grounded'
  BY DEF Owned, Grounded
<1>3. Known'
  BY DEF Owned, Known
<1>4. TokenOnce'
  BY DEF Owned, TokenOnce
<1>5. Exclusive'
  <2>1. \A s, z \in Posted' : ses'[s].snap.eid = ses'[z].snap.eid => s = z
    BY <1>1 DEF Owned, Exclusive
  <2>2. \A t \in ents', s \in Posted' : ses'[s].snap.eid # t.snap.eid
    BY <1>1 DEF Owned, Exclusive
  <2>3. \A t \in ents', r \in rehomes', c \in Carried' : c.tok = r.tok => c.eid # t.snap.eid
    BY DEF Owned, Exclusive
  <2>4. \A s \in Posted', r \in rehomes', c \in Carried' :
          c.tok = r.tok => c.eid # ses'[s].snap.eid
    BY <1>1 DEF Owned, Exclusive
  <2>5. \A r, z \in rehomes', c, d \in Carried' :
          c.tok = r.tok /\ d.tok = z.tok /\ c.eid = d.eid => r = z
    BY DEF Owned, Exclusive
  <2>. QED
    BY <2>1, <2>2, <2>3, <2>4, <2>5 DEF Exclusive
<1>6. Frozen'
  <2>1. \A h \in handoffs', t \in ents' : t.snap.eid = h.eid => t.pod = h.tok.sid /\ t.mig
    BY DEF Owned, Frozen
  <2>2. \A h \in handoffs', s \in Posted' : ses'[s].snap.eid # h.eid
    BY <1>1 DEF Owned, Frozen
  <2>. QED
    BY <2>1, <2>2 DEF Owned, Frozen
<1>. QED
  BY <1>2, <1>3, <1>4, <1>5, <1>6 DEF Owned

\* Nothing an owner is made of changes.
LEMMA Untouched ==
  ASSUME Owned, UNCHANGED <<ents, handoffs, rehomes, ses>>, Carried' \subseteq Carried,
         minted.toks \subseteq minted'.toks, minted.eids \subseteq minted'.eids
  PROVE  Owned'
<1>1. Opened' = Opened
  BY DEF Opened
<1>2. Posted' = Posted
  BY <1>1 DEF Posted
<1>3. \A t, u \in ents' : t.snap.eid = u.snap.eid => t = u
  BY DEF Owned, Exclusive
<1>. QED
  BY <1>1, <1>2, <1>3, Weaken

\* A session that stays opened for its entity, and is posted only if it was.
LEMMA SessionsKept ==
  ASSUME \A z \in Sessions :
           \/ ses'[z] = ses[z]
           \/ /\ ses[z] # Unused /\ ses'[z] # Unused
              /\ ses'[z].snap = ses[z].snap
              /\ ses'[z].st = "posted" => ses[z].st = "posted"
  PROVE  /\ Opened' = Opened
         /\ Posted' \subseteq Posted
         /\ \A z \in Opened : ses'[z].snap = ses[z].snap
<1>1. Opened' = Opened
  BY DEF Opened
<1>. QED
  BY <1>1 DEF Posted, Opened

\* A change of a session's status, its closed flag or its dimension is such a
\* change.
LEMMA SessionField ==
  ASSUME TypeOK, NEW s \in Sessions, ses[s] # Unused,
         \/ \E st \in {"live", "left"} : ses' = [ses EXCEPT ![s].st = st]
         \/ ses' = [ses EXCEPT ![s].closed = TRUE]
         \/ \E d \in Dims : ses' = [ses EXCEPT ![s] = [@ EXCEPT !.dim = d, !.moving = TRUE]]
         \/ ses' = [ses EXCEPT ![s] = [@ EXCEPT !.moving = FALSE]]
  PROVE  /\ Opened' = Opened
         /\ Posted' \subseteq Posted
         /\ \A z \in Opened : ses'[z].snap = ses[z].snap
<1>1. ses[s] \in Session /\ ses \in [Sessions -> Session \cup {Unused}]
  BY DEF TypeOK
<1>2. ASSUME NEW st \in {"live", "left"}, ses' = [ses EXCEPT ![s].st = st]
      PROVE  ses'[s] \in Session /\ ses'[s].snap = ses[s].snap /\ ses'[s].st # "posted"
  BY <1>1, <1>2 DEF Session
<1>3. ASSUME \/ ses' = [ses EXCEPT ![s].closed = TRUE]
             \/ \E d \in Dims : ses' = [ses EXCEPT ![s] = [@ EXCEPT !.dim = d, !.moving = TRUE]]
             \/ ses' = [ses EXCEPT ![s] = [@ EXCEPT !.moving = FALSE]]
      PROVE  ses'[s] \in Session /\ ses'[s].snap = ses[s].snap /\ ses'[s].st = ses[s].st
  <2>1. \/ ses'[s] = [ses[s] EXCEPT !.closed = TRUE]
        \/ \E d \in Dims : ses'[s] = [ses[s] EXCEPT !.dim = d, !.moving = TRUE]
        \/ ses'[s] = [ses[s] EXCEPT !.moving = FALSE]
    BY <1>1, <1>3
  <2>. QED
    BY <1>1, <2>1 DEF Session
<1>4. \A z \in Sessions \ {s} : ses'[z] = ses[z]
  BY <1>1
<1>5. /\ ses'[s] # Unused /\ ses'[s].snap = ses[s].snap
      /\ ses'[s].st = "posted" => ses[s].st = "posted"
  BY <1>2, <1>3, UnusedAssumption
<1>. QED
  BY <1>4, <1>5, SessionsKept

\* Leaving takes an owner out.
LEMMA LeaveOwned ==
  ASSUME TypeOK, Owned, NEW s \in Sessions, OnLeave(s)
  PROVE  Owned'
<1>1. ents' \subseteq ents /\ UNCHANGED <<handoffs, rehomes, pending, wire, minted>>
  BY DEF OnLeave
<1>2. Carried' = Carried
  BY <1>1 DEF Carried, Flying
<1>3. ses[s] # Unused /\ ses' = [ses EXCEPT ![s].st = "left"]
  BY DEF OnLeave
<1>4. \A v, w \in ents' : v.snap.eid = w.snap.eid => v = w
  BY <1>1 DEF Owned, Exclusive
<1>. QED
  BY <1>1, <1>2, <1>3, <1>4, SessionField, Weaken

\* A pod's restart takes what it owned out.
LEMMA RestartOwned ==
  ASSUME TypeOK, Owned, NEW p \in Pods, Restart(p)
  PROVE  Owned'
<1>1. /\ ents' \subseteq ents /\ handoffs' \subseteq handoffs /\ rehomes' \subseteq rehomes
      /\ pending' \subseteq pending /\ UNCHANGED minted
  BY DEF Restart
<1>2. Carried' \subseteq Carried
  BY <1>1, FlyingAfter, CarriedShrinks
<1>3. \A z \in Sessions :
        \/ ses'[z] = ses[z]
        \/ /\ ses[z] # Unused /\ ses'[z] # Unused
           /\ ses'[z].snap = ses[z].snap
           /\ ses'[z].st = "posted" => ses[z].st = "posted"
  <2>. SUFFICES ASSUME NEW z \in Sessions, ses'[z] # ses[z]
                PROVE  /\ ses[z] # Unused /\ ses'[z] # Unused
                       /\ ses'[z].snap = ses[z].snap
                       /\ ses'[z].st = "posted" => ses[z].st = "posted"
    OBVIOUS
  <2>1. z \in Opened /\ ses'[z] = [ses[z] EXCEPT !.st = "left", !.closed = TRUE, !.moving = FALSE]
    BY DEF Restart
  <2>2. ses[z] \in Session
    BY <2>1 DEF Opened, TypeOK
  <2>3. ses'[z] \in Session /\ ses'[z].snap = ses[z].snap /\ ses'[z].st = "left"
    BY <2>1, <2>2 DEF Session
  <2>. QED
    BY <2>1, <2>3, UnusedAssumption DEF Opened
<1>4. \A v, w \in ents' : v.snap.eid = w.snap.eid => v = w
  BY <1>1 DEF Owned, Exclusive
<1>5. /\ Opened' = Opened
      /\ Posted' \subseteq Posted
      /\ \A z \in Opened : ses'[z].snap = ses[z].snap
  BY <1>3, SessionsKept
<1>. QED
  BY <1>1, <1>2, <1>4, <1>5, Weaken

\* A changed player is still the one owner.
LEMMA ChangeOwned ==
  ASSUME TypeOK, Owned, NEW t \in ents, LocalChange(t)
  PROVE  Owned'
<1>. DEFINE u == [t EXCEPT !.snap.rev = @ + 1]
<1>1. t \in Tracked
  BY DEF TypeOK
<1>2. /\ ents' = (ents \ {t}) \cup {u}
      /\ UNCHANGED <<handoffs, rehomes, pending, wire, ses, minted>>
  BY DEF LocalChange
<1>3. u.pod = t.pod /\ u.ses = t.ses /\ u.mig = t.mig /\ u.snap.eid = t.snap.eid
  BY <1>1 DEF Tracked, Snaps
<1>. HIDE DEF u
<1>4. Opened' = Opened /\ Posted' = Posted /\ Carried' = Carried
  BY <1>2 DEF Opened, Posted, Carried, Flying
<1>5. \A v \in ents' : \E w \in ents :
        w.pod = v.pod /\ w.ses = v.ses /\ w.snap.eid = v.snap.eid /\ (w.mig => v.mig)
  BY <1>2, <1>3
<1>6. \A v, w \in ents' : v.snap.eid = w.snap.eid => v = w
  BY <1>2, <1>3 DEF Owned, Exclusive
<1>. QED
  BY <1>2, <1>4, <1>5, <1>6, Weaken

\* A connection that switches its dimension owns nothing more ...
LEMMA SwitchDimOwned ==
  ASSUME TypeOK, Owned, NEW s \in Sessions, NEW d \in Dims, SwitchDim(s, d)
  PROVE  Owned'
<1>1. UNCHANGED <<ents, handoffs, rehomes, pending, wire, minted>>
  BY DEF SwitchDim
<1>2. Carried' = Carried
  BY <1>1 DEF Carried, Flying
<1>3. ses[s] # Unused /\ ses' = [ses EXCEPT ![s] = [@ EXCEPT !.dim = d, !.moving = TRUE]]
  BY DEF SwitchDim, TypeOK
<1>4. \A v, w \in ents' : v.snap.eid = w.snap.eid => v = w
  BY <1>1 DEF Owned, Exclusive
<1>. QED
  BY <1>1, <1>2, <1>3, <1>4, SessionField, Weaken

\* ... and the player that follows is still the one owner.
LEMMA OnDimSwitchOwned ==
  ASSUME TypeOK, Owned, NEW s \in Sessions, OnDimSwitch(s)
  PROVE  Owned'
<1>. DEFINE there(t) == [t EXCEPT !.snap.dim = ses[s].dim]
            after(t) == IF t \in Here(ses[s].pod, ses[s].snap.eid) THEN there(t) ELSE t
<1>1. UNCHANGED <<handoffs, rehomes, pending, wire, minted>>
  BY DEF OnDimSwitch
<1>2. Carried' = Carried
  BY <1>1 DEF Carried, Flying
<1>3. ses[s] # Unused /\ ses' = [ses EXCEPT ![s] = [@ EXCEPT !.moving = FALSE]]
  BY DEF OnDimSwitch, TypeOK
<1>4. \A u \in ents' : \E t \in ents : u = after(t)
  BY DEF OnDimSwitch, Here
<1>5. \A t \in ents : /\ after(t).pod = t.pod /\ after(t).ses = t.ses /\ after(t).mig = t.mig
                      /\ after(t).snap.eid = t.snap.eid
  BY DEF TypeOK, Tracked, Snaps
<1>. HIDE DEF after
<1>6. \A v, w \in ents' : v.snap.eid = w.snap.eid => v = w
  BY <1>4, <1>5 DEF Owned, Exclusive
<1>7. \A v \in ents' : \E t \in ents :
        t.pod = v.pod /\ t.ses = v.ses /\ t.snap.eid = v.snap.eid /\ (t.mig => v.mig)
  BY <1>4, <1>5
<1>. QED
  BY <1>1, <1>2, <1>3, <1>6, <1>7, SessionField, Weaken

\* Holding a snapshot that was in flight, or taking a mob in, makes no owner.
LEMMA ArrivalOwned ==
  ASSUME TypeOK, Owned, NEW q \in Pods, NEW p \in Pods,
         ApplyMigration(q, p) \/ ApplyMobMigration(q, p)
  PROVE  Owned'
<1>. DEFINE m == Head(wire[<<q, p>>])
            yes == [typ |-> "ack", tok |-> m.tok, ok |-> TRUE]
            no == [typ |-> "ack", tok |-> m.tok, ok |-> FALSE]
<1>1. wire[<<q, p>>] # <<>>
  BY DEF ApplyMigration, ApplyMobMigration, Arrives
<1>2. m \in Flying /\ m \in Frames
  BY <1>1, HeadFlies, TakenType DEF TypeOK, Links
<1>3. m.tok \in Tokens
  BY <1>2 DEF Frames, Migrates, MobMoves, Acks
<1>4. yes \in Frames /\ no \in Frames
  BY <1>3 DEF Frames, Acks
<1>5. \/ wire' = Taken(q, p)
      \/ wire' = Answered(q, p, yes)
      \/ wire' = Answered(q, p, no)
  <2>1. CASE ApplyMigration(q, p)
    <3>1. wire' = AckOf(q, p, m, m.snap.dim \in DimsOf[p])
      BY <2>1 DEF ApplyMigration
    <3>2. CASE m.snap.dim \in DimsOf[p]
      <4>1. (m.snap.dim \in DimsOf[p]) = TRUE
        BY <3>2
      <4>. QED
        BY <3>1, <4>1, Zenon DEF AckOf
    <3>3. CASE m.snap.dim \notin DimsOf[p]
      <4>1. (m.snap.dim \in DimsOf[p]) = FALSE
        BY <3>3
      <4>. QED
        BY <3>1, <4>1, Zenon DEF AckOf
    <3>. QED
      BY <3>2, <3>3
  <2>2. CASE ApplyMobMigration(q, p)
    BY <2>2 DEF ApplyMobMigration, AckOf
  <2>. QED
    BY <2>1, <2>2
<1>6. yes.typ # "migrate" /\ no.typ # "migrate"
  OBVIOUS
<1>7. UNCHANGED <<ents, handoffs, rehomes, ses, minted>>
  BY DEF ApplyMigration, ApplyMobMigration
<1>8. \A x \in pending' :
        \/ x \in pending
        \/ \E f \in Flying : f.typ = "migrate" /\ f.tok = x.tok /\ f.snap = x.snap
  <2>1. CASE ApplyMigration(q, p)
    <3>1. m.typ = "migrate"
      BY <2>1 DEF ApplyMigration, Arrives
    <3>2. pending' \subseteq pending \cup {[pod |-> p, tok |-> m.tok, snap |-> m.snap]}
      BY <2>1 DEF ApplyMigration, Held
    <3>. QED
      BY <1>2, <3>1, <3>2
  <2>2. CASE ApplyMobMigration(q, p)
    BY <2>2 DEF ApplyMobMigration
  <2>. QED
    BY <2>1, <2>2
<1>. HIDE DEF m, yes, no
<1>9. Flying' \subseteq Flying \cup {yes, no}
  BY <1>1, <1>4, <1>5, FlyingAfter
<1>10. Carried' \subseteq Carried
  BY <1>6, <1>8, <1>9, CarriedShrinks
<1>. QED
  BY <1>7, <1>10, Untouched

\* A mob that is sent or clamped, or a link that comes or goes.
LEMMA MobOwned ==
  ASSUME TypeOK, Owned, NEW m \in mobs, NEW q \in Pods, MobMove(m, q)
  PROVE  Owned'
<1>. DEFINE tok == [sid |-> m.pod, n |-> migSeq[m.pod] + 1]
            f == [typ |-> "mob", tok |-> tok, id |-> m.id, dim |-> m.dim]
<1>1. m \in Mob /\ m.pod \in Pods
  BY DEF TypeOK, Mob
<1>2. tok \in Tokens
  BY <1>1 DEF TypeOK, Tokens
<1>3. f \in Frames /\ f.typ # "migrate"
  BY <1>1, <1>2 DEF Frames, MobMoves, Mob
<1>4. /\ UNCHANGED <<ents, handoffs, rehomes, ses, pending>>
      /\ minted.toks \subseteq minted'.toks /\ minted.eids \subseteq minted'.eids
  BY DEF MobMove, TypeOK, Histories
<1>5. Send(m.pod, q, f) \/ BreakLink(m.pod, q)
  BY DEF MobMove
<1>. HIDE DEF tok, f
<1>6. Flying' \subseteq Flying \cup {f}
  BY <1>1, <1>3, <1>5, FlyingAfter
<1>7. Carried' \subseteq Carried
  BY <1>3, <1>4, <1>6, CarriedShrinks
<1>. QED
  BY <1>4, <1>7, Untouched

(***************************************************************************)
(* Steps that create an owner, or pass one on.                             *)
(***************************************************************************)

\* A session opened for an entity nobody owns makes it the entity's owner.
LEMMA OpenOwned ==
  ASSUME TypeOK, Owned, NEW s \in Sessions, s \notin Opened,
         Opened' = Opened \cup {s}, Posted' = Posted \cup {s},
         \A z \in Opened : ses'[z] = ses[z],
         ents' = ents, handoffs' = handoffs, rehomes' \subseteq rehomes, Carried' \subseteq Carried,
         minted.toks \subseteq minted'.toks, minted.eids \subseteq minted'.eids,
         ses'[s].snap.eid \in minted'.eids,
         \A t \in ents : t.snap.eid # ses'[s].snap.eid,
         \A h \in handoffs : h.eid # ses'[s].snap.eid,
         \A z \in Posted : ses[z].snap.eid # ses'[s].snap.eid,
         \A r \in rehomes', c \in Carried' : c.tok = r.tok => c.eid # ses'[s].snap.eid
  PROVE  Owned'
<1>1. Posted \subseteq Opened
  BY DEF Posted
<1>2. Grounded'
  BY DEF Owned, Grounded
<1>3. Known'
  BY DEF Owned, Known
<1>4. TokenOnce'
  BY DEF Owned, TokenOnce
<1>5. Exclusive'
  <2>1. \A y, z \in Posted' : ses'[y].snap.eid = ses'[z].snap.eid => y = z
    BY <1>1 DEF Owned, Exclusive
  <2>2. \A t \in ents', z \in Posted' : ses'[z].snap.eid # t.snap.eid
    BY <1>1 DEF Owned, Exclusive
  <2>3. \A z \in Posted', r \in rehomes', c \in Carried' :
          c.tok = r.tok => c.eid # ses'[z].snap.eid
    BY <1>1 DEF Owned, Exclusive
  <2>. QED
    BY <2>1, <2>2, <2>3 DEF Owned, Exclusive
<1>6. Frozen'
  <2>1. \A h \in handoffs', z \in Posted' : ses'[z].snap.eid # h.eid
    BY <1>1 DEF Owned, Frozen
  <2>. QED
    BY <2>1 DEF Owned, Frozen
<1>. QED
  BY <1>2, <1>3, <1>4, <1>5, <1>6 DEF Owned

\* A login's entity id is new, so nobody owns it.
LEMMA LoginOwned ==
  ASSUME TypeOK, Owned, Unique', NEW w \in Players, NEW s \in Sessions, NEW p \in Pods,
         Login(w, s, p)
  PROVE  Owned'
<1>. DEFINE e == MintPlayerEID(p)
<1>1. /\ minted' = [minted EXCEPT !.eids = @ \cup {e},
                                  !.twice = @ \/ e \in minted.eids]
      /\ UNCHANGED <<ents, handoffs, pending, rehomes, wire>>
  BY DEF Login
<1>2. minted \in Histories
  BY DEF TypeOK
<1>3. minted.toks = minted'.toks /\ minted'.eids = minted.eids \cup {e}
  BY <1>1, <1>2 DEF Histories
<1>4. e \notin minted.eids
  BY <1>1, <1>2 DEF Histories, Unique
<1>5. s \notin Opened /\ ses[s] = Unused
  BY DEF Login, Opened
<1>6. /\ ses'[s].st = "posted" /\ ses'[s].snap.eid = e
      /\ \A z \in Sessions \ {s} : ses'[z] = ses[z]
  BY DEF Login, TypeOK, Joining
<1>7. ses'[s] # Unused
  <2>1. e \in EIDs
    BY Bounds DEF Login, TypeOK, MintPlayerEID, EIDs
  <2>2. [who |-> w, eid |-> e, dim |-> Overworld, rev |-> 0] \in Snaps
    BY <2>1, Bounds, ConstantsAssumption DEF Snaps
  <2>3. Joining(w, p, [who |-> w, eid |-> e, dim |-> Overworld, rev |-> 0]) \in Session
    BY <2>2, JoiningType
  <2>. QED
    BY <2>3, UnusedAssumption DEF Login, TypeOK
<1>. HIDE DEF e
<1>8. Opened' = Opened \cup {s} /\ \A z \in Opened : ses'[z] = ses[z]
  BY <1>5, <1>6, <1>7 DEF Opened
<1>9. Posted' = Posted \cup {s}
  BY <1>5, <1>6, <1>8 DEF Posted
<1>10. Carried' = Carried
  BY <1>1 DEF Carried, Flying
<1>11. \A z \in Opened : ses[z].snap.eid # e
  BY <1>4 DEF Owned, Known
<1>12. /\ \A t \in ents : t.snap.eid # e
       /\ \A h \in handoffs : h.eid # e
       /\ \A z \in Posted : ses[z].snap.eid # e
  BY <1>11 DEF Owned, Grounded, Posted
<1>13. \A c \in Carried : c.eid # e
  BY <1>4 DEF Owned, Known
<1>. QED
  BY <1>1, <1>3, <1>5, <1>6, <1>8, <1>9, <1>10, <1>12, <1>13, OpenOwned

\* A claim makes the new session the owner in the token's place.
LEMMA ResumeOwned ==
  ASSUME TypeOK, Owned, NEW w \in Players, NEW s \in Sessions, NEW r \in rehomes,
         Resume(w, s, r)
  PROVE  Owned'
<1>1. /\ UNCHANGED <<ents, handoffs, wire, minted>>
      /\ rehomes' = rehomes \ {r} /\ pending' \subseteq pending
      /\ ses[s] = Unused
  BY DEF Resume
<1>2. Carried' \subseteq Carried
  BY <1>1 DEF Carried, Flying
<1>3. CASE ses' = ses
  <2>1. Opened' = Opened
    BY <1>3 DEF Opened
  <2>2. Posted' = Posted
    BY <1>3, <2>1 DEF Posted
  <2>3. \A t, u \in ents' : t.snap.eid = u.snap.eid => t = u
    BY <1>1 DEF Owned, Exclusive
  <2>. QED
    BY <1>1, <1>2, <1>3, <2>1, <2>2, <2>3, Weaken
<1>4. CASE ses' # ses
  <2>1. PICK x \in Claimed(r) :
          ses' = [ses EXCEPT ![s] = Joining(w, r.dest, x.snap)]
    BY <1>4 DEF Resume
  <2>. DEFINE e == x.snap.eid
              c == [tok |-> x.tok, eid |-> x.snap.eid]
  <2>2. x \in pending /\ x.tok = r.tok
    BY DEF Claimed
  <2>3. c \in Carried /\ c.tok = r.tok /\ c.eid = e
    BY <2>2 DEF Carried
  <2>4. r \in Rehome /\ x \in Pending
    BY <2>2 DEF TypeOK
  <2>5. /\ ses'[s] \in Session /\ ses'[s].st = "posted" /\ ses'[s].snap.eid = e
        /\ \A z \in Sessions \ {s} : ses'[z] = ses[z]
    <3>1. Joining(w, r.dest, x.snap) \in Session
      BY <2>4, JoiningType DEF Rehome, Pending
    <3>. QED
      BY <2>1, <3>1 DEF TypeOK, Joining
  <2>. HIDE DEF e, c
  <2>6. s \notin Opened
    BY <1>1 DEF Opened
  <2>7. Opened' = Opened \cup {s} /\ \A z \in Opened : ses'[z] = ses[z]
    BY <2>5, <2>6, UnusedAssumption DEF Opened
  <2>8. Posted' = Posted \cup {s}
    BY <2>5, <2>6, <2>7 DEF Posted
  <2>9. /\ e \in minted.eids
        /\ \A t \in ents : t.snap.eid # e
        /\ \A h \in handoffs : h.eid # e
        /\ \A z \in Posted : ses[z].snap.eid # e
    BY <2>3 DEF Owned, Known, Exclusive, Frozen
  <2>10. \A z \in rehomes', d \in Carried' : d.tok = z.tok => d.eid # e
    BY <1>1, <1>2, <2>3 DEF Owned, Exclusive
  <2>. QED
    BY <1>1, <1>2, <2>5, <2>6, <2>7, <2>8, <2>9, <2>10, OpenOwned
<1>. QED
  BY <1>3, <1>4

\* A join makes the posted session's player the owner in its place.
LEMMA JoinOwned ==
  ASSUME TypeOK, Owned, NEW s \in Sessions, OnJoin(s)
  PROVE  Owned'
<1>. DEFINE e == ses[s].snap.eid
            n == [pod |-> ses[s].pod, ses |-> s, mig |-> FALSE, snap |-> ses[s].snap]
<1>1. /\ ses[s] # Unused /\ s \in Posted /\ s \in Opened
      /\ ses' = [ses EXCEPT ![s].st = "live"]
      /\ UNCHANGED <<handoffs, rehomes, pending, wire, minted>>
  BY DEF OnJoin, Posted, Opened
<1>2. ents' \subseteq ents \cup {n} /\ n.ses = s /\ n.snap.eid = e /\ ~ n.mig
  BY DEF OnJoin
<1>. HIDE DEF e, n
<1>3. Carried' = Carried
  BY <1>1 DEF Carried, Flying
<1>4. ses[s] \in Session
  BY <1>1 DEF TypeOK
<1>5. ses'[s].st = "live"
  BY <1>1, <1>4 DEF TypeOK, Session
<1>6. /\ Opened' = Opened
      /\ \A z \in Opened : ses'[z].snap = ses[z].snap
      /\ Posted' \subseteq Posted \ {s}
  <2>1. /\ Opened' = Opened /\ Posted' \subseteq Posted
        /\ \A z \in Opened : ses'[z].snap = ses[z].snap
    BY <1>1, SessionField
  <2>. QED
    BY <1>5, <2>1 DEF Posted
<1>7. Posted \subseteq Opened
  BY DEF Posted
<1>8. /\ \A t \in ents : t.snap.eid # e
      /\ \A h \in handoffs : h.eid # e
      /\ \A z \in Posted \ {s} : ses[z].snap.eid # e
      /\ \A r \in rehomes, c \in Carried : c.tok = r.tok => c.eid # e
  BY <1>1 DEF Owned, Exclusive, Frozen, e
<1>9. Grounded'
  BY <1>1, <1>2, <1>6 DEF Owned, Grounded, e
<1>10. Known'
  BY <1>1, <1>3, <1>6 DEF Owned, Known
<1>11. TokenOnce'
  BY <1>1, <1>3 DEF Owned, TokenOnce
<1>12. Exclusive'
  <2>1. \A t, u \in ents' : t.snap.eid = u.snap.eid => t = u
    BY <1>2, <1>8 DEF Owned, Exclusive
  <2>2. \A y, z \in Posted' : ses'[y].snap.eid = ses'[z].snap.eid => y = z
    BY <1>6, <1>7 DEF Owned, Exclusive
  <2>3. \A t \in ents', z \in Posted' : ses'[z].snap.eid # t.snap.eid
    BY <1>2, <1>6, <1>7, <1>8 DEF Owned, Exclusive
  <2>4. \A t \in ents', r \in rehomes', c \in Carried' : c.tok = r.tok => c.eid # t.snap.eid
    BY <1>1, <1>2, <1>3, <1>8 DEF Owned, Exclusive
  <2>5. \A z \in Posted', r \in rehomes', c \in Carried' :
          c.tok = r.tok => c.eid # ses'[z].snap.eid
    BY <1>1, <1>3, <1>6, <1>7 DEF Owned, Exclusive
  <2>. QED
    BY <1>1, <1>3, <2>1, <2>2, <2>3, <2>4, <2>5 DEF Owned, Exclusive
<1>13. Frozen'
  <2>1. \A h \in handoffs', t \in ents' : t.snap.eid = h.eid => t.pod = h.tok.sid /\ t.mig
    BY <1>1, <1>2, <1>8 DEF Owned, Frozen
  <2>2. \A h \in handoffs', z \in Posted' : ses'[z].snap.eid # h.eid
    BY <1>1, <1>6, <1>7 DEF Owned, Frozen
  <2>. QED
    BY <1>1, <1>3, <2>1, <2>2 DEF Owned, Frozen
<1>. QED
  BY <1>9, <1>10, <1>11, <1>12, <1>13 DEF Owned

\* A crossing freezes the one owner and opens a release under a new token.
LEMMA CrossOwned ==
  ASSUME TypeOK, Owned, Unique', NEW t \in ents, NEW dest \in Pods, CrossSeam(t, dest)
  PROVE  Owned'
<1>. DEFINE e == t.snap.eid
            tok == [sid |-> t.pod, n |-> migSeq[t.pod] + 1]
            u == [t EXCEPT !.mig = TRUE]
            h == [tok |-> tok, ses |-> t.ses, eid |-> t.snap.eid, dest |-> dest]
            f == [typ |-> "migrate", tok |-> tok, snap |-> t.snap]
            b == [tok |-> tok, eid |-> t.snap.eid]
<1>1. t \in Tracked /\ minted \in Histories /\ tok \in Tokens
  BY DEF TypeOK, Tracked, Tokens
<1>2. f \in Frames
  BY <1>1 DEF Frames, Migrates, Tracked
<1>3. /\ ~ t.mig
      /\ minted' = [minted EXCEPT !.toks = @ \cup {tok}, !.twice = @ \/ tok \in minted.toks]
      /\ UNCHANGED <<rehomes, pending, ses>>
  BY DEF CrossSeam
<1>4. /\ minted'.toks = minted.toks \cup {tok} /\ minted'.eids = minted.eids
      /\ tok \notin minted.toks
  BY <1>1, <1>3 DEF Histories, Unique
<1>5. \/ /\ ents' = (ents \ {t}) \cup {u}
         /\ handoffs' = handoffs \cup {h}
         /\ Send(t.pod, dest, f)
      \/ /\ BreakLink(t.pod, dest)
         /\ UNCHANGED <<ents, handoffs>>
  BY DEF CrossSeam
<1>6. u.pod = t.pod /\ u.ses = t.ses /\ u.snap.eid = e /\ u.mig
  BY <1>1 DEF Tracked
<1>7. h.tok = tok /\ h.ses = t.ses /\ h.eid = e
  OBVIOUS
<1>8. b = [tok |-> f.tok, eid |-> f.snap.eid] /\ b.tok = tok /\ b.eid = e
  OBVIOUS
<1>9. tok.sid = t.pod /\ t.pod \in Pods
  BY <1>1 DEF Tracked
<1>. HIDE DEF e, tok, u, h, f, b
<1>10. CASE BreakLink(t.pod, dest) /\ UNCHANGED <<ents, handoffs>>
  <2>1. Flying' \subseteq Flying
    BY <1>9, <1>10, FlyingAfter
  <2>2. Carried' \subseteq Carried
    BY <1>3, <2>1, CarriedShrinks
  <2>. QED
    BY <1>3, <1>4, <1>10, <2>2, Untouched
<1>11. CASE /\ ents' = (ents \ {t}) \cup {u}
            /\ handoffs' = handoffs \cup {h}
            /\ Send(t.pod, dest, f)
  <2>1. Flying' \subseteq Flying \cup {f}
    BY <1>2, <1>9, <1>11, FlyingAfter
  <2>2. Carried' \subseteq Carried \cup {b}
    BY <1>3, <1>8, <2>1 DEF Carried
  <2>3. Opened' = Opened /\ Posted' = Posted /\ Posted \subseteq Opened
    BY <1>3 DEF Opened, Posted
  <2>4. /\ \A c \in Carried : c.tok # tok
        /\ \A g \in handoffs : g.tok # tok
        /\ \A r \in rehomes : r.tok # tok
    BY <1>4 DEF Owned, Known
  <2>5. /\ \A g \in handoffs : g.eid # e
        /\ \A v \in ents \ {t} : v.snap.eid # e
        /\ \A z \in Posted : ses[z].snap.eid # e
        /\ \A r \in rehomes, c \in Carried : c.tok = r.tok => c.eid # e
    BY <1>3 DEF Owned, Exclusive, Frozen, e
  <2>6. t.ses \in Opened /\ ses[t.ses].snap.eid = e /\ e \in minted.eids
    BY DEF Owned, Grounded, Known, e
  <2>7. Grounded'
    BY <1>3, <1>6, <1>7, <1>11, <2>3, <2>6 DEF Owned, Grounded
  <2>8. Known'
    BY <1>3, <1>4, <1>7, <1>8, <1>11, <2>2, <2>3, <2>6 DEF Owned, Known
  <2>9. TokenOnce'
    BY <1>3, <1>7, <1>8, <1>11, <2>2, <2>4 DEF Owned, TokenOnce
  <2>10. Exclusive'
    <3>1. \A v, w \in ents' : v.snap.eid = w.snap.eid => v = w
      BY <1>6, <1>11, <2>5 DEF Owned, Exclusive
    <3>2. \A v \in ents', z \in Posted' : ses'[z].snap.eid # v.snap.eid
      BY <1>3, <1>6, <1>11, <2>3, <2>5 DEF Owned, Exclusive
    <3>3. \A r \in rehomes', c \in Carried' : c.tok = r.tok => c \in Carried
      BY <1>3, <1>8, <2>2, <2>4
    <3>4. \A v \in ents', r \in rehomes', c \in Carried' : c.tok = r.tok => c.eid # v.snap.eid
      BY <1>3, <1>6, <1>11, <2>5, <3>3 DEF Owned, Exclusive
    <3>. QED
      BY <1>3, <2>3, <3>1, <3>2, <3>3, <3>4 DEF Owned, Exclusive
  <2>11. Frozen'
    <3>1. \A g \in handoffs', v \in ents' : v.snap.eid = g.eid => v.pod = g.tok.sid /\ v.mig
      BY <1>6, <1>7, <1>9, <1>11, <2>5 DEF Owned, Frozen
    <3>2. \A g, k \in handoffs' : g.eid = k.eid => g = k
      BY <1>7, <1>11, <2>5 DEF Owned, Frozen
    <3>3. \A g \in handoffs', z \in Posted' : ses'[z].snap.eid # g.eid
      BY <1>3, <1>7, <1>11, <2>3, <2>5 DEF Owned, Frozen
    <3>4. \A g \in handoffs', r \in rehomes', c \in Carried' : c.tok = r.tok => c.eid # g.eid
      BY <1>3, <1>7, <1>8, <1>11, <2>2, <2>4, <2>5 DEF Owned, Frozen
    <3>. QED
      BY <3>1, <3>2, <3>3, <3>4 DEF Frozen
  <2>. QED
    BY <2>7, <2>8, <2>9, <2>10, <2>11 DEF Owned
<1>. QED
  BY <1>5, <1>10, <1>11

\* An ack passes the frozen player's entity on to the token; a refusal thaws
\* the player and closes its release.
LEMMA FinishOwned ==
  ASSUME TypeOK, Owned, NEW q \in Pods, NEW p \in Pods, FinishHandover(q, p)
  PROVE  Owned'
<1>. DEFINE m == Head(wire[<<q, p>>])
            mine == {h \in handoffs : h.tok = m.tok /\ h.tok.sid = p}
            frozen == {t \in ents : \E h \in mine : t.pod = p /\ t.ses = h.ses}
            told == {[ses |-> h.ses, dest |-> h.dest, tok |-> h.tok] : h \in mine}
<1>1. /\ wire[<<q, p>>] # <<>> /\ wire' = Taken(q, p)
      /\ handoffs' = handoffs \ mine
      /\ UNCHANGED <<pending, ses, minted>>
  BY DEF FinishHandover, Arrives
<1>2. Carried' \subseteq Carried
  <2>1. Flying' \subseteq Flying
    BY <1>1, FlyingAfter
  <2>. QED
    BY <1>1, <2>1, CarriedShrinks
<1>3. Opened' = Opened /\ Posted' = Posted /\ Posted \subseteq Opened
  BY <1>1 DEF Opened, Posted
<1>4. \A g, h \in mine : g = h
  BY DEF Owned, TokenOnce
<1>5. \A h \in mine : h \in handoffs /\ h.tok.sid = p
  OBVIOUS
<1>6. CASE m.ok
  <2>1. /\ ents' = {t \in ents : \A h \in mine : t \notin Released(p, h)}
        /\ rehomes' \subseteq rehomes \cup told
    BY <1>6 DEF FinishHandover
  <2>2. \A r \in told : \E h \in mine : r.tok = h.tok /\ r.ses = h.ses
    OBVIOUS
  <2>3. \A t \in ents' : t \in ents
    BY <2>1
  <2>4. \A t \in ents', h \in mine : t.snap.eid # h.eid
    BY <1>5, <2>1 DEF Owned, Frozen, Released, Here
  <2>5. \A r, z \in told : r = z
    BY <1>4
  <2>. HIDE DEF m, mine, told
  <2>6. \A r \in told, c \in Carried : c.tok = r.tok => \E h \in mine : c.eid = h.eid
    BY <1>5, <2>2 DEF Owned, TokenOnce
  <2>7. \A r \in told : r.tok \in minted.toks
    BY <1>5, <2>2 DEF Owned, Known
  <2>8. Grounded'
    BY <1>1, <1>3, <2>3 DEF Owned, Grounded
  <2>9. Known'
    BY <1>1, <1>2, <1>3, <2>1, <2>7 DEF Owned, Known
  <2>10. TokenOnce'
    <3>1. \A r, z \in rehomes' : r.tok = z.tok => r = z
      BY <1>5, <2>1, <2>2, <2>5 DEF Owned, TokenOnce
    <3>2. \A r \in rehomes', g \in handoffs' : r.tok # g.tok
      <4>. SUFFICES ASSUME NEW r \in told, NEW g \in handoffs \ mine, r.tok = g.tok
                    PROVE  FALSE
        BY <1>1, <2>1 DEF Owned, TokenOnce
      <4>1. PICK h \in mine : r.tok = h.tok
        BY <2>2
      <4>2. g = h
        BY <1>5, <4>1 DEF Owned, TokenOnce
      <4>. QED
        BY <4>1, <4>2
    <3>. QED
      BY <1>1, <1>2, <3>1, <3>2 DEF Owned, TokenOnce
  <2>11. Exclusive'
    <3>1. \A t \in ents', r \in rehomes', c \in Carried' : c.tok = r.tok => c.eid # t.snap.eid
      BY <1>2, <2>1, <2>3, <2>4, <2>6 DEF Owned, Exclusive
    <3>2. \A s \in Posted', r \in rehomes', c \in Carried' :
            c.tok = r.tok => c.eid # ses'[s].snap.eid
      BY <1>1, <1>2, <1>3, <1>5, <2>1, <2>6 DEF Owned, Exclusive, Frozen
    <3>3. \A r, z \in rehomes', c, d \in Carried' :
            c.tok = r.tok /\ d.tok = z.tok /\ c.eid = d.eid => r = z
      <4>1. \A r \in told, z \in rehomes, c, d \in Carried :
              ~ (c.tok = r.tok /\ d.tok = z.tok /\ c.eid = d.eid)
        BY <1>5, <2>6 DEF Owned, Frozen
      <4>. QED
        BY <1>2, <2>1, <2>5, <4>1 DEF Owned, Exclusive
    <3>4. /\ \A t, u \in ents' : t.snap.eid = u.snap.eid => t = u
          /\ \A s, z \in Posted' : ses'[s].snap.eid = ses'[z].snap.eid => s = z
          /\ \A t \in ents', s \in Posted' : ses'[s].snap.eid # t.snap.eid
      BY <1>1, <1>3, <2>3 DEF Owned, Exclusive
    <3>. QED
      BY <3>1, <3>2, <3>3, <3>4 DEF Exclusive
  <2>12. Frozen'
    <3>1. \A g \in handoffs', r \in rehomes', c \in Carried' : c.tok = r.tok => c.eid # g.eid
      <4>1. \A g \in handoffs', r \in told, c \in Carried : c.tok = r.tok => c.eid # g.eid
        BY <1>1, <1>5, <2>6 DEF Owned, Frozen
      <4>. QED
        BY <1>1, <1>2, <2>1, <4>1 DEF Owned, Frozen
    <3>. QED
      BY <1>1, <1>3, <2>3, <3>1 DEF Owned, Frozen
  <2>. QED
    BY <2>8, <2>9, <2>10, <2>11, <2>12 DEF Owned
<1>7. CASE ~ m.ok
  <2>. DEFINE thaw(t) == IF t \in frozen THEN [t EXCEPT !.mig = FALSE] ELSE t
  <2>1. UNCHANGED rehomes /\ \A u \in ents' : \E t \in ents : u = thaw(t)
    BY <1>7 DEF FinishHandover
  <2>2. \A t \in ents : /\ thaw(t).pod = t.pod /\ thaw(t).ses = t.ses
                        /\ thaw(t).snap = t.snap
                        /\ t \notin frozen => thaw(t) = t
    BY DEF TypeOK, Tracked
  <2>3. \A t \in frozen : t \in ents /\ \E h \in mine : h.eid = t.snap.eid
    BY <1>5 DEF Owned, Grounded
  <2>. HIDE DEF m, mine, frozen, thaw
  <2>4. \A u \in ents' : \E t \in ents : t.pod = u.pod /\ t.ses = u.ses /\ t.snap = u.snap
    BY <2>1, <2>2
  <2>5. \A t, u \in ents' : t.snap.eid = u.snap.eid => t = u
    BY <2>1, <2>2 DEF Owned, Exclusive
  <2>6. Grounded'
    BY <1>1, <1>3, <2>4 DEF Owned, Grounded
  <2>7. Known'
    BY <1>1, <1>2, <1>3, <2>1 DEF Owned, Known
  <2>8. TokenOnce'
    BY <1>1, <1>2, <2>1 DEF Owned, TokenOnce
  <2>9. Exclusive'
    BY <1>1, <1>2, <1>3, <2>1, <2>4, <2>5 DEF Owned, Exclusive
  <2>10. Frozen'
    <3>1. ASSUME NEW h \in handoffs', NEW u \in ents', u.snap.eid = h.eid
          PROVE  u.pod = h.tok.sid /\ u.mig
      <4>1. PICK t \in ents : u = thaw(t)
        BY <2>1
      <4>2. t.snap.eid = h.eid
        BY <2>2, <3>1, <4>1
      <4>3. t \notin frozen
        BY <1>1, <1>5, <2>3, <4>2 DEF Owned, Frozen
      <4>. QED
        BY <1>1, <2>2, <4>1, <4>2, <4>3 DEF Owned, Frozen
    <3>. QED
      BY <1>1, <1>2, <1>3, <2>1, <3>1 DEF Owned, Frozen
  <2>. QED
    BY <2>6, <2>7, <2>8, <2>9, <2>10 DEF Owned
<1>. QED
  BY <1>6, <1>7

(***************************************************************************)
(* The theorem.                                                            *)
(***************************************************************************)

\* A step that mints nothing twice had nothing minted twice before.
LEMMA StaysUnique ==
  ASSUME TypeOK, [Next]_vars, Unique'
  PROVE  Unique
<1>1. minted \in Histories
  BY DEF TypeOK
<1>. DEFINE Minted ==
       \/ minted' = minted
       \/ \E e : minted' = [minted EXCEPT !.eids = @ \cup {e}, !.twice = @ \/ e \in minted.eids]
       \/ \E k : minted' = [minted EXCEPT !.toks = @ \cup {k}, !.twice = @ \/ k \in minted.toks]
<1>2. HubStep => Minted
  <2>1. ASSUME NEW s \in Sessions, OnJoin(s) \/ OnLeave(s) \/ OnDimSwitch(s) PROVE Minted
    BY <2>1 DEF OnJoin, OnLeave, OnDimSwitch
  <2>2. ASSUME NEW t \in ents, LocalChange(t) PROVE Minted
    BY <2>2 DEF LocalChange
  <2>3. ASSUME NEW t \in ents, NEW q \in Pods, CrossSeam(t, q) PROVE Minted
    BY <2>3 DEF CrossSeam
  <2>4. ASSUME NEW m \in mobs, NEW q \in Pods, MobMove(m, q) PROVE Minted
    BY <2>4 DEF MobMove, BreakLink
  <2>5. ASSUME NEW p \in Pods, SaveMobs(p) PROVE Minted
    BY <2>5 DEF SaveMobs
  <2>6. ASSUME NEW q \in Pods, NEW p \in Pods, ApplyMigration(q, p) PROVE Minted
    BY <2>6 DEF ApplyMigration
  <2>7. ASSUME NEW q \in Pods, NEW p \in Pods, ApplyMobMigration(q, p) PROVE Minted
    BY <2>7 DEF ApplyMobMigration
  <2>8. ASSUME NEW q \in Pods, NEW p \in Pods, FinishHandover(q, p) PROVE Minted
    BY <2>8 DEF FinishHandover
  <2>. HIDE DEF Minted
  <2>. QED
    BY <2>1, <2>2, <2>3, <2>4, <2>5, <2>6, <2>7, <2>8 DEF HubStep
<1>3. GatewayStep => Minted
  <2>1. ASSUME NEW w \in Players, NEW s \in Sessions, NEW p \in Pods, Login(w, s, p) PROVE Minted
    BY <2>1 DEF Login
  <2>2. ASSUME NEW w \in Players, NEW s \in Sessions, NEW r \in rehomes, Resume(w, s, r)
        PROVE  Minted
    BY <2>2 DEF Resume
  <2>. QED
    BY <2>1, <2>2 DEF GatewayStep, SwitchDim, Quit, Close
<1>4. FaultStep => Minted
  BY DEF FaultStep, LinkDrop, LinkUp, BreakLink, Restart
<1>5. UNCHANGED vars => Minted
  BY DEF vars
<1>6. Minted
  BY <1>2, <1>3, <1>4, <1>5 DEF Next
<1>. QED
  BY <1>1, <1>6 DEF Histories, Unique

\* At boot nobody owns anything.
LEMMA OwnerInit == Init => OwnerInv
<1>. SUFFICES ASSUME Init PROVE Owned
  BY DEF OwnerInv
<1>1. ents = {} /\ handoffs = {} /\ rehomes = {} /\ pending = {}
  BY DEF Init
<1>2. Opened = {} /\ Posted = {}
  BY DEF Init, Opened, Posted
<1>3. Flying = {}
  <2>1. \A l \in Links : DOMAIN wire[l] = {}
    BY DEF Init, Links
  <2>. QED
    BY <2>1 DEF Flying
<1>4. Carried = {}
  BY <1>1, <1>3 DEF Carried
<1>. QED
  BY <1>1, <1>2, <1>4 DEF Owned, Grounded, Known, TokenOnce, Exclusive, Frozen

\* Every step keeps owners exclusive, as long as nothing is minted twice.
LEMMA OwnerStep == TypeOK /\ OwnerInv /\ [Next]_vars => OwnerInv'
<1>. SUFFICES ASSUME TypeOK, Owned, [Next]_vars, Unique' PROVE Owned'
  BY StaysUnique DEF OwnerInv
<1>1. CASE UNCHANGED vars
  <2>1. Carried' = Carried
    BY <1>1 DEF vars, Carried, Flying
  <2>. QED
    BY <1>1, <2>1, Untouched DEF vars
<1>2. CASE HubStep
  <2>1. ASSUME NEW s \in Sessions, OnJoin(s) \/ OnLeave(s) \/ OnDimSwitch(s) PROVE Owned'
    BY <2>1, JoinOwned, LeaveOwned, OnDimSwitchOwned
  <2>2. ASSUME NEW t \in ents, LocalChange(t) PROVE Owned'
    BY <2>2, ChangeOwned
  <2>3. ASSUME NEW t \in ents, NEW q \in Pods, CrossSeam(t, q) PROVE Owned'
    BY <2>3, CrossOwned
  <2>4. ASSUME NEW m \in mobs, NEW q \in Pods, MobMove(m, q) PROVE Owned'
    BY <2>4, MobOwned
  <2>5. ASSUME NEW p \in Pods, SaveMobs(p) PROVE Owned'
    <3>1. UNCHANGED <<ents, handoffs, rehomes, ses, minted, pending, wire>>
      BY <2>5 DEF SaveMobs
    <3>2. Carried' = Carried
      BY <3>1 DEF Carried, Flying
    <3>. QED
      BY <3>1, <3>2, Untouched
  <2>6. ASSUME NEW q \in Pods, NEW p \in Pods,
               ApplyMigration(q, p) \/ ApplyMobMigration(q, p) \/ FinishHandover(q, p)
        PROVE  Owned'
    BY <2>6, ArrivalOwned, FinishOwned
  <2>. QED
    BY <1>2, <2>1, <2>2, <2>3, <2>4, <2>5, <2>6 DEF HubStep
<1>3. CASE GatewayStep
  <2>1. ASSUME NEW w \in Players, NEW s \in Sessions, NEW p \in Pods, Login(w, s, p)
        PROVE  Owned'
    BY <2>1, LoginOwned
  <2>2. ASSUME NEW w \in Players, NEW s \in Sessions, NEW r \in rehomes, Resume(w, s, r)
        PROVE  Owned'
    BY <2>2, ResumeOwned
  <2>3. ASSUME NEW w \in Players, Quit(w) PROVE Owned'
    <3>1. UNCHANGED <<ents, handoffs, rehomes, ses, minted, pending, wire>>
      BY <2>3 DEF Quit
    <3>2. Carried' = Carried
      BY <3>1 DEF Carried, Flying
    <3>. QED
      BY <3>1, <3>2, Untouched
  <2>4. ASSUME NEW s \in Sessions, Close(s) PROVE Owned'
    <3>1. /\ UNCHANGED <<ents, handoffs, rehomes, minted, pending, wire>>
          /\ ses[s] # Unused /\ ses' = [ses EXCEPT ![s].closed = TRUE]
      BY <2>4 DEF Close
    <3>2. Carried' = Carried
      BY <3>1 DEF Carried, Flying
    <3>3. /\ Opened' = Opened /\ Posted' \subseteq Posted
          /\ \A z \in Opened : ses'[z].snap = ses[z].snap
      BY <3>1, SessionField
    <3>4. \A t, u \in ents' : t.snap.eid = u.snap.eid => t = u
      BY <3>1 DEF Owned, Exclusive
    <3>. QED
      BY <3>1, <3>2, <3>3, <3>4, Weaken
  <2>5. ASSUME NEW s \in Sessions, NEW d \in Dims, SwitchDim(s, d) PROVE Owned'
    BY <2>5, SwitchDimOwned
  <2>. QED
    BY <1>3, <2>1, <2>2, <2>3, <2>4, <2>5 DEF GatewayStep
<1>4. CASE FaultStep
  <2>1. ASSUME NEW p \in Pods, NEW q \in Pods, LinkDrop(p, q) \/ LinkUp(p, q) PROVE Owned'
    <3>1. UNCHANGED <<ents, handoffs, rehomes, ses, minted, pending>>
      BY <2>1 DEF LinkDrop, LinkUp
    <3>2. Flying' \subseteq Flying
      <4>1. CASE LinkDrop(p, q)
        BY <4>1, FlyingAfter DEF LinkDrop
      <4>2. CASE LinkUp(p, q)
        BY <4>2 DEF LinkUp, Flying
      <4>. QED
        BY <2>1, <4>1, <4>2
    <3>3. Carried' \subseteq Carried
      BY <3>1, <3>2, CarriedShrinks
    <3>. QED
      BY <3>1, <3>3, Untouched
  <2>2. ASSUME NEW p \in Pods, Restart(p) PROVE Owned'
    BY <2>2, RestartOwned
  <2>. QED
    BY <1>4, <2>1, <2>2 DEF FaultStep
<1>. QED
  BY <1>1, <1>2, <1>3, <1>4 DEF Next

\* Whatever links drop, frames are lost and pods die, an entity is simulated
\* by at most one pod, once, as long as ids are unique.
THEOREM OneOwnerAlways == Spec => []OneOwner
<1>1. OwnerInv => OneOwner
  BY DEF OwnerInv, Owned, Exclusive, OneOwner
<1>. QED
  BY TypeCorrect, OwnerInit, OwnerStep, <1>1, PTL DEF Spec

(***************************************************************************)
(* Whose state is whose.  A player only ever plays its own state: the      *)
(* snapshot that is held or flies under a token is of the player whose     *)
(* session the token was minted for, and only that session's gateway       *)
(* claims it.                                                              *)
(***************************************************************************)

\* Whose snapshot is held, or on its way, under which token.
Borne ==
  {[tok |-> x.tok, who |-> x.snap.who] : x \in pending}
    \cup {[tok |-> m.tok, who |-> m.snap.who] : m \in {f \in Flying : f.typ = "migrate"}}

\* A session is of the player whose state it was opened with; so is the
\* player it plays, and the gateway it is the home of.
OfSessions ==
  /\ \A s \in Opened : ses[s].snap.who = ses[s].who
  /\ \A t \in ents : t.ses \in Opened /\ t.snap.who = ses[t.ses].who
  /\ \A w \in Players : home[w] # Offline => home[w] \in Opened /\ ses[home[w]].who = w

\* What travels or waits under the token of a release or a re-home is its
\* session's player.
OfTokens ==
  /\ \A h \in handoffs : h.ses \in Opened /\ h.tok \in minted.toks
  /\ \A r \in rehomes : r.ses \in Opened /\ r.tok \in minted.toks
  /\ \A c \in Borne : c.tok \in minted.toks
  /\ \A h \in handoffs, c \in Borne : c.tok = h.tok => c.who = ses[h.ses].who
  /\ \A r \in rehomes, c \in Borne : c.tok = r.tok => c.who = ses[r.ses].who

Rightful == OfSessions /\ OfTokens

\* What makes OwnState inductive.
StateInv == Unique => Rightful

(***************************************************************************)
(* Steps that pass nobody's state on.                                      *)
(***************************************************************************)

\* A snapshot is carried on only if it was held or in flight.
LEMMA BorneShrinks ==
  ASSUME \A x \in pending' :
           \/ x \in pending
           \/ \E m \in Flying : m.typ = "migrate" /\ m.tok = x.tok /\ m.snap = x.snap,
         \A m \in Flying' : m.typ = "migrate" => m \in Flying
  PROVE  Borne' \subseteq Borne
<1>. SUFFICES ASSUME NEW c \in Borne' PROVE c \in Borne
  OBVIOUS
<1>1. CASE \E x \in pending' : c = [tok |-> x.tok, who |-> x.snap.who]
  BY <1>1 DEF Borne
<1>2. CASE \E m \in Flying' : m.typ = "migrate" /\ c = [tok |-> m.tok, who |-> m.snap.who]
  BY <1>2 DEF Borne
<1>. QED
  BY <1>1, <1>2 DEF Borne

\* Sessions opened for a player stay that player's.
Steady ==
  /\ Opened' = Opened
  /\ \A z \in Opened : ses'[z].who = ses[z].who /\ ses'[z].snap.who = ses[z].snap.who

LEMMA Keeps ==
  ASSUME TypeOK, Rightful, Steady,
         \A u \in ents' : \E t \in ents : t.ses = u.ses /\ t.snap.who = u.snap.who,
         \A h \in handoffs' : h \in handoffs,
         \A r \in rehomes' : \/ r \in rehomes
                             \/ \E h \in handoffs : r.ses = h.ses /\ r.tok = h.tok,
         Borne' \subseteq Borne, minted.toks \subseteq minted'.toks,
         \A w \in Players : home'[w] = home[w] \/ home'[w] = Offline
  PROVE  Rightful'
<1>1. OfSessions'
  <2>1. \A s \in Opened' : ses'[s].snap.who = ses'[s].who
    BY DEF Steady, Rightful, OfSessions
  <2>2. \A u \in ents' : u.ses \in Opened' /\ u.snap.who = ses'[u.ses].who
    BY DEF Steady, Rightful, OfSessions
  <2>3. \A w \in Players : home'[w] # Offline => home'[w] \in Opened' /\ ses'[home'[w]].who = w
    BY DEF Steady, Rightful, OfSessions
  <2>. QED
    BY <2>1, <2>2, <2>3 DEF OfSessions
<1>2. OfTokens'
  <2>1. \A h \in handoffs' : h.ses \in Opened' /\ h.tok \in minted'.toks
    BY DEF Steady, Rightful, OfTokens
  <2>2. \A r \in rehomes' : r.ses \in Opened' /\ r.tok \in minted'.toks
    BY DEF Steady, Rightful, OfTokens
  <2>3. \A h \in handoffs', c \in Borne' : c.tok = h.tok => c.who = ses'[h.ses].who
    BY DEF Steady, Rightful, OfTokens
  <2>4. \A r \in rehomes', c \in Borne' : c.tok = r.tok => c.who = ses'[r.ses].who
    BY DEF Steady, Rightful, OfTokens
  <2>5. \A c \in Borne' : c.tok \in minted'.toks
    BY DEF Rightful, OfTokens
  <2>. QED
    BY <2>1, <2>2, <2>3, <2>4, <2>5 DEF OfTokens
<1>. QED
  BY <1>1, <1>2 DEF Rightful

\* A session's status, dimension and closed flag are not whose it is.
LEMMA FieldSteady ==
  ASSUME TypeOK, NEW s \in Sessions, ses[s] # Unused,
         \/ \E st \in {"live", "left"} : ses' = [ses EXCEPT ![s].st = st]
         \/ ses' = [ses EXCEPT ![s].closed = TRUE]
         \/ \E d \in Dims : ses' = [ses EXCEPT ![s] = [@ EXCEPT !.dim = d, !.moving = TRUE]]
         \/ ses' = [ses EXCEPT ![s] = [@ EXCEPT !.moving = FALSE]]
  PROVE  Steady
<1>1. ses[s] \in Session /\ ses \in [Sessions -> Session \cup {Unused}] /\ s \in Opened
  BY DEF TypeOK, Opened
<1>2. ses'[s].who = ses[s].who
  <2>1. \/ \E st \in {"live", "left"} : ses'[s] = [ses[s] EXCEPT !.st = st]
        \/ ses'[s] = [ses[s] EXCEPT !.closed = TRUE]
        \/ \E d \in Dims : ses'[s] = [ses[s] EXCEPT !.dim = d, !.moving = TRUE]
        \/ ses'[s] = [ses[s] EXCEPT !.moving = FALSE]
    BY <1>1
  <2>. QED
    BY <1>1, <2>1 DEF Session
<1>3. \A z \in Sessions \ {s} : ses'[z] = ses[z]
  BY <1>1
<1>4. Opened' = Opened /\ \A z \in Opened : ses'[z].snap = ses[z].snap
  BY SessionField
<1>. QED
  BY <1>2, <1>3, <1>4 DEF Steady, Opened

LEMMA SameSteady ==
  ASSUME UNCHANGED ses
  PROVE  Steady
  BY DEF Steady, Opened

\* Hub steps that change a player's state but not whose it is, or drop it.
LEMMA HubKeeps ==
  ASSUME TypeOK, Rightful, NEW s \in Sessions, OnLeave(s) \/ OnDimSwitch(s)
  PROVE  Rightful'
<1>1. /\ UNCHANGED <<handoffs, rehomes, pending, wire, minted, home>>
      /\ Borne' = Borne
  BY DEF OnLeave, OnDimSwitch, Borne, Flying
<1>2. Steady
  BY FieldSteady DEF OnLeave, OnDimSwitch, TypeOK
<1>3. \A u \in ents' : \E t \in ents : t.ses = u.ses /\ t.snap.who = u.snap.who
  <2>1. CASE OnLeave(s)
    BY <2>1 DEF OnLeave
  <2>2. CASE OnDimSwitch(s)
    <3>1. \A u \in ents' : u \in ents \/ \E t \in ents : u = [t EXCEPT !.snap.dim = ses[s].dim]
      BY <2>2 DEF OnDimSwitch, Here
    <3>2. \A t \in ents : LET u == [t EXCEPT !.snap.dim = ses[s].dim]
                          IN  u.ses = t.ses /\ u.snap.who = t.snap.who
      BY DEF TypeOK, Tracked, Snaps
    <3>. QED
      BY <3>1, <3>2
  <2>. QED
    BY <2>1, <2>2
<1>. QED
  BY <1>1, <1>2, <1>3, Keeps

LEMMA ChangeKeeps ==
  ASSUME TypeOK, Rightful, NEW t \in ents, LocalChange(t)
  PROVE  Rightful'
<1>. DEFINE u == [t EXCEPT !.snap.rev = @ + 1]
<1>1. t \in Tracked
  BY DEF TypeOK
<1>2. /\ ents' = (ents \ {t}) \cup {u}
      /\ UNCHANGED <<handoffs, rehomes, pending, wire, ses, minted, home>>
      /\ Borne' = Borne
  BY DEF LocalChange, Borne, Flying
<1>3. u.ses = t.ses /\ u.snap.who = t.snap.who
  BY <1>1 DEF Tracked, Snaps
<1>. HIDE DEF u
<1>4. \A v \in ents' : \E z \in ents : z.ses = v.ses /\ z.snap.who = v.snap.who
  BY <1>2, <1>3
<1>. QED
  BY <1>2, <1>4, SameSteady, Keeps

\* What neither moves a player nor mints a token for one.
LEMMA AsideKeeps ==
  ASSUME TypeOK, Rightful, UNCHANGED <<ents, handoffs, rehomes>>, Steady,
         \A w \in Players : home'[w] = home[w] \/ home'[w] = Offline,
         Borne' \subseteq Borne, minted.toks \subseteq minted'.toks
  PROVE  Rightful'
<1>1. \A u \in ents' : \E t \in ents : t.ses = u.ses /\ t.snap.who = u.snap.who
  OBVIOUS
<1>. QED
  BY <1>1, Keeps

\* A session's own steps: nothing that travels or waits changes.
LEMMA GatewayKeeps ==
  ASSUME TypeOK, Rightful, Steady,
         UNCHANGED <<ents, handoffs, rehomes, minted, pending, wire, home>>
  PROVE  Rightful'
<1>1. Borne' = Borne
  BY DEF Borne, Flying
<1>. QED
  BY <1>1, AsideKeeps

LEMMA MobKeeps ==
  ASSUME TypeOK, Rightful, NEW m \in mobs, NEW q \in Pods, MobMove(m, q)
  PROVE  Rightful'
<1>. DEFINE tok == [sid |-> m.pod, n |-> migSeq[m.pod] + 1]
            f == [typ |-> "mob", tok |-> tok, id |-> m.id, dim |-> m.dim]
<1>1. m \in Mob /\ m.pod \in Pods
  BY DEF TypeOK, Mob
<1>2. tok \in Tokens
  BY <1>1 DEF TypeOK, Tokens
<1>3. f \in Frames /\ f.typ # "migrate"
  BY <1>1, <1>2 DEF Frames, MobMoves, Mob
<1>4. /\ UNCHANGED <<ents, handoffs, rehomes, ses, pending, home>>
      /\ minted.toks \subseteq minted'.toks
  BY DEF MobMove, TypeOK, Histories
<1>5. Send(m.pod, q, f) \/ BreakLink(m.pod, q)
  BY DEF MobMove
<1>. HIDE DEF tok, f
<1>6. Flying' \subseteq Flying \cup {f}
  BY <1>1, <1>3, <1>5, FlyingAfter
<1>7. Borne' \subseteq Borne
  BY <1>3, <1>4, <1>6, BorneShrinks
<1>. QED
  BY <1>4, <1>7, SameSteady, AsideKeeps

\* What a pod answers a migrate or a mob with is an ack, and what it holds it
\* was sent.
LEMMA Arrival ==
  ASSUME TypeOK, NEW q \in Pods, NEW p \in Pods,
         ApplyMigration(q, p) \/ ApplyMobMigration(q, p)
  PROVE  /\ \A f \in Flying' : f.typ = "migrate" => f \in Flying
         /\ \A x \in pending' :
              \/ x \in pending
              \/ \E m \in Flying : m.typ = "migrate" /\ m.tok = x.tok /\ m.snap = x.snap
<1>. DEFINE m == Head(wire[<<q, p>>])
            yes == [typ |-> "ack", tok |-> m.tok, ok |-> TRUE]
            no == [typ |-> "ack", tok |-> m.tok, ok |-> FALSE]
<1>1. wire[<<q, p>>] # <<>>
  BY DEF ApplyMigration, ApplyMobMigration, Arrives
<1>2. m \in Flying /\ m \in Frames
  BY <1>1, HeadFlies, TakenType DEF TypeOK, Links
<1>3. yes \in Frames /\ no \in Frames /\ yes.typ # "migrate" /\ no.typ # "migrate"
  BY <1>2 DEF Frames, Migrates, MobMoves, Acks
<1>4. \/ wire' = Taken(q, p)
      \/ wire' = Answered(q, p, yes)
      \/ wire' = Answered(q, p, no)
  <2>1. CASE ApplyMigration(q, p)
    <3>1. wire' = AckOf(q, p, m, m.snap.dim \in DimsOf[p])
      BY <2>1 DEF ApplyMigration
    <3>2. CASE m.snap.dim \in DimsOf[p]
      <4>1. (m.snap.dim \in DimsOf[p]) = TRUE
        BY <3>2
      <4>. QED
        BY <3>1, <4>1, Zenon DEF AckOf
    <3>3. CASE m.snap.dim \notin DimsOf[p]
      <4>1. (m.snap.dim \in DimsOf[p]) = FALSE
        BY <3>3
      <4>. QED
        BY <3>1, <4>1, Zenon DEF AckOf
    <3>. QED
      BY <3>2, <3>3
  <2>2. CASE ApplyMobMigration(q, p)
    BY <2>2 DEF ApplyMobMigration, AckOf
  <2>. QED
    BY <2>1, <2>2
<1>5. \A x \in pending' :
        \/ x \in pending
        \/ \E f \in Flying : f.typ = "migrate" /\ f.tok = x.tok /\ f.snap = x.snap
  <2>1. CASE ApplyMigration(q, p)
    <3>1. m.typ = "migrate"
      BY <2>1 DEF ApplyMigration, Arrives
    <3>2. pending' \subseteq pending \cup {[pod |-> p, tok |-> m.tok, snap |-> m.snap]}
      BY <2>1 DEF ApplyMigration, Held
    <3>. QED
      BY <1>2, <3>1, <3>2
  <2>2. CASE ApplyMobMigration(q, p)
    BY <2>2 DEF ApplyMobMigration
  <2>. QED
    BY <2>1, <2>2
<1>. HIDE DEF m, yes, no
<1>6. Flying' \subseteq Flying \cup {yes, no}
  BY <1>1, <1>3, <1>4, FlyingAfter
<1>. QED
  BY <1>3, <1>5, <1>6

LEMMA ArrivalKeeps ==
  ASSUME TypeOK, Rightful, NEW q \in Pods, NEW p \in Pods,
         ApplyMigration(q, p) \/ ApplyMobMigration(q, p)
  PROVE  Rightful'
<1>1. UNCHANGED <<ents, handoffs, rehomes, ses, minted, home>>
  BY DEF ApplyMigration, ApplyMobMigration
<1>2. Borne' \subseteq Borne
  BY Arrival, BorneShrinks
<1>. QED
  BY <1>1, <1>2, SameSteady, AsideKeeps

LEMMA RestartKeeps ==
  ASSUME TypeOK, Rightful, NEW p \in Pods, Restart(p)
  PROVE  Rightful'
<1>1. /\ ents' \subseteq ents /\ handoffs' \subseteq handoffs /\ rehomes' \subseteq rehomes
      /\ pending' \subseteq pending /\ UNCHANGED <<minted, home>>
  BY DEF Restart
<1>2. Borne' \subseteq Borne
  BY <1>1, FlyingAfter, BorneShrinks
<1>3. \A z \in Sessions :
        \/ ses'[z] = ses[z]
        \/ /\ ses[z] # Unused /\ ses'[z] # Unused
           /\ ses'[z].snap = ses[z].snap /\ ses'[z].who = ses[z].who
  <2>. SUFFICES ASSUME NEW z \in Sessions, ses'[z] # ses[z]
                PROVE  /\ ses[z] # Unused /\ ses'[z] # Unused
                       /\ ses'[z].snap = ses[z].snap /\ ses'[z].who = ses[z].who
    OBVIOUS
  <2>1. z \in Opened /\ ses'[z] = [ses[z] EXCEPT !.st = "left", !.closed = TRUE, !.moving = FALSE]
    BY DEF Restart
  <2>2. ses[z] \in Session
    BY <2>1 DEF Opened, TypeOK
  <2>3. ses'[z] \in Session /\ ses'[z].snap = ses[z].snap /\ ses'[z].who = ses[z].who
    BY <2>1, <2>2 DEF Session
  <2>. QED
    BY <2>1, <2>3, UnusedAssumption DEF Opened
<1>4. Steady
  BY <1>3 DEF Steady, Opened
<1>5. \A u \in ents' : \E t \in ents : t.ses = u.ses /\ t.snap.who = u.snap.who
  BY <1>1
<1>. QED
  BY <1>1, <1>2, <1>4, <1>5, Keeps

(***************************************************************************)
(* Steps that open a session or a release, or pass one on.                 *)
(***************************************************************************)

\* A session opened with its own player's state.
LEMMA OpenRightful ==
  ASSUME TypeOK, Rightful, NEW w \in Players, NEW s \in Sessions, s \notin Opened,
         Opened' = Opened \cup {s}, \A z \in Opened : ses'[z] = ses[z],
         ses'[s].who = w, ses'[s].snap.who = w,
         UNCHANGED <<ents, handoffs>>, rehomes' \subseteq rehomes, Borne' \subseteq Borne,
         minted'.toks = minted.toks, home' = [home EXCEPT ![w] = s]
  PROVE  Rightful'
<1>1. OfSessions'
  <2>1. \A z \in Opened' : ses'[z].snap.who = ses'[z].who
    BY DEF Rightful, OfSessions
  <2>2. \A t \in ents' : t.ses \in Opened' /\ t.snap.who = ses'[t.ses].who
    BY DEF Rightful, OfSessions
  <2>3. \A v \in Players : home'[v] # Offline => home'[v] \in Opened' /\ ses'[home'[v]].who = v
    BY DEF Rightful, OfSessions, TypeOK
  <2>. QED
    BY <2>1, <2>2, <2>3 DEF OfSessions
<1>2. OfTokens'
  BY DEF Rightful, OfTokens
<1>. QED
  BY <1>1, <1>2 DEF Rightful

LEMMA LoginRightful ==
  ASSUME TypeOK, Rightful, NEW w \in Players, NEW s \in Sessions, NEW p \in Pods,
         Login(w, s, p)
  PROVE  Rightful'
<1>. DEFINE k == [who |-> w, eid |-> MintPlayerEID(p), dim |-> Overworld, rev |-> 0]
<1>1. /\ minted'.toks = minted.toks /\ home' = [home EXCEPT ![w] = s]
      /\ UNCHANGED <<ents, handoffs, pending, rehomes, wire>>
      /\ s \notin Opened
  BY DEF Login, TypeOK, Histories, Opened
<1>2. ses'[s] = Joining(w, p, k) /\ \A z \in Sessions \ {s} : ses'[z] = ses[z]
  BY DEF Login, TypeOK
<1>3. ses'[s] # Unused
  <2>1. MintPlayerEID(p) \in EIDs
    BY Bounds DEF Login, TypeOK, MintPlayerEID, EIDs
  <2>2. k \in Snaps
    BY <2>1, Bounds, ConstantsAssumption DEF Snaps
  <2>. QED
    BY <1>2, <2>2, JoiningType, UnusedAssumption
<1>4. ses'[s].who = w /\ ses'[s].snap.who = w
  BY <1>2 DEF Joining
<1>. HIDE DEF k
<1>5. Opened' = Opened \cup {s} /\ \A z \in Opened : ses'[z] = ses[z]
  BY <1>1, <1>2, <1>3 DEF Opened
<1>6. Borne' = Borne
  BY <1>1 DEF Borne, Flying
<1>. QED
  BY <1>1, <1>4, <1>5, <1>6, OpenRightful

\* The gateway that was told a token is its session's, and so is what it claims.
LEMMA ResumeRightful ==
  ASSUME TypeOK, Rightful, NEW w \in Players, NEW s \in Sessions, NEW r \in rehomes,
         Resume(w, s, r)
  PROVE  Rightful'
<1>1. /\ UNCHANGED <<ents, handoffs, wire, minted>>
      /\ rehomes' = rehomes \ {r} /\ pending' \subseteq pending
      /\ ses[s] = Unused /\ home[w] = r.ses
  BY DEF Resume
<1>2. Borne' \subseteq Borne
  BY <1>1 DEF Borne, Flying
<1>3. CASE ses' = ses /\ home' = [home EXCEPT ![w] = Offline]
  <2>1. \A v \in Players : home'[v] = home[v] \/ home'[v] = Offline
    BY <1>3 DEF TypeOK
  <2>2. \A u \in ents' : \E t \in ents : t.ses = u.ses /\ t.snap.who = u.snap.who
    BY <1>1
  <2>. QED
    BY <1>1, <1>2, <1>3, <2>1, <2>2, SameSteady, Keeps
<1>4. CASE \E x \in Claimed(r) : /\ home' = [home EXCEPT ![w] = s]
                                 /\ ses' = [ses EXCEPT ![s] = Joining(w, r.dest, x.snap)]
  <2>1. PICK x \in Claimed(r) : /\ home' = [home EXCEPT ![w] = s]
                                /\ ses' = [ses EXCEPT ![s] = Joining(w, r.dest, x.snap)]
    BY <1>4
  <2>2. x \in pending /\ x.tok = r.tok
    BY DEF Claimed
  <2>3. r \in Rehome /\ x \in Pending
    BY <2>2 DEF TypeOK
  <2>4. x.snap.who = w
    <3>1. [tok |-> x.tok, who |-> x.snap.who] \in Borne
      BY <2>2 DEF Borne
    <3>2. x.snap.who = ses[r.ses].who
      BY <2>2, <3>1 DEF Rightful, OfTokens
    <3>3. home[w] # Offline
      BY <1>1, <2>3, OfflineAssumption DEF Rehome
    <3>. QED
      BY <1>1, <3>2, <3>3 DEF Rightful, OfSessions
  <2>5. ses'[s] = Joining(w, r.dest, x.snap) /\ \A z \in Sessions \ {s} : ses'[z] = ses[z]
    BY <2>1 DEF TypeOK
  <2>6. ses'[s] # Unused
    BY <2>3, <2>5, JoiningType, UnusedAssumption DEF Rehome, Pending
  <2>7. ses'[s].who = w /\ ses'[s].snap.who = w
    BY <2>4, <2>5 DEF Joining
  <2>8. s \notin Opened /\ Opened' = Opened \cup {s} /\ \A z \in Opened : ses'[z] = ses[z]
    BY <1>1, <2>5, <2>6 DEF Opened
  <2>. QED
    BY <1>1, <1>2, <2>1, <2>7, <2>8, OpenRightful
<1>. QED
  BY <1>3, <1>4 DEF Resume

LEMMA JoinRightful ==
  ASSUME TypeOK, Rightful, NEW s \in Sessions, OnJoin(s)
  PROVE  Rightful'
<1>. DEFINE n == [pod |-> ses[s].pod, ses |-> s, mig |-> FALSE, snap |-> ses[s].snap]
<1>1. /\ ses[s] # Unused /\ s \in Opened
      /\ ses' = [ses EXCEPT ![s].st = "live"]
      /\ UNCHANGED <<handoffs, rehomes, pending, wire, minted, home>>
      /\ \A t \in ents' : t \in ents \/ t = n
  BY DEF OnJoin, Opened
<1>2. n.ses = s /\ n.snap.who = ses[s].snap.who
  OBVIOUS
<1>. HIDE DEF n
<1>3. Steady
  BY <1>1, FieldSteady
<1>4. Borne' = Borne
  BY <1>1 DEF Borne, Flying
<1>5. OfSessions'
  <2>1. \A z \in Opened' : ses'[z].snap.who = ses'[z].who
    BY <1>3 DEF Steady, Rightful, OfSessions
  <2>2. \A t \in ents' : t.ses \in Opened' /\ t.snap.who = ses'[t.ses].who
    BY <1>1, <1>2, <1>3 DEF Steady, Rightful, OfSessions
  <2>3. \A w \in Players : home'[w] # Offline => home'[w] \in Opened' /\ ses'[home'[w]].who = w
    BY <1>1, <1>3 DEF Steady, Rightful, OfSessions
  <2>. QED
    BY <2>1, <2>2, <2>3 DEF OfSessions
<1>6. OfTokens'
  BY <1>1, <1>3, <1>4 DEF Steady, Rightful, OfTokens
<1>. QED
  BY <1>5, <1>6 DEF Rightful

\* A crossing sends its own player's state under a token nobody has seen.
LEMMA CrossRightful ==
  ASSUME TypeOK, Rightful, Unique', NEW t \in ents, NEW dest \in Pods, CrossSeam(t, dest)
  PROVE  Rightful'
<1>. DEFINE tok == [sid |-> t.pod, n |-> migSeq[t.pod] + 1]
            u == [t EXCEPT !.mig = TRUE]
            h == [tok |-> tok, ses |-> t.ses, eid |-> t.snap.eid, dest |-> dest]
            f == [typ |-> "migrate", tok |-> tok, snap |-> t.snap]
            b == [tok |-> tok, who |-> t.snap.who]
<1>1. t \in Tracked /\ minted \in Histories /\ tok \in Tokens
  BY DEF TypeOK, Tracked, Tokens
<1>2. f \in Frames /\ t.pod \in Pods
  BY <1>1 DEF Frames, Migrates, Tracked
<1>3. /\ minted' = [minted EXCEPT !.toks = @ \cup {tok}, !.twice = @ \/ tok \in minted.toks]
      /\ UNCHANGED <<rehomes, pending, ses, home>>
  BY DEF CrossSeam
<1>4. minted'.toks = minted.toks \cup {tok} /\ tok \notin minted.toks
  BY <1>1, <1>3 DEF Histories, Unique
<1>5. \/ /\ ents' = (ents \ {t}) \cup {u}
         /\ handoffs' = handoffs \cup {h}
         /\ Send(t.pod, dest, f)
      \/ /\ BreakLink(t.pod, dest)
         /\ UNCHANGED <<ents, handoffs>>
  BY DEF CrossSeam
<1>6. u.ses = t.ses /\ u.snap.who = t.snap.who
  BY <1>1 DEF Tracked
<1>7. h.tok = tok /\ h.ses = t.ses
  OBVIOUS
<1>8. b = [tok |-> f.tok, who |-> f.snap.who] /\ b.tok = tok /\ b.who = t.snap.who
  OBVIOUS
<1>9. t.ses \in Opened /\ t.snap.who = ses[t.ses].who
  BY DEF Rightful, OfSessions
<1>. HIDE DEF tok, u, h, f, b
<1>10. CASE BreakLink(t.pod, dest) /\ UNCHANGED <<ents, handoffs>>
  <2>1. Flying' \subseteq Flying
    BY <1>2, <1>10, FlyingAfter
  <2>2. Borne' \subseteq Borne
    BY <1>3, <2>1, BorneShrinks
  <2>. QED
    BY <1>3, <1>4, <1>10, <2>2, SameSteady, AsideKeeps
<1>11. CASE /\ ents' = (ents \ {t}) \cup {u}
            /\ handoffs' = handoffs \cup {h}
            /\ Send(t.pod, dest, f)
  <2>1. Flying' \subseteq Flying \cup {f}
    BY <1>2, <1>11, FlyingAfter
  <2>2. Borne' \subseteq Borne \cup {b}
    BY <1>3, <1>8, <2>1 DEF Borne
  <2>3. Opened' = Opened
    BY <1>3 DEF Opened
  <2>4. /\ \A c \in Borne : c.tok # tok
        /\ \A g \in handoffs : g.tok # tok
        /\ \A r \in rehomes : r.tok # tok
    BY <1>4 DEF Rightful, OfTokens
  <2>5. OfSessions'
    BY <1>3, <1>6, <1>11, <2>3 DEF Rightful, OfSessions
  <2>6. OfTokens'
    <3>1. \A g \in handoffs', c \in Borne' : c.tok = g.tok => c.who = ses'[g.ses].who
      BY <1>3, <1>7, <1>8, <1>9, <1>11, <2>2, <2>4 DEF Rightful, OfTokens
    <3>2. \A r \in rehomes', c \in Borne' : c.tok = r.tok => c.who = ses'[r.ses].who
      BY <1>3, <1>8, <2>2, <2>4 DEF Rightful, OfTokens
    <3>3. \A g \in handoffs' : g.ses \in Opened' /\ g.tok \in minted'.toks
      BY <1>4, <1>7, <1>9, <1>11, <2>3 DEF Rightful, OfTokens
    <3>4. \A r \in rehomes' : r.ses \in Opened' /\ r.tok \in minted'.toks
      BY <1>3, <1>4, <2>3 DEF Rightful, OfTokens
    <3>5. \A c \in Borne' : c.tok \in minted'.toks
      BY <1>4, <1>8, <2>2 DEF Rightful, OfTokens
    <3>. QED
      BY <3>1, <3>2, <3>3, <3>4, <3>5 DEF OfTokens
  <2>. QED
    BY <2>5, <2>6 DEF Rightful
<1>. QED
  BY <1>5, <1>10, <1>11

\* A release that ends tells its own session the token, or thaws its player.
LEMMA FinishRightful ==
  ASSUME TypeOK, Rightful, NEW q \in Pods, NEW p \in Pods, FinishHandover(q, p)
  PROVE  Rightful'
<1>. DEFINE m == Head(wire[<<q, p>>])
            mine == {h \in handoffs : h.tok = m.tok /\ h.tok.sid = p}
            frozen == {t \in ents : \E h \in mine : t.pod = p /\ t.ses = h.ses}
<1>1. /\ wire[<<q, p>>] # <<>> /\ wire' = Taken(q, p)
      /\ handoffs' = handoffs \ mine
      /\ UNCHANGED <<pending, ses, minted, home>>
  BY DEF FinishHandover, Arrives
<1>2. Borne' \subseteq Borne
  <2>1. Flying' \subseteq Flying
    BY <1>1, FlyingAfter
  <2>. QED
    BY <1>1, <2>1, BorneShrinks
<1>3. \A r \in rehomes' : \/ r \in rehomes
                          \/ \E h \in handoffs : r.ses = h.ses /\ r.tok = h.tok
  BY DEF FinishHandover
<1>4. \A v \in ents' : \E t \in ents : t.ses = v.ses /\ t.snap.who = v.snap.who
  <2>1. \A v \in ents' : v \in ents \/ \E t \in ents : v = [t EXCEPT !.mig = FALSE]
    BY DEF FinishHandover
  <2>2. \A t \in ents : LET v == [t EXCEPT !.mig = FALSE]
                        IN  v.ses = t.ses /\ v.snap.who = t.snap.who
    BY DEF TypeOK, Tracked
  <2>. QED
    BY <2>1, <2>2
<1>. HIDE DEF m, mine, frozen
<1>. QED
  BY <1>1, <1>2, <1>3, <1>4, SameSteady, Keeps

(***************************************************************************)
(* The theorem.                                                            *)
(***************************************************************************)

LEMMA StateInit == Init => StateInv
<1>. SUFFICES ASSUME Init PROVE Rightful
  BY DEF StateInv
<1>1. ents = {} /\ handoffs = {} /\ rehomes = {} /\ pending = {}
      /\ \A w \in Players : home[w] = Offline
  BY DEF Init
<1>2. Opened = {}
  BY DEF Init, Opened
<1>3. Flying = {}
  <2>1. \A l \in Links : DOMAIN wire[l] = {}
    BY DEF Init, Links
  <2>. QED
    BY <2>1 DEF Flying
<1>4. Borne = {}
  BY <1>1, <1>3 DEF Borne
<1>. QED
  BY <1>1, <1>2, <1>4 DEF Rightful, OfSessions, OfTokens

LEMMA StateStep == TypeOK /\ StateInv /\ [Next]_vars => StateInv'
<1>. SUFFICES ASSUME TypeOK, Rightful, [Next]_vars, Unique' PROVE Rightful'
  BY StaysUnique DEF StateInv
<1>1. ASSUME UNCHANGED <<ents, handoffs, rehomes, ses, minted, pending, wire>>,
             \A w \in Players : home'[w] = home[w] \/ home'[w] = Offline
      PROVE  Rightful'
  <2>1. Borne' = Borne
    BY <1>1 DEF Borne, Flying
  <2>. QED
    BY <1>1, <2>1, SameSteady, AsideKeeps
<1>2. CASE UNCHANGED vars
  BY <1>1, <1>2 DEF vars
<1>3. CASE HubStep
  <2>1. ASSUME NEW s \in Sessions, OnJoin(s) \/ OnLeave(s) \/ OnDimSwitch(s) PROVE Rightful'
    BY <2>1, JoinRightful, HubKeeps
  <2>2. ASSUME NEW t \in ents, LocalChange(t) PROVE Rightful'
    BY <2>2, ChangeKeeps
  <2>3. ASSUME NEW t \in ents, NEW q \in Pods, CrossSeam(t, q) PROVE Rightful'
    BY <2>3, CrossRightful
  <2>4. ASSUME NEW m \in mobs, NEW q \in Pods, MobMove(m, q) PROVE Rightful'
    BY <2>4, MobKeeps
  <2>5. ASSUME NEW p \in Pods, SaveMobs(p) PROVE Rightful'
    BY <1>1, <2>5 DEF SaveMobs
  <2>6. ASSUME NEW q \in Pods, NEW p \in Pods,
               ApplyMigration(q, p) \/ ApplyMobMigration(q, p) \/ FinishHandover(q, p)
        PROVE  Rightful'
    BY <2>6, ArrivalKeeps, FinishRightful
  <2>. QED
    BY <1>3, <2>1, <2>2, <2>3, <2>4, <2>5, <2>6 DEF HubStep
<1>4. CASE GatewayStep
  <2>1. ASSUME NEW w \in Players, NEW s \in Sessions, NEW p \in Pods, Login(w, s, p)
        PROVE  Rightful'
    BY <2>1, LoginRightful
  <2>2. ASSUME NEW w \in Players, NEW s \in Sessions, NEW r \in rehomes, Resume(w, s, r)
        PROVE  Rightful'
    BY <2>2, ResumeRightful
  <2>3. ASSUME NEW w \in Players, Quit(w) PROVE Rightful'
    <3>1. \A v \in Players : home'[v] = home[v] \/ home'[v] = Offline
      BY <2>3 DEF Quit, TypeOK
    <3>. QED
      BY <1>1, <2>3, <3>1 DEF Quit
  <2>4. ASSUME NEW s \in Sessions, Close(s) PROVE Rightful'
    <3>1. UNCHANGED <<ents, handoffs, rehomes, minted, pending, wire, home>>
      BY <2>4 DEF Close
    <3>2. Steady
      BY <2>4, FieldSteady DEF Close
    <3>. QED
      BY <3>1, <3>2, GatewayKeeps
  <2>5. ASSUME NEW s \in Sessions, NEW d \in Dims, SwitchDim(s, d) PROVE Rightful'
    <3>1. UNCHANGED <<ents, handoffs, rehomes, minted, pending, wire, home>>
      BY <2>5 DEF SwitchDim
    <3>2. ses' = [ses EXCEPT ![s] = [@ EXCEPT !.dim = d, !.moving = TRUE]] /\ ses[s] # Unused
      BY <2>5 DEF SwitchDim, TypeOK
    <3>3. Steady
      BY <3>2, FieldSteady
    <3>. QED
      BY <3>1, <3>3, GatewayKeeps
  <2>. QED
    BY <1>4, <2>1, <2>2, <2>3, <2>4, <2>5 DEF GatewayStep
<1>5. CASE FaultStep
  <2>1. ASSUME NEW p \in Pods, NEW q \in Pods, LinkDrop(p, q) \/ LinkUp(p, q) PROVE Rightful'
    <3>1. UNCHANGED <<ents, handoffs, rehomes, ses, minted, pending, home>>
      BY <2>1 DEF LinkDrop, LinkUp
    <3>2. Flying' \subseteq Flying
      <4>1. CASE LinkDrop(p, q)
        BY <4>1, FlyingAfter DEF LinkDrop
      <4>2. CASE LinkUp(p, q)
        BY <4>2 DEF LinkUp, Flying
      <4>. QED
        BY <2>1, <4>1, <4>2
    <3>3. Borne' \subseteq Borne
      BY <3>1, <3>2, BorneShrinks
    <3>. QED
      BY <3>1, <3>3, SameSteady, AsideKeeps
  <2>2. ASSUME NEW p \in Pods, Restart(p) PROVE Rightful'
    BY <2>2, RestartKeeps
  <2>. QED
    BY <1>5, <2>1, <2>2 DEF FaultStep
<1>. QED
  BY <1>2, <1>3, <1>4, <1>5 DEF Next

\* A player only ever plays its own state, whatever crossings, link drops and
\* restarts interleave, as long as ids are unique.
THEOREM OwnStateAlways == Spec => []OwnState
<1>1. StateInv => OwnState
  BY DEF StateInv, Rightful, OfSessions, OwnState
<1>. QED
  BY TypeCorrect, StateInit, StateStep, <1>1, PTL DEF Spec

-----------------------------------------------------------------------------
(***************************************************************************)
(* Make before break.  A source lets go of a player only on an ack, an ack *)
(* of an open release is only sent by the pod the release names, which     *)
(* holds the snapshot until the token is claimed, and the token is told    *)
(* only to the player's own gateway: so, but for restarts and the frames   *)
(* the code lets fall, an attached player is always somewhere.             *)
(***************************************************************************)

\* The frames in flight, with the pod that will read them.
Routed ==
  UNION {{[to |-> l[2], msg |-> wire[l][i]] : i \in DOMAIN wire[l]} : l \in Links}

\* A frame that tells a source its player is held.
Yes(m) == m.typ = "ack" /\ m.ok

\* Open releases against the frames, the snapshots and the players they are about.
Custody ==
  /\ \A p \in Pods : {p} \notin links
  /\ \A h \in handoffs : h.dest # h.tok.sid
  /\ \A h \in handoffs, t \in ents : t.snap.eid = h.eid => t.ses = h.ses
  /\ \A f \in Routed : f.msg.tok \in minted.toks
  /\ \A h \in handoffs, f \in Routed :
       f.msg.typ = "migrate" /\ f.msg.tok = h.tok => f.to = h.dest
  /\ \A h \in handoffs, x \in pending : x.tok = h.tok => x.pod = h.dest
  /\ \A h \in handoffs, f \in Routed :
       Yes(f.msg) /\ f.msg.tok = h.tok => \E x \in pending : x.tok = h.tok

\* Whoever is attached is on an open session, and somewhere.
Attended ==
  \A w \in Players : home[w] # Offline => ~ ses[home[w]].closed /\ Placed(w)

\* What makes MakeBeforeBreak and NeverStranded inductive.
CustodyInv == Regular => Custody /\ Attended

\* A run is free of faults only if it was.
LEMMA StaysRegular ==
  ASSUME TypeOK, [Next]_vars, Regular'
  PROVE  Regular
BY FaultsGrow, StaysUnique DEF Regular

\* ... and pods do not die in one.
LEMMA NoRestart ==
  ASSUME TypeOK, Regular', NEW p \in Pods, Restart(p)
  PROVE  FALSE
<1>1. faults \in [drop : Nat, restart : Nat, full : Nat, stale : Nat]
  BY Bounds DEF TypeOK, FaultCounts
<1>2. faults' = [faults EXCEPT !.restart = @ + 1]
  BY DEF Restart
<1>. QED
  BY <1>1, <1>2 DEF Regular

(***************************************************************************)
(* Frames and where they go.                                               *)
(***************************************************************************)
LEMMA RoutedAfter ==
  ASSUME TypeOK, NEW p \in Pods, NEW q \in Pods
  PROVE  /\ \A m \in Frames : Send(p, q, m) => Routed' \subseteq Routed \cup {[to |-> q, msg |-> m]}
         /\ BreakLink(p, q) => Routed' \subseteq Routed
         /\ wire[<<q, p>>] # <<>> /\ wire' = Taken(q, p) => Routed' \subseteq Routed
         /\ \A m \in Frames : wire[<<q, p>>] # <<>> /\ wire' = Answered(q, p, m)
              => Routed' \subseteq Routed \cup {[to |-> q, msg |-> m]}
<1>. SUFFICES ASSUME NEW f \in Routed'
     PROVE  /\ \A m \in Frames : Send(p, q, m) => f \in Routed \cup {[to |-> q, msg |-> m]}
            /\ BreakLink(p, q) => f \in Routed
            /\ wire[<<q, p>>] # <<>> /\ wire' = Taken(q, p) => f \in Routed
            /\ \A m \in Frames : wire[<<q, p>>] # <<>> /\ wire' = Answered(q, p, m)
                 => f \in Routed \cup {[to |-> q, msg |-> m]}
  OBVIOUS
<1>1. PICK l \in Links : \E i \in DOMAIN wire'[l] : f = [to |-> l[2], msg |-> wire'[l][i]]
  BY DEF Routed
<1>2. PICK i \in DOMAIN wire'[l] : f = [to |-> l[2], msg |-> wire'[l][i]]
  BY <1>1
<1>3. Kept(l, i) => f \in Routed
  BY <1>2 DEF Kept, Routed
<1>4. l = <<p, q>> => l[2] = q
  OBVIOUS
<1>. QED
  BY <1>2, <1>3, <1>4, WireAfter

\* The frame at the head of a direction, and its reader.
LEMMA HeadRouted ==
  ASSUME TypeOK, NEW q \in Pods, NEW p \in Pods, wire[<<q, p>>] # <<>>
  PROVE  [to |-> p, msg |-> Head(wire[<<q, p>>])] \in Routed
<1>1. <<q, p>> \in Links /\ <<q, p>>[2] = p
  BY DEF Links
<1>2. wire[<<q, p>>] \in Seq(Frames)
  BY <1>1 DEF TypeOK, Links
<1>3. 1 \in DOMAIN wire[<<q, p>>] /\ Head(wire[<<q, p>>]) = wire[<<q, p>>][1]
  BY <1>2
<1>. QED
  BY <1>1, <1>3 DEF Routed

(***************************************************************************)
(* Custody is kept.                                                        *)
(***************************************************************************)

\* Releases end, frames are lost or say nothing of a player, snapshots whose
\* release is open stay.
LEMMA CustodyKept ==
  ASSUME Custody, \A p \in Pods : {p} \notin links',
         handoffs' \subseteq handoffs, minted.toks \subseteq minted'.toks,
         \A u \in ents' : \/ \E t \in ents : t.ses = u.ses /\ t.snap.eid = u.snap.eid
                          \/ \A h \in handoffs : h.eid # u.snap.eid,
         \A f \in Routed' : \/ f \in Routed
                            \/ /\ f.msg.tok \in minted'.toks
                               /\ f.msg.typ # "migrate" /\ ~ Yes(f.msg),
         pending' \subseteq pending,
         \A x \in pending, h \in handoffs : x.tok = h.tok => x \in pending'
  PROVE  Custody'
<1>1. \A h \in handoffs', t \in ents' : t.snap.eid = h.eid => t.ses = h.ses
  BY DEF Custody
<1>2. \A f \in Routed' : f.msg.tok \in minted'.toks
  BY DEF Custody
<1>3. \A h \in handoffs', f \in Routed' :
        f.msg.typ = "migrate" /\ f.msg.tok = h.tok => f.to = h.dest
  BY DEF Custody
<1>4. \A h \in handoffs', f \in Routed' :
        Yes(f.msg) /\ f.msg.tok = h.tok => \E x \in pending' : x.tok = h.tok
  BY DEF Custody
<1>. QED
  BY <1>1, <1>2, <1>3, <1>4 DEF Custody, Yes

\* Steps of players and sessions that leave releases, frames and snapshots alone.
LEMMA PlayersKeepCustody ==
  ASSUME TypeOK, Owned, Custody,
         \/ \E s \in Sessions : \/ OnJoin(s) \/ OnLeave(s) \/ OnDimSwitch(s) \/ Close(s)
                                \/ \E d \in Dims : SwitchDim(s, d)
         \/ \E t \in ents : LocalChange(t)
         \/ \E w \in Players, s \in Sessions, p \in Pods : Login(w, s, p)
         \/ \E w \in Players : Quit(w)
         \/ \E p \in Pods : SaveMobs(p)
         \/ \E p, q \in Pods : LinkUp(p, q)
         \/ UNCHANGED vars
  PROVE  Custody'
<1>1. /\ UNCHANGED <<handoffs, pending, wire>>
      /\ minted.toks \subseteq minted'.toks
  BY DEF OnJoin, OnLeave, OnDimSwitch, Close, SwitchDim, LocalChange, Login, Quit, SaveMobs,
         LinkUp, vars, TypeOK, Histories
<1>2. Routed' = Routed
  BY <1>1 DEF Routed
<1>3. \A p \in Pods : {p} \notin links'
  <2>1. links' = links \/ \E p, q \in Pods : p # q /\ links' = links \cup {{p, q}}
    BY DEF OnJoin, OnLeave, OnDimSwitch, Close, SwitchDim, LocalChange, Login, Quit, SaveMobs,
           LinkUp, vars
  <2>. QED
    BY <2>1 DEF Custody
<1>4. \A u \in ents' : \/ \E t \in ents : t.ses = u.ses /\ t.snap.eid = u.snap.eid
                       \/ \A h \in handoffs : h.eid # u.snap.eid
  <2>1. ASSUME NEW s \in Sessions, OnJoin(s)
        PROVE  \A u \in ents' : u \in ents \/ \A h \in handoffs : h.eid # u.snap.eid
    <3>1. s \in Posted
      BY <2>1 DEF OnJoin, Posted, Opened
    <3>2. \A u \in ents' : u \in ents \/ u.snap = ses[s].snap
      BY <2>1 DEF OnJoin
    <3>. QED
      BY <3>1, <3>2 DEF Owned, Frozen
  <2>2. ASSUME NEW s \in Sessions, OnDimSwitch(s)
        PROVE  \A u \in ents' : \E t \in ents : t.ses = u.ses /\ t.snap.eid = u.snap.eid
    <3>1. \A u \in ents' : u \in ents \/ \E t \in ents : u = [t EXCEPT !.snap.dim = ses[s].dim]
      BY <2>2 DEF OnDimSwitch, Here
    <3>2. \A t \in ents : LET u == [t EXCEPT !.snap.dim = ses[s].dim]
                          IN  u.ses = t.ses /\ u.snap.eid = t.snap.eid
      BY DEF TypeOK, Tracked, Snaps
    <3>. QED
      BY <3>1, <3>2
  <2>3. ASSUME NEW t \in ents, LocalChange(t)
        PROVE  \A u \in ents' : \E z \in ents : z.ses = u.ses /\ z.snap.eid = u.snap.eid
    <3>1. \A u \in ents' : u \in ents \/ u = [t EXCEPT !.snap.rev = @ + 1]
      BY <2>3 DEF LocalChange
    <3>2. LET u == [t EXCEPT !.snap.rev = @ + 1]
          IN  u.ses = t.ses /\ u.snap.eid = t.snap.eid
      BY DEF TypeOK, Tracked, Snaps
    <3>. QED
      BY <3>1, <3>2
  <2>4. CASE ents' \subseteq ents
    BY <2>4
  <2>5. \/ ents' \subseteq ents
        \/ \E s \in Sessions : OnJoin(s) \/ OnDimSwitch(s)
        \/ \E t \in ents : LocalChange(t)
    BY DEF OnLeave, Close, SwitchDim, Login, Quit, SaveMobs, LinkUp, vars
  <2>. QED
    BY <2>1, <2>2, <2>3, <2>4, <2>5
<1>. QED
  BY <1>1, <1>2, <1>3, <1>4, CustodyKept

\* A claim takes snapshots whose release is over.
LEMMA ResumeKeepsCustody ==
  ASSUME TypeOK, Owned, Custody, NEW w \in Players, NEW s \in Sessions, NEW r \in rehomes,
         Resume(w, s, r)
  PROVE  Custody'
<1>1. /\ UNCHANGED <<ents, handoffs, wire, minted, links>>
      /\ pending' = pending \ Claimed(r)
  BY DEF Resume
<1>2. Routed' = Routed
  BY <1>1 DEF Routed
<1>3. \A x \in pending, h \in handoffs : x.tok = h.tok => x \in pending'
  BY <1>1 DEF Claimed, Owned, TokenOnce
<1>4. /\ \A p \in Pods : {p} \notin links'
      /\ \A u \in ents' : \E t \in ents : t.ses = u.ses /\ t.snap.eid = u.snap.eid
  BY <1>1 DEF Custody
<1>. QED
  BY <1>1, <1>2, <1>3, <1>4, CustodyKept

\* Links drop; releases end.
LEMMA DropKeepsCustody ==
  ASSUME TypeOK, Custody, NEW p \in Pods, NEW q \in Pods,
         LinkDrop(p, q) \/ FinishHandover(p, q)
  PROVE  Custody'
<1>1. /\ handoffs' \subseteq handoffs /\ links' \subseteq links
      /\ UNCHANGED <<pending, minted>>
  BY DEF LinkDrop, BreakLink, FinishHandover
<1>2. Routed' \subseteq Routed
  <2>1. CASE LinkDrop(p, q)
    BY <2>1, RoutedAfter DEF LinkDrop
  <2>2. CASE FinishHandover(p, q)
    BY <2>2, RoutedAfter DEF FinishHandover, Arrives
  <2>. QED
    BY <2>1, <2>2
<1>3. \A u \in ents' : \E t \in ents : t.ses = u.ses /\ t.snap.eid = u.snap.eid
  <2>1. \A u \in ents' : u \in ents \/ \E t \in ents : u = [t EXCEPT !.mig = FALSE]
    BY DEF LinkDrop, FinishHandover
  <2>2. \A t \in ents : LET u == [t EXCEPT !.mig = FALSE]
                        IN  u.ses = t.ses /\ u.snap = t.snap
    BY DEF TypeOK, Tracked
  <2>. QED
    BY <2>1, <2>2
<1>4. \A z \in Pods : {z} \notin links'
  BY <1>1 DEF Custody
<1>. QED
  BY <1>1, <1>2, <1>3, <1>4, CustodyKept

\* A mob's frame, and its refusal, are about no player.
LEMMA MobKeepsCustody ==
  ASSUME TypeOK, Custody,
         \/ \E m \in mobs, q \in Pods : MobMove(m, q)
         \/ \E q, p \in Pods : ApplyMobMigration(q, p)
  PROVE  Custody'
<1>1. /\ UNCHANGED <<ents, handoffs, pending>> /\ links' \subseteq links
      /\ minted.toks \subseteq minted'.toks
  <2>1. ASSUME NEW m \in mobs, NEW q \in Pods, MobMove(m, q)
        PROVE  /\ UNCHANGED <<ents, handoffs, pending>> /\ links' \subseteq links
               /\ minted.toks \subseteq minted'.toks
    BY <2>1 DEF MobMove, BreakLink, TypeOK, Histories
  <2>2. ASSUME NEW q \in Pods, NEW p \in Pods, ApplyMobMigration(q, p)
        PROVE  UNCHANGED <<ents, handoffs, pending, links, minted>>
    BY <2>2 DEF ApplyMobMigration
  <2>. QED
    BY <2>1, <2>2
<1>2. \A f \in Routed' : \/ f \in Routed
                         \/ /\ f.msg.tok \in minted'.toks
                            /\ f.msg.typ # "migrate" /\ ~ Yes(f.msg)
  <2>1. ASSUME NEW m \in mobs, NEW q \in Pods, MobMove(m, q)
        PROVE  \A f \in Routed' : \/ f \in Routed
                                  \/ f.msg.tok \in minted'.toks /\ f.msg.typ = "mob"
    <3>. DEFINE tok == [sid |-> m.pod, n |-> migSeq[m.pod] + 1]
                b == [typ |-> "mob", tok |-> tok, id |-> m.id, dim |-> m.dim]
    <3>1. m \in Mob /\ m.pod \in Pods /\ tok \in Tokens
      BY DEF TypeOK, Mob, Tokens
    <3>2. b \in Frames /\ b.typ = "mob" /\ b.tok = tok
      BY <3>1 DEF Frames, MobMoves, Mob
    <3>3. tok \in minted'.toks
      BY <2>1 DEF MobMove, TypeOK, Histories
    <3>4. Send(m.pod, q, b) \/ BreakLink(m.pod, q)
      BY <2>1 DEF MobMove
    <3>. HIDE DEF b, tok
    <3>5. Routed' \subseteq Routed \cup {[to |-> q, msg |-> b]}
      BY <3>1, <3>2, <3>4, RoutedAfter
    <3>. QED
      BY <3>2, <3>3, <3>5
  <2>2. ASSUME NEW q \in Pods, NEW p \in Pods, ApplyMobMigration(q, p)
        PROVE  \A f \in Routed' : \/ f \in Routed
                                  \/ /\ f.msg.tok \in minted'.toks
                                     /\ f.msg.typ # "migrate" /\ ~ Yes(f.msg)
    <3>. DEFINE m == Head(wire[<<q, p>>])
                no == [typ |-> "ack", tok |-> m.tok, ok |-> FALSE]
    <3>1. wire[<<q, p>>] # <<>>
      BY <2>2 DEF ApplyMobMigration, Arrives
    <3>2. m \in Frames /\ m.tok \in minted.toks
      BY <3>1, HeadRouted, TakenType DEF Custody, TypeOK, Links
    <3>3. no \in Frames /\ no.tok = m.tok /\ no.typ # "migrate" /\ ~ Yes(no)
      BY <3>2 DEF Frames, Migrates, MobMoves, Acks, Yes
    <3>4. wire' = Taken(q, p) \/ wire' = Answered(q, p, no)
      BY <2>2 DEF ApplyMobMigration, AckOf
    <3>. HIDE DEF m, no
    <3>5. Routed' \subseteq Routed \cup {[to |-> q, msg |-> no]}
      BY <3>1, <3>3, <3>4, RoutedAfter
    <3>. QED
      BY <1>1, <3>2, <3>3, <3>5
  <2>. QED
    BY <2>1, <2>2 DEF Yes
<1>3. /\ \A p \in Pods : {p} \notin links'
      /\ \A u \in ents' : \E t \in ents : t.ses = u.ses /\ t.snap.eid = u.snap.eid
  BY <1>1 DEF Custody
<1>. QED
  BY <1>1, <1>2, <1>3, CustodyKept

\* The pod the release names holds the snapshot, and only then says so.
LEMMA HoldKeepsCustody ==
  ASSUME TypeOK, Custody, NEW q \in Pods, NEW p \in Pods, ApplyMigration(q, p)
  PROVE  Custody'
<1>. DEFINE m == Head(wire[<<q, p>>])
            x0 == [pod |-> p, tok |-> m.tok, snap |-> m.snap]
            yes == [typ |-> "ack", tok |-> m.tok, ok |-> TRUE]
            no == [typ |-> "ack", tok |-> m.tok, ok |-> FALSE]
            heard == [to |-> p, msg |-> m]
<1>1. /\ UNCHANGED <<ents, handoffs, links, minted>>
      /\ wire[<<q, p>>] # <<>> /\ m.typ = "migrate"
  BY DEF ApplyMigration, Arrives
<1>2. heard \in Routed /\ m \in Frames
  BY <1>1, HeadRouted, TakenType DEF TypeOK, Links
<1>3. /\ yes \in Frames /\ yes.tok = m.tok /\ yes.typ # "migrate"
      /\ no \in Frames /\ no.tok = m.tok /\ no.typ # "migrate" /\ ~ Yes(no)
  BY <1>2 DEF Frames, Migrates, MobMoves, Acks, Yes
<1>4. m.tok \in minted.toks /\ \A h \in handoffs : m.tok = h.tok => p = h.dest
  BY <1>1, <1>2 DEF Custody
<1>5. \/ /\ m.snap.dim \in DimsOf[p]
         /\ pending' = Held(p, m) /\ wire' = Answered(q, p, yes)
      \/ /\ m.snap.dim \notin DimsOf[p]
         /\ pending' = pending /\ wire' = Answered(q, p, no)
  <2>1. wire' = AckOf(q, p, m, m.snap.dim \in DimsOf[p])
    BY DEF ApplyMigration
  <2>2. CASE m.snap.dim \in DimsOf[p]
    <3>1. (m.snap.dim \in DimsOf[p]) = TRUE
      BY <2>2
    <3>2. wire' = Answered(q, p, yes)
      BY <2>1, <3>1, Zenon DEF AckOf
    <3>. QED
      BY <2>2, <3>2 DEF ApplyMigration
  <2>3. CASE m.snap.dim \notin DimsOf[p]
    <3>1. (m.snap.dim \in DimsOf[p]) = FALSE
      BY <2>3
    <3>2. wire' = Answered(q, p, no)
      BY <2>1, <3>1, Zenon DEF AckOf
    <3>. QED
      BY <2>3, <3>2 DEF ApplyMigration
  <2>. QED
    BY <2>2, <2>3
<1>6. Held(p, m) = {x \in pending : x.pod # p \/ x.tok # m.tok} \cup {x0}
  BY DEF Held
<1>7. x0.pod = p /\ x0.tok = m.tok
  OBVIOUS
<1>. HIDE DEF m, x0, yes, no, heard
<1>8. CASE pending' = pending /\ wire' = Answered(q, p, no)
  <2>1. Routed' \subseteq Routed \cup {[to |-> q, msg |-> no]}
    BY <1>1, <1>3, <1>8, RoutedAfter
  <2>2. /\ \A z \in Pods : {z} \notin links'
        /\ \A u \in ents' : \E t \in ents : t.ses = u.ses /\ t.snap.eid = u.snap.eid
    BY <1>1 DEF Custody
  <2>. QED
    BY <1>1, <1>3, <1>4, <1>8, <2>1, <2>2, CustodyKept
<1>9. CASE pending' = Held(p, m) /\ wire' = Answered(q, p, yes)
  <2>1. Routed' \subseteq Routed \cup {[to |-> q, msg |-> yes]}
    BY <1>1, <1>3, <1>9, RoutedAfter
  <2>2. \A f \in Routed' : f.msg.tok \in minted'.toks
    BY <1>1, <1>3, <1>4, <2>1 DEF Custody
  <2>3. \A h \in handoffs', f \in Routed' :
          f.msg.typ = "migrate" /\ f.msg.tok = h.tok => f.to = h.dest
    BY <1>1, <1>3, <2>1 DEF Custody
  <2>4. \A h \in handoffs', x \in pending' : x.tok = h.tok => x.pod = h.dest
    BY <1>1, <1>4, <1>6, <1>7, <1>9 DEF Custody
  <2>5. \A h \in handoffs', f \in Routed' :
          Yes(f.msg) /\ f.msg.tok = h.tok => \E x \in pending' : x.tok = h.tok
    <3>. SUFFICES ASSUME NEW h \in handoffs, NEW f \in Routed', Yes(f.msg), f.msg.tok = h.tok
                  PROVE  \E x \in pending' : x.tok = h.tok
      BY <1>1 DEF Yes
    <3>1. CASE h.tok = m.tok
      BY <1>6, <1>7, <1>9, <3>1
    <3>2. CASE h.tok # m.tok
      <4>1. f \in Routed
        BY <1>3, <2>1, <3>2
      <4>2. PICK x \in pending : x.tok = h.tok
        BY <4>1 DEF Custody
      <4>. QED
        BY <1>6, <1>9, <3>2, <4>2
    <3>. QED
      BY <3>1, <3>2
  <2>. QED
    BY <1>1, <2>2, <2>3, <2>4, <2>5 DEF Custody, Yes
<1>. QED
  BY <1>5, <1>8, <1>9

\* A new release has a token no frame and no snapshot has, and goes elsewhere.
LEMMA CrossKeepsCustody ==
  ASSUME TypeOK, Owned, Custody, Unique', NEW t \in ents, NEW dest \in Pods,
         CrossSeam(t, dest)
  PROVE  Custody'
<1>. DEFINE tok == [sid |-> t.pod, n |-> migSeq[t.pod] + 1]
            u == [t EXCEPT !.mig = TRUE]
            h == [tok |-> tok, ses |-> t.ses, eid |-> t.snap.eid, dest |-> dest]
            f == [typ |-> "migrate", tok |-> tok, snap |-> t.snap]
            fd == [to |-> dest, msg |-> f]
<1>1. t \in Tracked /\ minted \in Histories /\ tok \in Tokens
  BY DEF TypeOK, Tracked, Tokens
<1>2. f \in Frames /\ t.pod \in Pods
  BY <1>1 DEF Frames, Migrates, Tracked
<1>3. /\ minted' = [minted EXCEPT !.toks = @ \cup {tok}, !.twice = @ \/ tok \in minted.toks]
      /\ UNCHANGED pending /\ links' \subseteq links /\ {t.pod, dest} \in links
  BY DEF CrossSeam, BreakLink, Connected
<1>4. minted'.toks = minted.toks \cup {tok} /\ tok \notin minted.toks
  BY <1>1, <1>3 DEF Histories, Unique
<1>5. \/ /\ ents' = (ents \ {t}) \cup {u}
         /\ handoffs' = handoffs \cup {h}
         /\ Send(t.pod, dest, f)
      \/ /\ BreakLink(t.pod, dest)
         /\ UNCHANGED <<ents, handoffs>>
  BY DEF CrossSeam
<1>6. u.ses = t.ses /\ u.snap = t.snap
  BY <1>1 DEF Tracked
<1>7. /\ h.tok = tok /\ h.ses = t.ses /\ h.eid = t.snap.eid /\ h.dest = dest
      /\ tok.sid = t.pod
  OBVIOUS
<1>8. fd.to = dest /\ fd.msg = f /\ f.tok = tok /\ f.typ = "migrate"
  OBVIOUS
<1>9. dest # t.pod
  <2>1. {t.pod} \notin links
    BY <1>2 DEF Custody
  <2>. QED
    BY <1>3, <2>1
<1>10. \A p \in Pods : {p} \notin links'
  BY <1>3 DEF Custody
<1>. HIDE DEF tok, u, h, f, fd
<1>11. CASE BreakLink(t.pod, dest) /\ UNCHANGED <<ents, handoffs>>
  <2>1. Routed' \subseteq Routed
    BY <1>2, <1>11, RoutedAfter
  <2>2. \A v \in ents' : \E z \in ents : z.ses = v.ses /\ z.snap.eid = v.snap.eid
    BY <1>11
  <2>. QED
    BY <1>3, <1>4, <1>10, <1>11, <2>1, <2>2, CustodyKept
<1>12. CASE /\ ents' = (ents \ {t}) \cup {u}
            /\ handoffs' = handoffs \cup {h}
            /\ Send(t.pod, dest, f)
  <2>1. Routed' \subseteq Routed \cup {fd}
    BY <1>2, <1>12, RoutedAfter DEF fd
  <2>2. /\ \A g \in Routed : g.msg.tok # tok
        /\ \A g \in handoffs : g.tok # tok
        /\ \A x \in pending : x.tok # tok
    <3>1. \A x \in pending : [tok |-> x.tok, eid |-> x.snap.eid] \in Carried
      BY DEF Carried
    <3>2. \A x \in pending : x.tok \in minted.toks
      BY <3>1 DEF Owned, Known
    <3>. QED
      BY <1>4, <3>2 DEF Custody, Owned, Known
  <2>3. \A g \in handoffs', v \in ents' : v.snap.eid = g.eid => v.ses = g.ses
    BY <1>6, <1>7, <1>12 DEF Custody, Owned, Exclusive
  <2>4. \A g \in handoffs' : g.dest # g.tok.sid
    BY <1>7, <1>9, <1>12 DEF Custody
  <2>5. \A g \in Routed' : g.msg.tok \in minted'.toks
    BY <1>4, <1>8, <2>1 DEF Custody
  <2>6. \A g \in handoffs', k \in Routed' :
          k.msg.typ = "migrate" /\ k.msg.tok = g.tok => k.to = g.dest
    BY <1>7, <1>8, <1>12, <2>1, <2>2 DEF Custody
  <2>7. \A g \in handoffs', x \in pending' : x.tok = g.tok => x.pod = g.dest
    BY <1>3, <1>7, <1>12, <2>2 DEF Custody
  <2>8. \A g \in handoffs', k \in Routed' :
          Yes(k.msg) /\ k.msg.tok = g.tok => \E x \in pending' : x.tok = g.tok
    <3>. SUFFICES ASSUME NEW g \in handoffs', NEW k \in Routed', Yes(k.msg), k.msg.tok = g.tok
                  PROVE  \E x \in pending : x.tok = g.tok
      BY <1>3 DEF Yes
    <3>1. k \in Routed /\ g \in handoffs
      BY <1>7, <1>8, <1>12, <2>1, <2>2 DEF Yes
    <3>. QED
      BY <3>1 DEF Custody
  <2>. QED
    BY <1>10, <2>3, <2>4, <2>5, <2>6, <2>7, <2>8 DEF Custody, Yes
<1>. QED
  BY <1>5, <1>11, <1>12

\* Without restarts every step keeps custody.
LEMMA CustodyStep ==
  ASSUME TypeOK, Owned, Custody, [Next]_vars, Regular'
  PROVE  Custody'
<1>1. Unique' /\ ~ \E p \in Pods : Restart(p)
  BY NoRestart DEF Regular
<1>2. CASE HubStep
  BY <1>1, <1>2, PlayersKeepCustody, MobKeepsCustody, DropKeepsCustody, HoldKeepsCustody,
     CrossKeepsCustody DEF HubStep
<1>3. CASE GatewayStep
  BY <1>3, PlayersKeepCustody, ResumeKeepsCustody DEF GatewayStep
<1>4. CASE FaultStep
  BY <1>1, <1>4, PlayersKeepCustody, DropKeepsCustody DEF FaultStep
<1>. QED
  BY <1>2, <1>3, <1>4, PlayersKeepCustody DEF Next

(***************************************************************************)
(* Make before break.                                                      *)
(***************************************************************************)

\* What an ack of an open release has been told of: its player, held elsewhere.
LEMMA AckedIsHeld ==
  ASSUME TypeOK, Owned, Custody, NEW q \in Pods, NEW p \in Pods, FinishHandover(q, p),
         Head(wire[<<q, p>>]).ok,
         NEW h \in handoffs, h.tok = Head(wire[<<q, p>>]).tok
  PROVE  \E x \in pending : /\ x.tok = h.tok /\ x.pod = h.dest /\ x.pod # h.tok.sid
                            /\ x.snap.eid = h.eid
<1>. DEFINE m == Head(wire[<<q, p>>])
            heard == [to |-> p, msg |-> m]
<1>1. wire[<<q, p>>] # <<>> /\ m.typ = "ack"
  BY DEF FinishHandover, Arrives
<1>2. heard \in Routed /\ heard.msg = m
  BY <1>1, HeadRouted
<1>3. Yes(heard.msg)
  BY <1>1, <1>2 DEF Yes
<1>4. heard.msg.tok = h.tok
  BY <1>2
<1>. HIDE DEF heard, m
<1>5. PICK x \in pending : x.tok = h.tok
  BY <1>2, <1>3, <1>4 DEF Custody
<1>6. [tok |-> x.tok, eid |-> x.snap.eid] \in Carried
  BY DEF Carried
<1>7. x.snap.eid = h.eid
  BY <1>5, <1>6 DEF Owned, TokenOnce
<1>. QED
  BY <1>5, <1>7 DEF Custody

\* Where a player a step removes has gone.
LEMMA NoBreakBeforeMake ==
  ASSUME TypeOK, Owned, Custody, [Next]_vars, Regular', NEW t \in ents
  PROVE  \/ \E u \in ents' : u.ses = t.ses
         \/ ses[t.ses].closed
         \/ \E x \in pending : x.pod # t.pod /\ x.snap.eid = t.snap.eid
<1>1. CASE UNCHANGED ents
  BY <1>1
<1>2. ASSUME NEW s \in Sessions, OnJoin(s) PROVE t \in ents'
  <2>1. s \in Posted
    BY <1>2 DEF OnJoin, Posted, Opened
  <2>2. t \notin Here(ses[s].pod, ses[s].snap.eid)
    BY <2>1 DEF Owned, Exclusive, Here
  <2>. QED
    BY <1>2, <2>2 DEF OnJoin
<1>3. ASSUME NEW s \in Sessions, OnLeave(s) PROVE t \in ents' \/ ses[t.ses].closed
  <2>1. \A v \in Here(ses[s].pod, ses[s].snap.eid) : v.ses = s
    BY <1>3 DEF OnLeave, Regular, TypeOK, FaultCounts
  <2>. QED
    BY <1>3, <2>1 DEF OnLeave
<1>4. ASSUME NEW s \in Sessions, OnDimSwitch(s) PROVE \E u \in ents' : u.ses = t.ses
  <2>1. t \in ents' \/ [t EXCEPT !.snap.dim = ses[s].dim] \in ents'
    BY <1>4 DEF OnDimSwitch
  <2>. QED
    BY <2>1 DEF TypeOK, Tracked
<1>5. ASSUME NEW v \in ents, LocalChange(v) PROVE \E u \in ents' : u.ses = t.ses
  <2>1. t \in ents' \/ [t EXCEPT !.snap.rev = @ + 1] \in ents'
    BY <1>5 DEF LocalChange
  <2>. QED
    BY <2>1 DEF TypeOK, Tracked
<1>6. ASSUME NEW v \in ents, NEW q \in Pods, CrossSeam(v, q) PROVE \E u \in ents' : u.ses = t.ses
  <2>1. t \in ents' \/ [t EXCEPT !.mig = TRUE] \in ents'
    BY <1>6 DEF CrossSeam
  <2>. QED
    BY <2>1 DEF TypeOK, Tracked
<1>7. ASSUME NEW q \in Pods, NEW p \in Pods, FinishHandover(q, p)
      PROVE  \/ \E u \in ents' : u.ses = t.ses
             \/ \E x \in pending : x.pod # t.pod /\ x.snap.eid = t.snap.eid
  <2>1. CASE ~ Head(wire[<<q, p>>]).ok
    <3>1. t \in ents' \/ [t EXCEPT !.mig = FALSE] \in ents'
      BY <1>7, <2>1 DEF FinishHandover
    <3>. QED
      BY <3>1 DEF TypeOK, Tracked
  <2>2. CASE Head(wire[<<q, p>>]).ok /\ t \notin ents'
    <3>1. PICK h \in handoffs : /\ h.tok = Head(wire[<<q, p>>]).tok /\ h.tok.sid = p
                                /\ t \in Released(p, h)
      BY <1>7, <2>2 DEF FinishHandover
    <3>2. t.pod = h.tok.sid /\ t.snap.eid = h.eid
      BY <3>1 DEF Released, Here
    <3>. QED
      BY <1>7, <2>2, <3>1, <3>2, AckedIsHeld
  <2>. QED
    BY <2>1, <2>2
<1>8. ~ \E p \in Pods : Restart(p)
  BY NoRestart
<1>9. \/ UNCHANGED ents
      \/ \E s \in Sessions : OnJoin(s) \/ OnLeave(s) \/ OnDimSwitch(s)
      \/ \E v \in ents : LocalChange(v) \/ \E q \in Pods : CrossSeam(v, q)
      \/ \E q, p \in Pods : FinishHandover(q, p)
  BY <1>8 DEF Next, HubStep, GatewayStep, FaultStep, vars, SwitchDim, MobMove, SaveMobs,
     ApplyMigration, ApplyMobMigration, Login, Resume, Quit, Close, LinkDrop, LinkUp
<1>. QED
  BY <1>1, <1>2, <1>3, <1>4, <1>5, <1>6, <1>7, <1>9

(***************************************************************************)
(* Nobody is stranded.                                                     *)
(***************************************************************************)

\* Whoever is somewhere stays there: sessions whose join is queued, players,
\* re-homes and snapshots are kept.
LEMMA PlacedKept ==
  ASSUME NEW w \in Players, Placed(w), home'[w] = home[w],
         ses[home[w]].st = "posted" => ses'[home[w]].st = "posted",
         \A t \in ents : t.ses = home[w] => \E u \in ents' : u.ses = t.ses,
         rehomes \subseteq rehomes',
         \A x \in pending : \E y \in pending' :
           y.pod = x.pod /\ y.tok = x.tok /\ y.snap.who = x.snap.who
  PROVE  Placed(w)'
<1>1. CASE ses[home[w]].st = "posted"
  BY <1>1 DEF Placed
<1>2. CASE \E t \in ents : t.ses = home[w]
  BY <1>2 DEF Placed
<1>3. CASE \E r \in rehomes, x \in pending :
             r.ses = home[w] /\ x.pod = r.dest /\ x.tok = r.tok /\ x.snap.who = w
  BY <1>3 DEF Placed
<1>. QED
  BY <1>1, <1>2, <1>3 DEF Placed

\* Steps that touch no session.
LEMMA SessionsAside ==
  ASSUME Attended, UNCHANGED ses,
         \A w \in Players : home'[w] = home[w] \/ home'[w] = Offline,
         \A t \in ents : \E u \in ents' : u.ses = t.ses,
         rehomes \subseteq rehomes',
         \A x \in pending : \E y \in pending' :
           y.pod = x.pod /\ y.tok = x.tok /\ y.snap.who = x.snap.who
  PROVE  Attended'
<1>. SUFFICES ASSUME NEW w \in Players, home'[w] # Offline
              PROVE  ~ ses'[home'[w]].closed /\ Placed(w)'
  BY DEF Attended
<1>1. home'[w] = home[w] /\ ~ ses[home[w]].closed /\ Placed(w)
  BY DEF Attended
<1>. QED
  BY <1>1, PlacedKept

LEMMA AsideAttended ==
  ASSUME TypeOK, Attended,
         \/ UNCHANGED vars
         \/ \E t \in ents : LocalChange(t) \/ \E q \in Pods : CrossSeam(t, q)
         \/ \E m \in mobs, q \in Pods : MobMove(m, q)
         \/ \E p \in Pods : SaveMobs(p)
         \/ \E q, p \in Pods : ApplyMobMigration(q, p) \/ LinkDrop(q, p) \/ LinkUp(q, p)
         \/ \E w \in Players : Quit(w)
  PROVE  Attended'
<1>1. UNCHANGED <<ses, rehomes, pending>>
  BY DEF vars, LocalChange, CrossSeam, MobMove, SaveMobs, ApplyMobMigration, LinkDrop, LinkUp, Quit
<1>2. \A w \in Players : home'[w] = home[w] \/ home'[w] = Offline
  <2>1. home' = home \/ \E w \in Players : home' = [home EXCEPT ![w] = Offline]
    BY DEF vars, LocalChange, CrossSeam, MobMove, SaveMobs, ApplyMobMigration, LinkDrop, LinkUp,
           Quit
  <2>. QED
    BY <2>1 DEF TypeOK
<1>3. \A t \in ents : \E u \in ents' : u.ses = t.ses
  <2>. SUFFICES ASSUME NEW t \in ents PROVE \E u \in ents' : u.ses = t.ses
    OBVIOUS
  <2>1. \/ t \in ents'
        \/ [t EXCEPT !.snap.rev = @ + 1] \in ents'
        \/ [t EXCEPT !.mig = TRUE] \in ents'
    BY DEF vars, LocalChange, CrossSeam, MobMove, SaveMobs, ApplyMobMigration, LinkDrop, LinkUp,
           Quit
  <2>. QED
    BY <2>1 DEF TypeOK, Tracked
<1>. QED
  BY <1>1, <1>2, <1>3, SessionsAside

\* A snapshot that replaces another one is of the same player, if its token
\* has been told to a gateway.
LEMMA HoldAttended ==
  ASSUME TypeOK, Rightful, Attended, NEW q \in Pods, NEW p \in Pods, ApplyMigration(q, p)
  PROVE  Attended'
<1>. DEFINE m == Head(wire[<<q, p>>])
            x0 == [pod |-> p, tok |-> m.tok, snap |-> m.snap]
            b0 == [tok |-> m.tok, who |-> m.snap.who]
<1>1. /\ UNCHANGED <<ents, ses, rehomes, home>>
      /\ wire[<<q, p>>] # <<>> /\ m.typ = "migrate"
  BY DEF ApplyMigration, Arrives
<1>2. m \in Flying
  BY <1>1, HeadFlies
<1>3. b0 \in Borne /\ b0.tok = m.tok /\ b0.who = m.snap.who
  BY <1>1, <1>2 DEF Borne
<1>4. \/ pending' = pending
      \/ pending' = {x \in pending : x.pod # p \/ x.tok # m.tok} \cup {x0}
  BY DEF ApplyMigration, Held
<1>5. x0.pod = p /\ x0.tok = m.tok /\ x0.snap = m.snap
  OBVIOUS
<1>. HIDE DEF m, x0, b0
<1>. SUFFICES ASSUME NEW w \in Players, home[w] # Offline
              PROVE  ~ ses[home[w]].closed /\ Placed(w)'
  BY <1>1 DEF Attended
<1>6. ~ ses[home[w]].closed /\ Placed(w)
  BY DEF Attended
<1>7. CASE ses[home[w]].st = "posted" \/ \E t \in ents : t.ses = home[w]
  BY <1>1, <1>6, <1>7 DEF Placed
<1>8. CASE \E r \in rehomes, x \in pending :
             r.ses = home[w] /\ x.pod = r.dest /\ x.tok = r.tok /\ x.snap.who = w
  <2>1. PICK r \in rehomes, x \in pending :
               r.ses = home[w] /\ x.pod = r.dest /\ x.tok = r.tok /\ x.snap.who = w
    BY <1>8
  <2>2. CASE x \in pending'
    BY <1>1, <1>6, <2>1, <2>2 DEF Placed
  <2>3. CASE x \notin pending'
    <3>1. x.pod = p /\ x.tok = m.tok /\ x0 \in pending'
      BY <1>4, <2>3
    <3>2. ses[home[w]].who = w
      BY DEF Rightful, OfSessions
    <3>3. b0.tok = r.tok
      BY <1>3, <2>1, <3>1
    <3>4. x0.snap.who = w
      BY <1>3, <1>5, <2>1, <3>2, <3>3 DEF Rightful, OfTokens
    <3>. QED
      BY <1>1, <1>5, <1>6, <2>1, <3>1, <3>4 DEF Placed
  <2>. QED
    BY <2>2, <2>3
<1>. QED
  BY <1>6, <1>7, <1>8 DEF Placed

\* A session's own steps: the newcomer takes its place, only a closed session leaves.
LEMMA SessionAttended ==
  ASSUME TypeOK, Owned, Rightful, Attended, Regular', NEW s \in Sessions,
         \/ OnJoin(s) \/ OnLeave(s) \/ OnDimSwitch(s) \/ Close(s)
         \/ \E d \in Dims : SwitchDim(s, d)
  PROVE  Attended'
<1>1. /\ UNCHANGED <<home, rehomes, pending>> /\ s \in Opened /\ ses[s] \in Session
      /\ \A z \in Sessions \ {s} : ses'[z] = ses[z]
  BY DEF OnJoin, OnLeave, OnDimSwitch, Close, SwitchDim, TypeOK, Opened
<1>. SUFFICES ASSUME NEW w \in Players, home[w] # Offline
              PROVE  ~ ses'[home[w]].closed /\ Placed(w)'
  BY <1>1 DEF Attended
<1>2. ~ ses[home[w]].closed /\ Placed(w) /\ home[w] \in Sessions
  BY DEF Attended, Rightful, OfSessions, Opened
<1>3. CASE OnJoin(s)
  <2>. DEFINE n == [pod |-> ses[s].pod, ses |-> s, mig |-> FALSE, snap |-> ses[s].snap]
  <2>1. /\ ents' = (ents \ Here(ses[s].pod, ses[s].snap.eid)) \cup {n}
        /\ ses'[s] = [ses[s] EXCEPT !.st = "live"]
        /\ s \in Posted
    BY <1>3 DEF OnJoin, TypeOK, Posted, Opened
  <2>2. n.ses = s /\ ses'[s].closed = ses[s].closed
    BY <1>1, <2>1 DEF Session
  <2>. HIDE DEF n
  <2>3. \A t \in ents : t \in ents'
    BY <2>1 DEF Owned, Exclusive, Here
  <2>4. ~ ses'[home[w]].closed
    BY <1>1, <1>2, <2>2
  <2>5. CASE home[w] = s
    BY <1>1, <2>1, <2>2, <2>4, <2>5 DEF Placed
  <2>6. CASE home[w] # s
    BY <1>1, <1>2, <2>3, <2>4, <2>6, PlacedKept
  <2>. QED
    BY <2>5, <2>6
<1>4. CASE OnLeave(s)
  <2>1. \A t \in ents : t \in ents' \/ t.ses = s
    BY <1>4 DEF OnLeave, Regular, TypeOK, FaultCounts
  <2>2. home[w] # s
    BY <1>2, <1>4 DEF OnLeave
  <2>. QED
    BY <1>1, <1>2, <2>1, <2>2, PlacedKept
<1>5. CASE OnDimSwitch(s) \/ \E d \in Dims : SwitchDim(s, d)
  <2>1. ses'[s].closed = ses[s].closed /\ ses'[s].st = ses[s].st
    <3>1. \/ ses'[s] = [ses[s] EXCEPT !.moving = FALSE]
          \/ \E d \in Dims : ses'[s] = [ses[s] EXCEPT !.dim = d, !.moving = TRUE]
      BY <1>5 DEF OnDimSwitch, SwitchDim, TypeOK
    <3>. QED
      BY <1>1, <3>1 DEF Session
  <2>2. \A t \in ents : \E u \in ents' : u.ses = t.ses
    <3>. SUFFICES ASSUME NEW t \in ents PROVE \E u \in ents' : u.ses = t.ses
      OBVIOUS
    <3>1. t \in ents' \/ [t EXCEPT !.snap.dim = ses[s].dim] \in ents'
      BY <1>5 DEF OnDimSwitch, SwitchDim
    <3>. QED
      BY <3>1 DEF TypeOK, Tracked
  <2>3. ~ ses'[home[w]].closed /\ (ses[home[w]].st = "posted" => ses'[home[w]].st = "posted")
    BY <1>1, <1>2, <2>1
  <2>. QED
    BY <1>1, <1>2, <2>2, <2>3, PlacedKept
<1>6. CASE Close(s)
  <2>1. home[w] # s /\ UNCHANGED ents
    BY <1>6 DEF Close
  <2>. QED
    BY <1>1, <1>2, <2>1, PlacedKept
<1>. QED
  BY <1>3, <1>4, <1>5, <1>6

\* A session opened at login or at the destination is its player's place.
LEMMA OpenAttended ==
  ASSUME TypeOK, Rightful, Attended, NEW w \in Players, NEW s \in Sessions,
         ses[s] = Unused, \A z \in Sessions \ {s} : ses'[z] = ses[z],
         ses'[s].st = "posted", ~ ses'[s].closed,
         home' = [home EXCEPT ![w] = s], UNCHANGED ents,
         \A v \in Players \ {w}, r \in rehomes, x \in pending :
           home[v] = r.ses /\ x.pod = r.dest /\ x.tok = r.tok
             => r \in rehomes' /\ x \in pending'
  PROVE  Attended'
<1>. SUFFICES ASSUME NEW v \in Players, home'[v] # Offline
              PROVE  ~ ses'[home'[v]].closed /\ Placed(v)'
  BY DEF Attended
<1>1. CASE v = w
  BY <1>1 DEF TypeOK, Placed
<1>2. CASE v # w
  <2>1. home'[v] = home[v]
    BY <1>2 DEF TypeOK
  <2>2. /\ home[v] \in Opened /\ home[v] # s /\ ses'[home[v]] = ses[home[v]]
        /\ ~ ses[home[v]].closed /\ Placed(v)
    BY <2>1 DEF Rightful, OfSessions, Opened, Attended
  <2>3. CASE ses[home[v]].st = "posted" \/ \E t \in ents : t.ses = home[v]
    BY <2>1, <2>2, <2>3 DEF Placed
  <2>4. CASE \E r \in rehomes, x \in pending :
               r.ses = home[v] /\ x.pod = r.dest /\ x.tok = r.tok /\ x.snap.who = v
    BY <1>2, <2>1, <2>2, <2>4 DEF Placed
  <2>. QED
    BY <2>2, <2>3, <2>4 DEF Placed
<1>. QED
  BY <1>1, <1>2

LEMMA LoginAttended ==
  ASSUME TypeOK, Rightful, Attended, NEW w \in Players, NEW s \in Sessions, NEW p \in Pods,
         Login(w, s, p)
  PROVE  Attended'
<1>. DEFINE k == [who |-> w, eid |-> MintPlayerEID(p), dim |-> Overworld, rev |-> 0]
<1>1. /\ UNCHANGED <<ents, rehomes, pending>> /\ ses[s] = Unused
      /\ home' = [home EXCEPT ![w] = s]
      /\ ses'[s] = Joining(w, p, k) /\ \A z \in Sessions \ {s} : ses'[z] = ses[z]
  BY DEF Login, TypeOK
<1>2. ses'[s].st = "posted" /\ ~ ses'[s].closed
  BY <1>1 DEF Joining
<1>. HIDE DEF k
<1>. QED
  BY <1>1, <1>2, OpenAttended

\* A claim takes what its own gateway was told of, and nobody else's.
LEMMA ResumeAttended ==
  ASSUME TypeOK, Owned, Rightful, Attended, NEW w \in Players, NEW s \in Sessions,
         NEW r \in rehomes, Resume(w, s, r)
  PROVE  Attended'
<1>1. /\ UNCHANGED ents /\ home[w] = r.ses /\ ses[s] = Unused
      /\ rehomes' = rehomes \ {r} /\ pending' = pending \ Claimed(r)
  BY DEF Resume
<1>2. \A v \in Players \ {w}, z \in rehomes, x \in pending :
        home[v] = z.ses /\ x.pod = z.dest /\ x.tok = z.tok => z \in rehomes' /\ x \in pending'
  <2>. SUFFICES ASSUME NEW v \in Players \ {w}, NEW z \in rehomes, NEW x \in pending,
                       home[v] = z.ses, x.tok = z.tok
                PROVE  z # r /\ x \notin Claimed(r)
    BY <1>1
  <2>1. r \in Rehome /\ z \in Rehome /\ r.ses # Offline /\ z.ses # Offline
    BY OfflineAssumption DEF TypeOK, Rehome
  <2>2. z # r
    BY <1>1, <2>1 DEF Rightful, OfSessions
  <2>. QED
    BY <2>2 DEF Claimed, Owned, TokenOnce
<1>3. CASE ses' = ses /\ home' = [home EXCEPT ![w] = Offline]
  <2>. SUFFICES ASSUME NEW v \in Players, home'[v] # Offline
                PROVE  ~ ses'[home'[v]].closed /\ Placed(v)'
    BY DEF Attended
  <2>1. v # w /\ home'[v] = home[v]
    BY <1>3 DEF TypeOK
  <2>2. ~ ses[home[v]].closed /\ Placed(v)
    BY <2>1 DEF Attended
  <2>. QED
    BY <1>1, <1>2, <1>3, <2>1, <2>2 DEF Placed
<1>4. CASE \E x \in Claimed(r) : /\ home' = [home EXCEPT ![w] = s]
                                 /\ ses' = [ses EXCEPT ![s] = Joining(w, r.dest, x.snap)]
  <2>1. PICK x \in Claimed(r) : /\ home' = [home EXCEPT ![w] = s]
                                /\ ses' = [ses EXCEPT ![s] = Joining(w, r.dest, x.snap)]
    BY <1>4
  <2>2. ses'[s] = Joining(w, r.dest, x.snap) /\ \A z \in Sessions \ {s} : ses'[z] = ses[z]
    BY <2>1 DEF TypeOK
  <2>3. ses'[s].st = "posted" /\ ~ ses'[s].closed
    BY <2>2 DEF Joining
  <2>. QED
    BY <1>1, <1>2, <2>1, <2>2, <2>3, OpenAttended
<1>. QED
  BY <1>3, <1>4 DEF Resume

\* Who is released is told where: the destination holds its state under the token.
LEMMA FinishAttended ==
  ASSUME TypeOK, Owned, Rightful, Custody, Attended, Regular',
         NEW q \in Pods, NEW p \in Pods, FinishHandover(q, p)
  PROVE  Attended'
<1>1. UNCHANGED <<pending, ses, home>>
  BY DEF FinishHandover
<1>2. CASE ~ Head(wire[<<q, p>>]).ok
  <2>1. UNCHANGED rehomes
    BY <1>2 DEF FinishHandover
  <2>2. \A t \in ents : \E u \in ents' : u.ses = t.ses
    <3>. SUFFICES ASSUME NEW t \in ents PROVE \E u \in ents' : u.ses = t.ses
      OBVIOUS
    <3>1. t \in ents' \/ [t EXCEPT !.mig = FALSE] \in ents'
      BY <1>2 DEF FinishHandover
    <3>. QED
      BY <3>1 DEF TypeOK, Tracked
  <2>. QED
    BY <1>1, <2>1, <2>2, SessionsAside
<1>3. CASE Head(wire[<<q, p>>]).ok
  <2>. DEFINE told(h) == [ses |-> h.ses, dest |-> h.dest, tok |-> h.tok]
  <2>1. /\ rehomes \subseteq rehomes'
        /\ \A h \in handoffs :
             h.tok = Head(wire[<<q, p>>]).tok /\ h.tok.sid = p => told(h) \in rehomes'
    <3>1. faults.full + 1 # 0
      BY Bounds DEF TypeOK, FaultCounts
    <3>2. ~ (faults' = [faults EXCEPT !.full = @ + 1])
      BY <3>1 DEF Regular, TypeOK, FaultCounts
    <3>. QED
      BY <1>3, <3>2 DEF FinishHandover
  <2>. SUFFICES ASSUME NEW w \in Players, home[w] # Offline
                PROVE  ~ ses[home[w]].closed /\ Placed(w)'
    BY <1>1 DEF Attended
  <2>2. ~ ses[home[w]].closed /\ Placed(w)
    BY DEF Attended
  <2>3. CASE \A t \in ents : t.ses = home[w] => t \in ents'
    BY <1>1, <2>1, <2>2, <2>3, PlacedKept
  <2>4. CASE \E t \in ents : t.ses = home[w] /\ t \notin ents'
    <3>1. PICK t \in ents : t.ses = home[w] /\ t \notin ents'
      BY <2>4
    <3>2. PICK h \in handoffs : /\ h.tok = Head(wire[<<q, p>>]).tok /\ h.tok.sid = p
                                /\ t \in Released(p, h)
      BY <1>3, <3>1 DEF FinishHandover
    <3>3. h.ses = home[w]
      BY <3>1, <3>2 DEF Released, Here, Custody
    <3>4. PICK x \in pending : x.tok = h.tok /\ x.pod = h.dest
      BY <1>3, <3>2, AckedIsHeld
    <3>5. [tok |-> x.tok, who |-> x.snap.who] \in Borne
      BY DEF Borne
    <3>6. x.snap.who = ses[h.ses].who
      BY <3>4, <3>5 DEF Rightful, OfTokens
    <3>7. x.snap.who = w
      BY <3>3, <3>6 DEF Rightful, OfSessions
    <3>8. told(h) \in rehomes'
      BY <2>1, <3>2
    <3>. QED
      BY <1>1, <2>2, <3>3, <3>4, <3>7, <3>8 DEF Placed
  <2>. QED
    BY <2>3, <2>4
<1>. QED
  BY <1>2, <1>3

\* Without restarts, full queues and late leaves, no step strands anybody.
LEMMA AttendedStep ==
  ASSUME TypeOK, Owned, Rightful, Custody, Attended, [Next]_vars, Regular'
  PROVE  Attended'
<1>1. ~ \E p \in Pods : Restart(p)
  BY NoRestart
<1>2. CASE HubStep
  BY <1>2, AsideAttended, SessionAttended, HoldAttended, FinishAttended DEF HubStep
<1>3. CASE GatewayStep
  BY <1>3, AsideAttended, SessionAttended, LoginAttended, ResumeAttended DEF GatewayStep
<1>4. CASE FaultStep
  BY <1>1, <1>4, AsideAttended DEF FaultStep
<1>. QED
  BY <1>2, <1>3, <1>4, AsideAttended DEF Next

(***************************************************************************)
(* The theorems.                                                           *)
(***************************************************************************)
LEMMA CustodyInit == Init => CustodyInv
<1>. SUFFICES ASSUME Init PROVE Custody /\ Attended
  BY DEF CustodyInv
<1>1. ents = {} /\ handoffs = {} /\ pending = {}
      /\ \A w \in Players : home[w] = Offline
  BY DEF Init
<1>2. \A l \in Links : DOMAIN wire[l] = {}
  BY DEF Init, Links
<1>3. Routed = {}
  BY <1>2 DEF Routed
<1>4. \A p \in Pods : {p} \notin links
  BY DEF Init
<1>. QED
  BY <1>1, <1>3, <1>4 DEF Custody, Attended

LEMMA CustodyInvStep ==
  TypeOK /\ OwnerInv /\ StateInv /\ CustodyInv /\ [Next]_vars => CustodyInv'
<1>. SUFFICES ASSUME TypeOK, OwnerInv, StateInv, CustodyInv, [Next]_vars, Regular'
              PROVE  Custody' /\ Attended'
  BY DEF CustodyInv
<1>1. Regular /\ Owned /\ Rightful /\ Custody /\ Attended
  BY StaysRegular DEF Regular, OwnerInv, StateInv, CustodyInv
<1>. QED
  BY <1>1, CustodyStep, AttendedStep

LEMMA Safe == Spec => [](TypeOK /\ OwnerInv /\ StateInv /\ CustodyInv)
BY TypeInit, TypeStep, OwnerInit, OwnerStep, StateInit, StateStep, CustodyInit, CustodyInvStep,
   PTL DEF Spec

\* Wherever links drop, a player whose gateway is attached is joining, simulated,
\* or held under the token its gateway was told.
THEOREM NeverStrandedAlways == Spec => []NeverStranded
<1>1. CustodyInv => NeverStranded
  BY DEF CustodyInv, Attended, NeverStranded
<1>. QED
  BY Safe, <1>1, PTL

\* A pod stops simulating a player that has not left only once the destination
\* holds its state.
THEOREM MakesBeforeBreaking == Spec => MakeBeforeBreak
<1>. DEFINE Step == Regular' => \A t \in ents :
                      \/ \E u \in ents' : u.ses = t.ses
                      \/ ses[t.ses].closed
                      \/ \E x \in pending : x.pod # t.pod /\ x.snap.eid = t.snap.eid
<1>1. TypeOK /\ OwnerInv /\ CustodyInv /\ [Next]_vars => [Step]_vars
  <2>. SUFFICES ASSUME TypeOK, OwnerInv, CustodyInv, [Next]_vars, Regular', NEW t \in ents
                PROVE  \/ \E u \in ents' : u.ses = t.ses
                       \/ ses[t.ses].closed
                       \/ \E x \in pending : x.pod # t.pod /\ x.snap.eid = t.snap.eid
    OBVIOUS
  <2>1. Owned /\ Custody
    BY StaysRegular DEF Regular, OwnerInv, CustodyInv
  <2>. QED
    BY <2>1, NoBreakBeforeMake
<1>. QED
  BY Safe, <1>1, PTL DEF Spec, MakeBeforeBreak
=============================================================================
