------------------------------ MODULE Handover ------------------------------
(***************************************************************************)
(* The player hand-over between world pods that own disjoint regions       *)
(* (internal/server/handoff.go, the session half in remote.go and hub.go). *)
(* A player whose accepted move lands in a neighbour's region is           *)
(* snapshotted and sent over the warm peer link; the neighbour holds the   *)
(* snapshot pending and acks; the source then forgets the player and tells *)
(* the player's gateway to re-attach at the neighbour with a token, which  *)
(* claims the snapshot.                                                    *)
(*                                                                         *)
(* One action is one event handled by a pod's single hub goroutine, one    *)
(* step of a gateway (external to this repository), or one fault.  What a  *)
(* player is, is abstracted to its dimension and a counter bumped by every *)
(* other change the hub makes to it (where it stands included: a move is   *)
(* named by the region it ends in); what a mob is, to its identity and     *)
(* dimension.                                                              *)
(***************************************************************************)
EXTENDS Naturals, Sequences, FiniteSets

CONSTANTS
  Pods,         \* shard ids
  LoginPods,    \* the pods a gateway opens fresh logins at
  Players,      \* identities (name and uuid)
  Sessions,     \* attach sessions, each used once
  Mobs,         \* mobs, named by their uuid
  Unused,       \* a session not opened yet
  Dims,         \* dimensions
  Overworld,    \* the one a fresh login joins
  DimsOf,       \* [Pods -> SUBSET Dims]: the dimensions each pod runs
  MaxEID,       \* bound: entity ids a pod mints between restarts
  MaxMig,       \* bound: player migration ids a pod mints between restarts
  MaxRev,       \* bound: local changes to one player
  MaxDrops,     \* bound: link drops
  MaxRestarts,  \* bound: pod restarts
  MaxFull,      \* bound: re-home frames met by a full session queue
  MaxStale      \* bound: leaves handled after the player's return to the pod

ASSUME ConstantsAssumption ==
  /\ LoginPods \subseteq Pods
  /\ Overworld \in Dims
  /\ DimsOf \in [Pods -> SUBSET Dims]
  /\ {MaxEID, MaxMig, MaxRev, MaxDrops, MaxRestarts, MaxFull, MaxStale} \subseteq Nat

VARIABLES
  ents,      \* the players maps of all hubs: who is simulated where
  mobs,      \* the mobs of all hubs
  filed,     \* the mobs in each pod's mobs.json
  handoffs,  \* releases awaiting the destination's ack
  pending,   \* snapshots held for a gateway to claim
  ses,       \* attach sessions
  rehomes,   \* re-home frames queued to, or read by, a session's gateway
  home,      \* external: the session a player's gateway plays on
  links,     \* pairs of pods with a warm peer link
  wire,      \* peer frames sent and not yet handled, per direction
  eidCtr,    \* hub.eidCounter
  migSeq,    \* hub.migSeq
  faults,    \* how many faults of each kind have happened
  minted     \* history: entity ids and tokens ever minted, and whether one twice

vars == <<ents, mobs, filed, handoffs, pending, ses, rehomes, home, links, wire,
          eidCtr, migSeq, faults, minted>>

(***************************************************************************)
(* Data.                                                                   *)
(***************************************************************************)
EIDs     == 1..MaxEID
Offline  == "offline"

\* What playerStateOf takes and applyPlayerState gives back; who is the
\* player whose state it is.
Snaps == [who : Players, eid : EIDs, dim : Dims, rev : 0..MaxRev]

\* nextMigID: "<sid>.<migSeq>".
Tokens == [sid : Pods, n : Nat \ {0}]

\* A tracked player; mig is t.migrating # "".
Tracked  == [pod : Pods, ses : Sessions, mig : BOOLEAN, snap : Snaps]
Handoff  == [tok : Tokens, ses : Sessions, eid : EIDs, dest : Pods]
Pending  == [pod : Pods, tok : Tokens, snap : Snaps]
Rehome   == [ses : Sessions, dest : Pods, tok : Tokens]
Mob      == [pod : Pods, id : Mobs, dim : Dims]
Migrates == [typ : {"migrate"}, tok : Tokens, snap : Snaps]
MobMoves == [typ : {"mob"}, tok : Tokens, id : Mobs, dim : Dims]
Acks     == [typ : {"ack"}, tok : Tokens, ok : BOOLEAN]
Frames   == Migrates \cup MobMoves \cup Acks

\* An attach session of player who: "posted" has its evJoin in the hub's
\* queue, "live" has been joined, "left" has had its evLeave handled.  snap is
\* the state evJoin carries, dim the dimension its connection plays in (p.dim,
\* which the connection owns), moving that an evDim to there is in the queue,
\* closed that the gateway hung up (evLeave is in the queue).
Session == [st : {"posted", "live", "left"}, who : Players, pod : Pods,
            snap : Snaps, dim : Dims, moving : BOOLEAN, closed : BOOLEAN]

ASSUME UnusedAssumption == Unused \notin Session

ASSUME OfflineAssumption == Offline \notin Sessions

FaultCounts == [drop : 0..MaxDrops, restart : 0..MaxRestarts, full : 0..MaxFull,
                stale : 0..MaxStale]
Histories   == [eids : SUBSET EIDs, toks : SUBSET Tokens, twice : BOOLEAN]

Opened == {s \in Sessions : ses[s] # Unused}

Pairs == {{p, q} : p, q \in Pods}

Connected(p, q) == {p, q} \in links

Here(p, eid) == {t \in ents : t.pod = p /\ t.snap.eid = eid}

(***************************************************************************)
(* Initial state: every pod has booted and dialled, nobody is attached.    *)
(***************************************************************************)
Init ==
  /\ ents = {}
  /\ mobs \in {M \in SUBSET Mob : \A id \in Mobs :
                \E m \in M : m.id = id /\ m.dim \in DimsOf[m.pod]
                            /\ \A o \in M : o.id = id => o = m}
  /\ filed = mobs
  /\ handoffs = {}
  /\ pending = {}
  /\ ses = [s \in Sessions |-> Unused]
  /\ rehomes = {}
  /\ home = [w \in Players |-> Offline]
  /\ links = Pairs \ {{p} : p \in Pods}
  /\ wire = [l \in Pods \X Pods |-> <<>>]
  /\ eidCtr = [p \in Pods |-> 0]
  /\ migSeq = [p \in Pods |-> 0]
  /\ faults = [drop |-> 0, restart |-> 0, full |-> 0, stale |-> 0]
  /\ minted = [eids |-> {}, toks |-> {}, twice |-> FALSE]

(***************************************************************************)
(* The peer mesh as the hand-over sees it.  A frame is lost only with the  *)
(* link it was written to; frames the reader had already posted to the     *)
(* hub survive the link.                                                   *)
(***************************************************************************)
Send(p, q, m) == wire' = [wire EXCEPT ![<<p, q>>] = Append(@, m)]

\* The link between p and q is gone; i and j frames had been read off it.
Truncated(p, q, i, j) ==
  [l \in Pods \X Pods |-> IF l = <<p, q>> THEN SubSeq(wire[l], 1, i)
                          ELSE IF l = <<q, p>> THEN SubSeq(wire[l], 1, j)
                          ELSE wire[l]]

BreakLink(p, q) ==
  /\ Connected(p, q)
  /\ faults.drop < MaxDrops
  /\ faults' = [faults EXCEPT !.drop = @ + 1]
  /\ links' = links \ {{p, q}}
  /\ \E i \in 0..Len(wire[<<p, q>>]), j \in 0..Len(wire[<<q, p>>]) :
       wire' = Truncated(p, q, i, j)

LinkDrop(p, q) ==
  /\ BreakLink(p, q)
  /\ UNCHANGED <<ents, mobs, filed, handoffs, pending, ses, rehomes, home, eidCtr, migSeq, minted>>

LinkUp(p, q) ==
  /\ p # q
  /\ ~ Connected(p, q)
  /\ links' = links \cup {{p, q}}
  /\ UNCHANGED <<ents, mobs, filed, handoffs, pending, ses, rehomes, home, wire, eidCtr,
                 migSeq, faults, minted>>

(***************************************************************************)
(* Attach sessions and the hub events they post.                           *)
(***************************************************************************)

\* Fault: the number before the counter is advanced.
MintPlayerEIDTooLate(p) == eidCtr[p]

\* mintPlayerEID: the next number of the pod's counter, in the one player lane
\* all pods share.
MintPlayerEID(p) == eidCtr[p] + 1

\* newPlayer, and the evJoin posted for it: a connection starts in the
\* overworld, whatever state is to be applied to its player.
Joining(w, p, snap) ==
  [st |-> "posted", who |-> w, pod |-> p, snap |-> snap, dim |-> Overworld, moving |-> FALSE,
   closed |-> FALSE]

\* A gateway logs an offline player in at p (JoinRemote): the entity id is
\* minted in the player lane from p's own counter, and evJoin is posted.
Login(w, s, p) ==
  /\ home[w] = Offline
  /\ ses[s] = Unused
  /\ p \in LoginPods
  /\ eidCtr[p] < MaxEID
  /\ eidCtr' = [eidCtr EXCEPT ![p] = @ + 1]
  /\ ses' = [ses EXCEPT ![s] =
       Joining(w, p, [who |-> w, eid |-> MintPlayerEID(p), dim |-> Overworld, rev |-> 0])]
  /\ home' = [home EXCEPT ![w] = s]
  /\ minted' = [minted EXCEPT !.eids = @ \cup {MintPlayerEID(p)},
                              !.twice = @ \/ MintPlayerEID(p) \in minted.eids]
  /\ UNCHANGED <<ents, mobs, filed, handoffs, pending, rehomes, links, wire, migSeq, faults>>

\* onJoin: the newcomer takes the map entry of its entity id.
OnJoin(s) ==
  LET new == [pod |-> ses[s].pod, ses |-> s, mig |-> FALSE, snap |-> ses[s].snap] IN
  /\ ses[s] # Unused
  /\ ses[s].st = "posted"
  /\ ents' = (ents \ Here(new.pod, new.snap.eid)) \cup {new}
  /\ ses' = [ses EXCEPT ![s].st = "live"]
  /\ UNCHANGED <<mobs, filed, handoffs, pending, rehomes, home, links, wire, eidCtr, migSeq, faults, minted>>

\* onLeave: whoever holds the session's entity id leaves the map.  The
\* holder is another session's player when the leave is handled after the
\* player has come back to this pod by another hand-over.
OnLeave(s) ==
  LET held == Here(ses[s].pod, ses[s].snap.eid) IN
  /\ ses[s] # Unused
  /\ ses[s].st = "live"
  /\ ses[s].closed
  /\ ~ ses[s].moving
  /\ ents' = ents \ held
  /\ ses' = [ses EXCEPT ![s].st = "left"]
  /\ \/ /\ \A t \in held : t.ses = s
        /\ UNCHANGED faults
     \/ /\ \E t \in held : t.ses # s
        /\ faults.stale < MaxStale
        /\ faults' = [faults EXCEPT !.stale = @ + 1]
  /\ UNCHANGED <<mobs, filed, handoffs, pending, rehomes, home, links, wire, eidCtr, migSeq, minted>>

\* An event that changes a player the hub simulates: a move inside the
\* region or past a seam with no link, damage, a pick-up, a click.
LocalChange(t) ==
  /\ t.snap.rev < MaxRev
  /\ ents' = (ents \ {t}) \cup {[t EXCEPT !.snap.rev = @ + 1]}
  /\ UNCHANGED <<mobs, filed, handoffs, pending, ses, rehomes, home, links, wire, eidCtr,
                 migSeq, faults, minted>>

\* The connection carries its player to another dimension of the pod (a portal
\* the hub flagged, a command) and posts evDim.
SwitchDim(s, d) ==
  /\ ses[s] # Unused
  /\ ses[s].st = "live"
  /\ ~ ses[s].moving
  /\ \E w \in Players : home[w] = s
  /\ d \in DimsOf[ses[s].pod] \ {ses[s].dim}
  /\ ses' = [ses EXCEPT ![s].dim = d, ![s].moving = TRUE]
  /\ UNCHANGED <<ents, mobs, filed, handoffs, pending, rehomes, home, links, wire, eidCtr,
                 migSeq, faults, minted>>

\* onDimSwitch: whoever holds the session's entity id follows; nobody does
\* when the player was released meanwhile.
OnDimSwitch(s) ==
  LET held == Here(ses[s].pod, ses[s].snap.eid) IN
  /\ ses[s] # Unused
  /\ ses[s].st = "live"
  /\ ses[s].moving
  /\ ses' = [ses EXCEPT ![s].moving = FALSE]
  /\ ents' = (ents \ held) \cup {[t EXCEPT !.snap.dim = ses[s].dim] : t \in held}
  /\ UNCHANGED <<mobs, filed, handoffs, pending, rehomes, home, links, wire, eidCtr,
                 migSeq, faults, minted>>

\* evMove of a player that stands, or is kept standing, in dest's region
\* (checkSeamCrossing, beginHandover).
CrossSeam(t, dest) ==
  LET tok == [sid |-> t.pod, n |-> migSeq[t.pod] + 1] IN
  /\ ~ t.mig
  /\ Connected(t.pod, dest)
  /\ tok.n <= MaxMig
  /\ migSeq' = [migSeq EXCEPT ![t.pod] = @ + 1]
  /\ minted' = [minted EXCEPT !.toks = @ \cup {tok},
                              !.twice = @ \/ tok \in minted.toks]
  /\ \/ /\ ents' = (ents \ {t}) \cup {[t EXCEPT !.mig = TRUE]}
        /\ handoffs' = handoffs \cup
             {[tok |-> tok, ses |-> t.ses, eid |-> t.snap.eid, dest |-> dest]}
        /\ Send(t.pod, dest, [typ |-> "migrate", tok |-> tok, snap |-> t.snap])
        /\ UNCHANGED <<links, faults>>
     \/ \* the link dropped after connected(): rolled back
        /\ BreakLink(t.pod, dest)
        /\ UNCHANGED <<ents, handoffs>>
  /\ UNCHANGED <<mobs, filed, pending, ses, rehomes, home, eidCtr>>

\* The hub's mob autosave: mobs.json becomes what p simulates.
SaveMobs(p) ==
  /\ filed' = {m \in filed : m.pod # p} \cup {m \in mobs : m.pod = p}
  /\ UNCHANGED <<ents, mobs, handoffs, pending, ses, rehomes, home, links, wire,
                 eidCtr, migSeq, faults, minted>>

\* Fault: a mob that was sent is kept.
NotRemoved(m) == {}

\* removeMob: the map forgets the mob.
Removed(m) == {m}

\* migrateMobAcross: sent and removed in one step; a mob whose link is down
\* or drops under the send is clamped at the edge instead.
MobMove(m, q) ==
  LET tok == [sid |-> m.pod, n |-> migSeq[m.pod] + 1] IN
  /\ Connected(m.pod, q)
  /\ tok.n <= MaxMig
  /\ migSeq' = [migSeq EXCEPT ![m.pod] = @ + 1]
  /\ minted' = [minted EXCEPT !.toks = @ \cup {tok},
                              !.twice = @ \/ tok \in minted.toks]
  /\ \/ /\ mobs' = mobs \ Removed(m)
        /\ Send(m.pod, q, [typ |-> "mob", tok |-> tok, id |-> m.id, dim |-> m.dim])
        /\ UNCHANGED <<links, faults>>
     \/ /\ BreakLink(m.pod, q)
        /\ UNCHANGED mobs
  /\ UNCHANGED <<ents, filed, handoffs, pending, ses, rehomes, home, eidCtr>>

(***************************************************************************)
(* Peer frames.                                                            *)
(***************************************************************************)
Arrives(q, p, typ) ==
  /\ wire[<<q, p>>] # <<>>
  /\ Head(wire[<<q, p>>]).typ = typ

\* The frame from q is taken off its wire.
Taken(q, p) == [wire EXCEPT ![<<q, p>>] = Tail(@)]

\* ... and answered, if the link still stands (a send error is ignored).
Answered(q, p, answer) ==
  [l \in Pods \X Pods |->
     IF l = <<q, p>> THEN Tail(wire[l])
     ELSE IF l = <<p, q>> /\ Connected(p, q) THEN Append(wire[l], answer)
     ELSE wire[l]]

\* Fault: the snapshot is acked and not held.
Forgotten(p, m) == pending

\* setPending: the snapshot of migration m waits at p, replacing one held
\* under the same token.
Held(p, m) ==
  {x \in pending : x.pod # p \/ x.tok # m.tok}
    \cup {[pod |-> p, tok |-> m.tok, snap |-> m.snap]}

\* Fault: a refusal is not sent.
SilentlyRefused(q, p, m, runs) ==
  IF runs THEN Answered(q, p, [typ |-> "ack", tok |-> m.tok, ok |-> TRUE])
          ELSE Taken(q, p)

\* The ack of a held player, and the refusal of a dimension p does not run.
AckOf(q, p, m, runs) == Answered(q, p, [typ |-> "ack", tok |-> m.tok, ok |-> runs])

\* applyMigration of a player.
ApplyMigration(q, p) ==
  LET m    == Head(wire[<<q, p>>])
      runs == m.snap.dim \in DimsOf[p]
  IN
  /\ Arrives(q, p, "migrate")
  /\ pending' = IF runs THEN Held(p, m) ELSE pending
  /\ wire' = AckOf(q, p, m, runs)
  /\ UNCHANGED <<ents, mobs, filed, handoffs, ses, rehomes, home, links, eidCtr, migSeq,
                 faults, minted>>

\* applyMigration of a mob: spawned at once and never acked; a refusal goes
\* back to a sender that has nothing left to keep.
ApplyMobMigration(q, p) ==
  LET m == Head(wire[<<q, p>>]) IN
  /\ Arrives(q, p, "mob")
  /\ \/ /\ m.dim \in DimsOf[p]
        /\ mobs' = mobs \cup {[pod |-> p, id |-> m.id, dim |-> m.dim]}
        /\ wire' = Taken(q, p)
     \/ /\ m.dim \notin DimsOf[p]
        /\ wire' = AckOf(q, p, m, FALSE)
        /\ UNCHANGED mobs
  /\ UNCHANGED <<ents, filed, handoffs, pending, ses, rehomes, home, links, eidCtr,
                 migSeq, faults, minted>>

\* Fault: the source keeps the player it has released.
NotReleased(p, h) == {}

\* The players an acked release h forgets at p: whoever holds the entity id.
Released(p, h) == Here(p, h.eid)

\* finishHandover: an unknown id is ignored; a refusal thaws the player; an
\* ack forgets whoever holds its entity id and tells its session to re-home,
\* unless that session's queue is full (Rehome is sent with trySendEv).
FinishHandover(q, p) ==
  LET m    == Head(wire[<<q, p>>])
      mine == {h \in handoffs : h.tok = m.tok /\ h.tok.sid = p}
      frozen == {t \in ents : \E h \in mine : t.pod = p /\ t.ses = h.ses}
  IN
  /\ Arrives(q, p, "ack")
  /\ wire' = Taken(q, p)
  /\ handoffs' = handoffs \ mine
  /\ IF m.ok
     THEN /\ ents' = {t \in ents : \A h \in mine : t \notin Released(p, h)}
          /\ \/ /\ rehomes' = rehomes \cup
                     {[ses |-> h.ses, dest |-> h.dest, tok |-> h.tok] : h \in mine}
                /\ UNCHANGED faults
             \/ /\ mine # {}
                /\ faults.full < MaxFull
                /\ faults' = [faults EXCEPT !.full = @ + 1]
                /\ UNCHANGED rehomes
     ELSE /\ ents' = {t \in ents : t \notin frozen}
                       \cup {[t EXCEPT !.mig = FALSE] : t \in frozen}
          /\ UNCHANGED <<rehomes, faults>>
  /\ UNCHANGED <<mobs, filed, pending, ses, home, links, eidCtr, migSeq, minted>>

(***************************************************************************)
(* The gateway, external to this repository: modelled by the frames the    *)
(* engine expects of it.                                                   *)
(***************************************************************************)

\* Fault: whatever the pod holds is claimed.
ClaimedByPod(r) == {x \in pending : x.pod = r.dest}

\* claimPendingResume: what is held under the token.
Claimed(r) == {x \in pending : x.pod = r.dest /\ x.tok = r.tok}

\* The home session's gateway reads Rehome and dials the destination with
\* the token (ResumeRemote): a snapshot held under it is claimed and posted,
\* keeping its entity id, while the new connection's own dimension stays the
\* one it starts with; an unknown token is refused and the player is lost to
\* the world until a new login.
Resume(w, s, r) ==
  LET held == Claimed(r) IN
  /\ home[w] = r.ses
  /\ r \in rehomes
  /\ ses[s] = Unused
  /\ rehomes' = rehomes \ {r}
  /\ pending' = pending \ held
  /\ \/ /\ held = {}
        /\ home' = [home EXCEPT ![w] = Offline]
        /\ UNCHANGED ses
     \/ \E x \in held :
          /\ home' = [home EXCEPT ![w] = s]
          /\ ses' = [ses EXCEPT ![s] = Joining(w, r.dest, x.snap)]
  /\ UNCHANGED <<ents, mobs, filed, handoffs, links, wire, eidCtr, migSeq, faults, minted>>

\* The client quits, or its gateway dies.
Quit(w) ==
  /\ home[w] # Offline
  /\ home' = [home EXCEPT ![w] = Offline]
  /\ UNCHANGED <<ents, mobs, filed, handoffs, pending, ses, rehomes, links, wire, eidCtr, migSeq, faults, minted>>

\* The gateway hangs up a session that is no player's home any more.
Close(s) ==
  /\ ses[s] # Unused
  /\ ses[s].st # "left"
  /\ ~ ses[s].closed
  /\ \A w \in Players : home[w] # s
  /\ ses' = [ses EXCEPT ![s].closed = TRUE]
  /\ UNCHANGED <<ents, mobs, filed, handoffs, pending, rehomes, home, links, wire, eidCtr, migSeq, faults, minted>>

(***************************************************************************)
(* A pod dies and is restarted: everything the hand-over keeps is memory.  *)
(* Its links are down by then, its sessions dead; a Rehome they were sent  *)
(* may have been read.                                                     *)
(***************************************************************************)
Restart(p) ==
  LET dead == {s \in Opened : ses[s].pod = p} IN
  /\ faults.restart < MaxRestarts
  /\ \A q \in Pods : ~ Connected(p, q)
  /\ faults' = [faults EXCEPT !.restart = @ + 1]
  /\ ents' = {t \in ents : t.pod # p}
  /\ mobs' = {m \in mobs : m.pod # p} \cup {m \in filed : m.pod = p}
  /\ handoffs' = {h \in handoffs : h.tok.sid # p}
  /\ pending' = {x \in pending : x.pod # p}
  /\ ses' = [s \in Sessions |->
       IF s \in dead THEN [ses[s] EXCEPT !.st = "left", !.closed = TRUE, !.moving = FALSE]
       ELSE ses[s]]
  /\ \E lost \in SUBSET {r \in rehomes : r.ses \in dead} : rehomes' = rehomes \ lost
  /\ wire' = [l \in Pods \X Pods |-> IF l[2] = p THEN <<>> ELSE wire[l]]
  /\ eidCtr' = [eidCtr EXCEPT ![p] = 0]
  /\ migSeq' = [migSeq EXCEPT ![p] = 0]
  /\ UNCHANGED <<filed, home, links, minted>>

(***************************************************************************)
(* The specification.                                                      *)
(***************************************************************************)
HubStep ==
  \/ \E s \in Sessions : OnJoin(s) \/ OnLeave(s) \/ OnDimSwitch(s)
  \/ \E t \in ents : \/ LocalChange(t)
                     \/ \E q \in Pods : CrossSeam(t, q)
  \/ \E m \in mobs, q \in Pods : MobMove(m, q)
  \/ \E p \in Pods : SaveMobs(p)
  \/ \E q, p \in Pods : ApplyMigration(q, p) \/ ApplyMobMigration(q, p) \/ FinishHandover(q, p)

GatewayStep ==
  \/ \E w \in Players, s \in Sessions, p \in Pods : Login(w, s, p)
  \/ \E w \in Players, s \in Sessions, r \in rehomes : Resume(w, s, r)
  \/ \E s \in Sessions, d \in Dims : SwitchDim(s, d)
  \/ \E w \in Players : Quit(w)
  \/ \E s \in Sessions : Close(s)

FaultStep ==
  \/ \E p, q \in Pods : LinkDrop(p, q) \/ LinkUp(p, q)
  \/ \E p \in Pods : Restart(p)

Next == HubStep \/ GatewayStep \/ FaultStep

Spec == Init /\ [][Next]_vars

\* What the scheduler and the network owe: a hub handles what is queued, a
\* gateway acts on a Rehome and hangs up what it left.
Fairness ==
  /\ \A s \in Sessions : /\ WF_vars(OnJoin(s)) /\ WF_vars(OnLeave(s))
                         /\ WF_vars(OnDimSwitch(s)) /\ WF_vars(Close(s))
  /\ \A q, p \in Pods : /\ WF_vars(ApplyMigration(q, p))
                        /\ WF_vars(ApplyMobMigration(q, p))
                        /\ WF_vars(FinishHandover(q, p))
  /\ \A w \in Players : WF_vars(\E s \in Sessions, r \in rehomes : Resume(w, s, r))

FairSpec == Spec /\ Fairness

(***************************************************************************)
(* Properties.                                                             *)
(***************************************************************************)

\* Every variable holds what the code keeps in it.
TypeOK ==
  /\ ents \subseteq Tracked
  /\ mobs \subseteq Mob
  /\ filed \subseteq Mob
  /\ handoffs \subseteq Handoff
  /\ pending \subseteq Pending
  /\ ses \in [Sessions -> Session \cup {Unused}]
  /\ rehomes \subseteq Rehome
  /\ home \in [Players -> Sessions \cup {Offline}]
  /\ links \subseteq Pairs
  /\ wire \in [Pods \X Pods -> Seq(Frames)]
  /\ eidCtr \in [Pods -> 0..MaxEID]
  /\ migSeq \in [Pods -> Nat]
  /\ faults \in FaultCounts
  /\ minted \in Histories

\* No entity id and no migration id has been minted twice: what the code
\* means by "unique", and what it does not ensure across pods and restarts.
Unique == ~ minted.twice

\* An entity is simulated by at most one pod, once, whatever links break and
\* pods die, as long as ids are unique: the ack-gated release needs no
\* fencing.
OneOwner ==
  Unique => \A t, u \in ents : t.snap.eid = u.snap.eid => t = u

\* A player only ever plays its own state: a token claims the snapshot of
\* the hand-over it was issued for.
OwnState ==
  Unique => \A s \in Opened : ses[s].snap.who = ses[s].who

\* Whether the run so far is free of the faults that lose a player by design.
Regular ==
  Unique /\ faults.restart = 0 /\ faults.full = 0 /\ faults.stale = 0

\* A player whose gateway is attached is always somewhere: joining or live
\* on its home session, or held under the token its gateway was told.
Placed(w) ==
  LET s == home[w] IN
  \/ ses[s].st = "posted"
  \/ \E t \in ents : t.ses = s
  \/ \E r \in rehomes, x \in pending :
       r.ses = s /\ x.pod = r.dest /\ x.tok = r.tok /\ x.snap.who = w

\* Link drops at any point of a crossing strand nobody.
NeverStranded ==
  Regular => \A w \in Players : home[w] # Offline => Placed(w)

\* Make before break: a pod stops simulating a player that has not left only
\* once the destination holds its state.
MakeBeforeBreak ==
  [][Regular' => \A t \in ents :
       \/ \E u \in ents' : u.ses = t.ses
       \/ ses[t.ses].closed
       \/ \E x \in pending : x.pod # t.pod /\ x.snap.eid = t.snap.eid
     ]_vars

\* Where mob id is: simulated by a pod, or in a frame on its way.
MobCopies(id) ==
  {m.pod : m \in {m \in mobs : m.id = id}}
    \cup UNION {{<<l, i>> : i \in {i \in DOMAIN wire[l] :
                     wire[l][i].typ = "mob" /\ wire[l][i].id = id}} : l \in DOMAIN wire}

\* A mob crosses by fire and forget, so it may be lost with a link or a pod;
\* until a pod is restored from a mobs.json older than the crossing it is
\* never in two places.
MobOnce ==
  faults.restart = 0 => \A id \in Mobs : Cardinality(MobCopies(id)) <= 1

\* Player w has been sent away by its pod and not yet heard of again.
InTransit(w) == home[w] # Offline /\ \E t \in ents : t.ses = home[w] /\ t.mig

\* While no link breaks a crossing ends: the player is live again, here or
\* there, or has gone offline.
CrossingEnds ==
  \A w \in Players :
    InTransit(w) ~> \/ home[w] = Offline
                    \/ faults.drop > 0
                    \/ \E t \in ents : t.ses = home[w] /\ ~ t.mig
=============================================================================
