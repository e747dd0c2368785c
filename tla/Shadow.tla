------------------------------- MODULE Shadow -------------------------------
(***************************************************************************)
(* Cross-seam shadows (internal/server/shadow.go): a pod pushes its        *)
(* near-border players and mobs to the neighbours that can see them, over  *)
(* the links its hand-overs take, and the neighbours mirror them, read     *)
(* only, until the owner retracts them.                                    *)
(*                                                                         *)
(* One action is one event of a pod's hub, or one fault.  Where an entity  *)
(* stands is abstracted to its dimension and the pods whose territory is   *)
(* within shadowRadiusChunks of it (none for a corpse, which casts no      *)
(* shadow).  Each pod has a player in the overworld near all its seams, so *)
(* its hub ticks its entities and somebody sees what is mirrored.          *)
(* The crossing is Handover's, with one migration of a player at a time    *)
(* and its gateway reduced to the re-home that lets it resume.             *)
(***************************************************************************)
EXTENDS Naturals, Sequences, FiniteSets

CONSTANTS
    Pods, Players, Mobs,    \* the last two by entity id
    Dims, Overworld,
    DimsOf,         \* [Pods -> SUBSET Dims]: the dimensions each pod runs
    NoDim,          \* no mirror
    Reaches,        \* [Pods -> SUBSET SUBSET Pods]: who is in reach of the spots of each territory
    MaxBorn,        \* bound: entities that ever live
    MaxEvents,      \* bound: crossings begun, moves, link drops and pod restarts
    MaxWire         \* bound: frames a direction of a link holds; more make the sender wait

Ents == Players \cup Mobs

ASSUME ShadowAssumption ==
    /\ Overworld \in Dims /\ NoDim \notin Dims
    /\ DimsOf \in [Pods -> SUBSET Dims]
    /\ Players \cap Mobs = {}
    /\ Reaches \in [Pods -> SUBSET SUBSET Pods]
    /\ \A p \in Pods : p \notin UNION Reaches[p]
    /\ MaxWire \in Nat \ {0}

VARIABLES
    at,         \* [Ents -> set of the one pod, or none, that simulates it]
    dim, near,  \* its dimension; the other pods in reach of its shadow
    mig,        \* players with t.migrating set
    held,       \* pendingResume: <<pod, player>>
    told,       \* re-homes a gateway has not acted on: <<player, pod>>
    out,        \* hub.shadowOut: [Pods -> [Ents -> SUBSET Pods]]
    mirror,     \* hub.shadowIn: the dimension of the mirror, or NoDim
    tracked,    \* what the pod's player has been sent by syncTracking
    links,      \* pairs of pods with a warm link
    wire,       \* frames sent and not yet handled, per direction
    born,       \* ids in use, now or earlier
    events,     \* the bounded events so far
    forgotten   \* history: <<pod, id>> whose retraction was lost or never sent

entVars == <<at, dim, near, mig, held, told, born>>
vars == <<entVars, out, mirror, tracked, links, wire, events, forgotten>>

Directions == {l \in Pods \X Pods : l[1] # l[2]}
Frames ==
    [typ : {"shadow", "migrate"}, eid : Ents, dim : Dims]
        \cup [typ : {"gone", "ack", "nak"}, eid : Ents]

Connected(p, q) == {p, q} \in links

Event == events < MaxEvents /\ events' = events + 1

Init ==
    /\ at = [e \in Ents |-> {}]
    /\ dim = [e \in Ents |-> Overworld]
    /\ near = [e \in Ents |-> {}]
    /\ mig = {} /\ held = {} /\ told = {}
    /\ out = [p \in Pods |-> [e \in Ents |-> {}]]
    /\ mirror = [p \in Pods |-> [e \in Ents |-> NoDim]]
    /\ tracked = [p \in Pods |-> {}]
    /\ links = {{l[1], l[2]} : l \in Directions}
    /\ wire = [l \in Directions |-> <<>>]
    /\ born = {}
    /\ events = 0
    /\ forgotten = {}

-----------------------------------------------------------------------------
(* Frames.                                                                 *)

\* The wires once pod p has sent f[q] to every connected q of to as well.
Sent(w, p, to, f) ==
    [l \in Directions |->
        IF l[1] = p /\ l[2] \in to /\ Connected(p, l[2])
        THEN Append(w[l], f[l[2]]) ELSE w[l]]

\* The sockets to those pods are not full; else the hub waits in WriteFrame.
Room(p, to) == \A q \in to \ {p} : Len(wire[<<p, q>>]) < MaxWire

\* The first frame from p to q, which q's hub is about to handle, is of type t.
Arrives(p, q, t) == wire[<<p, q>>] # <<>> /\ Head(wire[<<p, q>>]).typ = t
Frame(p, q) == Head(wire[<<p, q>>])
Taken(p, q) == [wire EXCEPT ![<<p, q>>] = Tail(@)]

-----------------------------------------------------------------------------
(* Outbound.                                                               *)

\* shadowTargets: who is to have a mirror of e, which p simulates.
Targets(p, e) == {q \in near[e] : Connected(p, q)}

\* What a neighbour is told of e: ShadowGone if it is no target any more.
News(e, q, targets) ==
    IF q \in targets THEN [typ |-> "shadow", eid |-> e, dim |-> dim[e]]
                     ELSE [typ |-> "gone", eid |-> e]

\* Fault: a neighbour is told of an entity when it comes into reach, and no more.
PushesOnce(w, p, e, targets) ==
    LET lapsed == out[p][e] \ targets
        say == [q \in Pods |-> News(e, q, targets)]
        fresh == lapsed \cup (targets \ out[p][e])
    IN  /\ Room(p, fresh)
        /\ wire' = Sent(w, p, fresh, say)
        /\ out' = [out EXCEPT ![p][e] = targets]
        /\ forgotten' = forgotten \cup {<<q, e>> : q \in {q \in lapsed : ~Connected(p, q)}}

\* e's mirrors of p are those of targets from now on: Shadow to each of them,
\* ShadowGone to whom held one before.  A send over a link that is down fails;
\* nobody looks at the error, and out forgets the neighbour all the same.
Push(w, p, e, targets) ==
    LET lapsed == out[p][e] \ targets
        say == [q \in Pods |-> News(e, q, targets)]
    IN  /\ Room(p, targets \cup lapsed)
        /\ wire' = Sent(w, p, targets \cup lapsed, say)
        /\ out' = [out EXCEPT ![p][e] = targets]
        /\ forgotten' = forgotten \cup {<<q, e>> : q \in {q \in lapsed : ~Connected(p, q)}}

\* Fault: the mirrors are left to the next owner to retract.
LeavesMirrors(w, p, e) ==
    /\ out' = [out EXCEPT ![p][e] = {}]
    /\ wire' = w
    /\ UNCHANGED forgotten

ShadowGoneAll(w, p, e) == Push(w, p, e, {})

\* One entity's part of updateShadows; two entities' pushes have nothing in
\* common but the socket.
UpdateShadow(p, e) ==
    /\ p \in at[e]
    /\ e \notin mig
    /\ Push(wire, p, e, Targets(p, e))
    /\ UNCHANGED <<entVars, mirror, tracked, links, events>>

-----------------------------------------------------------------------------
(* Entities.                                                               *)

Untracked(e) == [p \in Pods |-> tracked[p] \ {e}]

\* A player logs in, a mob spawns or arrives from a neighbour, under a new id.
Appear(e, p, d, n) ==
    /\ e \notin born
    /\ Cardinality(born) < MaxBorn
    /\ d \in DimsOf[p] /\ n \in Reaches[p]
    /\ born' = born \cup {e}
    /\ at' = [at EXCEPT ![e] = {p}]
    /\ dim' = [dim EXCEPT ![e] = d]
    /\ near' = [near EXCEPT ![e] = n]
    /\ UNCHANGED <<mig, held, told, out, mirror, tracked, links, wire, events, forgotten>>

\* It walks, flies, dies (no neighbour then), goes through a portal.  What a
\* migrating player does is not mirrored.
Move(e, d, n) ==
    /\ \E p \in at[e] : d \in DimsOf[p] /\ n \in Reaches[p] \cup {{}}
    /\ e \notin mig
    /\ <<d, n>> # <<dim[e], near[e]>>
    /\ Event
    /\ dim' = [dim EXCEPT ![e] = d]
    /\ near' = [near EXCEPT ![e] = n]
    /\ tracked' = IF d = dim[e] THEN tracked ELSE Untracked(e)
    /\ UNCHANGED <<at, mig, held, told, born, out, mirror, links, wire, forgotten>>

\* removeMob, despawnMob, onLeave and a mob's migrateMobAcross: e is not here
\* any more, and its mirrors are retracted.
Vanish(p, e) ==
    /\ p \in at[e]
    /\ at' = [at EXCEPT ![e] = {}]
    /\ near' = [near EXCEPT ![e] = {}]
    /\ mig' = mig \ {e}
    /\ tracked' = [tracked EXCEPT ![p] = @ \ {e}]
    /\ ShadowGoneAll(wire, p, e)
    /\ UNCHANGED <<dim, held, told, born, mirror, links, events>>

\* convertMob: the same without shadowGoneAll, whose out keeps the dead id.
Convert(p, e) ==
    /\ e \in Mobs /\ p \in at[e]
    /\ at' = [at EXCEPT ![e] = {}]
    /\ near' = [near EXCEPT ![e] = {}]
    /\ tracked' = [tracked EXCEPT ![p] = @ \ {e}]
    /\ forgotten' = forgotten \cup {<<q, e>> : q \in out[p][e]}
    /\ UNCHANGED <<dim, mig, held, told, born, out, mirror, links, wire, events>>

\* syncTracking: the pod's player is sent what is real, here and in its
\* dimension, and told of what is not any more.
Track(p) ==
    LET want == {e \in Ents : p \in at[e] /\ dim[e] = Overworld} IN
    /\ tracked[p] # want
    /\ tracked' = [tracked EXCEPT ![p] = want]
    /\ UNCHANGED <<entVars, out, mirror, links, wire, events, forgotten>>

-----------------------------------------------------------------------------
(* A player crosses.                                                       *)

Cross(p, e, q) ==
    /\ e \in Players /\ p \in at[e] /\ e \notin mig
    /\ q \in near[e] /\ Connected(p, q) /\ Room(p, {q})
    /\ Event
    /\ mig' = mig \cup {e}
    /\ wire' = Sent(wire, p, {q}, [r \in {q} |-> [typ |-> "migrate", eid |-> e, dim |-> dim[e]]])
    /\ UNCHANGED <<at, dim, near, held, told, born, out, mirror, tracked, links, forgotten>>

\* q takes the player in, or does not run its dimension; its answer is lost
\* if the link is down.
ApplyMigration(p, q) ==
    /\ Arrives(p, q, "migrate") /\ Room(q, {p})
    /\ LET e == Frame(p, q).eid
           runs == Frame(p, q).dim \in DimsOf[q]
           answer == [typ |-> IF runs THEN "ack" ELSE "nak", eid |-> e]
       IN  /\ held' = IF runs THEN held \cup {<<q, e>>} ELSE held
           /\ wire' = [Taken(p, q) EXCEPT
                ![<<q, p>>] = IF Connected(p, q) THEN Append(@, answer) ELSE @]
    /\ UNCHANGED <<at, dim, near, mig, told, born, out, mirror, tracked, links, events, forgotten>>

Refused(p, q) ==
    /\ Arrives(q, p, "nak")
    /\ mig' = mig \ {Frame(q, p).eid}
    /\ wire' = Taken(q, p)
    /\ UNCHANGED <<at, dim, near, held, told, born, out, mirror, tracked, links, events, forgotten>>

\* The release: the player is gone here, its mirrors are retracted, and its
\* gateway is told where to resume.
FinishHandover(q, p) ==
    LET e == Frame(q, p).eid IN
    /\ Arrives(q, p, "ack")
    /\ IF e \in mig /\ p \in at[e]
       THEN /\ ShadowGoneAll(Taken(q, p), p, e)
            /\ at' = [at EXCEPT ![e] = {}]
            /\ near' = [near EXCEPT ![e] = {}]
            /\ mig' = mig \ {e}
            /\ told' = told \cup {<<e, q>>}
            /\ tracked' = [tracked EXCEPT ![p] = @ \ {e}]
       ELSE /\ wire' = Taken(q, p)
            /\ UNCHANGED <<at, near, mig, told, tracked, out, forgotten>>
    /\ UNCHANGED <<dim, held, born, mirror, links, events>>

\* The gateway claims the held player, which goes live somewhere near the
\* seam; dropShadowSuperseded, without a word to those who see the mirror.
Resume(e, q, n) ==
    /\ <<e, q>> \in told /\ <<q, e>> \in held
    /\ n \in Reaches[q]
    /\ told' = told \ {<<e, q>>}
    /\ held' = held \ {<<q, e>>}
    /\ at' = [at EXCEPT ![e] = {q}]
    /\ near' = [near EXCEPT ![e] = n]
    /\ mirror' = [mirror EXCEPT ![q][e] = NoDim]
    /\ UNCHANGED <<dim, mig, born, out, tracked, links, wire, events, forgotten>>

-----------------------------------------------------------------------------
(* Inbound.                                                                *)

\* Fault: a dimension this pod does not run is mirrored too.
MirrorsAnyDim(p, q) ==
    LET f == Frame(p, q) IN
    /\ Arrives(p, q, "shadow")
    /\ wire' = Taken(p, q)
    /\ mirror' = [mirror EXCEPT ![q][f.eid] = f.dim]
    /\ UNCHANGED <<entVars, out, tracked, links, events, forgotten>>

\* A shadow in a dimension this pod does not run is ignored; a mirror of the
\* entity in the dimension it came from stays.
ApplyShadow(p, q) ==
    LET f == Frame(p, q) IN
    /\ Arrives(p, q, "shadow")
    /\ wire' = Taken(p, q)
    /\ mirror' = [mirror EXCEPT ![q][f.eid] = IF f.dim \in DimsOf[q] THEN f.dim ELSE @]
    /\ UNCHANGED <<entVars, out, tracked, links, events, forgotten>>

\* Fault: entityGone, whoever has the id here.
Despawned(q, e) == [tracked EXCEPT ![q] = @ \ {e}]

\* entityGone, unless the id is of somebody real here.
Seen(q, e) == IF q \in at[e] THEN tracked ELSE [tracked EXCEPT ![q] = @ \ {e}]

ApplyShadowGone(p, q) ==
    LET e == Frame(p, q).eid IN
    /\ Arrives(p, q, "gone")
    /\ wire' = Taken(p, q)
    /\ mirror' = [mirror EXCEPT ![q][e] = NoDim]
    /\ tracked' = IF mirror[q][e] = NoDim THEN tracked ELSE Seen(q, e)
    /\ UNCHANGED <<entVars, out, links, events, forgotten>>

-----------------------------------------------------------------------------
(* Faults.                                                                 *)

\* The ids of which s has a ShadowGone.
Retracted(s) == {s[i].eid : i \in {i \in DOMAIN s : s[i].typ = "gone"}}

\* Of each wire in kept's domain, kept counts what its reader had read when the
\* connection went; the rest is lost.
Keeps(kept) ==
    /\ \A l \in DOMAIN kept : kept[l] <= Len(wire[l])
    /\ wire' = [l \in Directions |-> IF l \in DOMAIN kept THEN SubSeq(wire[l], 1, kept[l]) ELSE wire[l]]

Unheard(kept) ==
    {m \in Pods \X Ents : \E l \in DOMAIN kept :
        l[2] = m[1] /\ m[2] \in Retracted(SubSeq(wire[l], kept[l] + 1, Len(wire[l])))}

LinkDrop(p, q) ==
    /\ Connected(p, q)
    /\ Event
    /\ links' = links \ {{p, q}}
    /\ \E kept \in [{<<p, q>>, <<q, p>>} -> 0..MaxWire] :
        Keeps(kept) /\ forgotten' = forgotten \cup Unheard(kept)
    /\ UNCHANGED <<entVars, out, mirror, tracked>>

LinkUp(p, q) ==
    /\ p # q /\ ~Connected(p, q)
    /\ links' = links \cup {{p, q}}
    /\ UNCHANGED <<entVars, out, mirror, tracked, wire, events, forgotten>>

\* A pod dies, its links with it, and boots with nobody: players log in anew
\* and mobs are reloaded under new ids.
Restart(p) ==
    LET lost == {e \in Ents : p \in at[e]} IN
    /\ Event
    /\ at' = [e \in Ents |-> at[e] \ {p}]
    /\ near' = [e \in Ents |-> IF e \in lost THEN {} ELSE near[e]]
    /\ mig' = mig \ lost
    /\ held' = {h \in held : h[1] # p}
    /\ out' = [out EXCEPT ![p] = [e \in Ents |-> {}]]
    /\ mirror' = [mirror EXCEPT ![p] = [e \in Ents |-> NoDim]]
    /\ tracked' = [tracked EXCEPT ![p] = {}]
    /\ links' = {l \in links : p \notin l}
    /\ \E kept \in [{l \in Directions : p \in {l[1], l[2]}} -> 0..MaxWire] :
        /\ \A l \in DOMAIN kept : l[2] = p => kept[l] = 0
        /\ Keeps(kept)
        /\ forgotten' = forgotten \cup Unheard(kept) \cup {m \in Pods \X Ents : m[1] \in out[p][m[2]]}
    /\ UNCHANGED <<dim, told, born>>

-----------------------------------------------------------------------------
Handle(p, q) ==
    \/ ApplyMigration(p, q) \/ Refused(p, q) \/ FinishHandover(p, q)
    \/ ApplyShadow(p, q) \/ ApplyShadowGone(p, q)

Next ==
    \/ \E e \in Ents, p \in Pods, d \in Dims, n \in SUBSET Pods : Appear(e, p, d, n)
    \/ \E e \in Ents, d \in Dims, n \in SUBSET Pods : Move(e, d, n)
    \/ \E p \in Pods, e \in Ents : UpdateShadow(p, e) \/ Vanish(p, e) \/ Convert(p, e)
    \/ \E p, q \in Pods, e \in Ents : Cross(p, e, q)
    \/ \E q \in Pods, e \in Ents, n \in SUBSET Pods : Resume(e, q, n)
    \/ \E l \in Directions : Handle(l[1], l[2])
    \/ \E p \in Pods : Track(p) \/ Restart(p)
    \/ \E p, q \in Pods : LinkDrop(p, q) \/ LinkUp(p, q)

Spec == Init /\ [][Next]_vars

\* A hub handles its frames and ticks, neighbours redial, a gateway resumes.
Fairness ==
    /\ \A l \in Directions : WF_vars(Handle(l[1], l[2])) /\ WF_vars(LinkUp(l[1], l[2]))
    /\ \A p \in Pods, e \in Ents : WF_vars(UpdateShadow(p, e))
    /\ \A e \in Players, q \in Pods : WF_vars(\E n \in SUBSET Pods : Resume(e, q, n))

FairSpec == Spec /\ Fairness

-----------------------------------------------------------------------------
\* Every variable holds what the code keeps in it.
TypeOK ==
    /\ at \in [Ents -> SUBSET Pods] /\ \A e \in Ents : Cardinality(at[e]) <= 1
    /\ dim \in [Ents -> Dims] /\ near \in [Ents -> SUBSET Pods]
    /\ mig \subseteq Players
    /\ held \subseteq Pods \X Players /\ told \subseteq Players \X Pods
    /\ out \in [Pods -> [Ents -> SUBSET Pods]]
    /\ mirror \in [Pods -> [Ents -> Dims \cup {NoDim}]]
    /\ \A q \in Pods, e \in Ents : mirror[q][e] \in DimsOf[q] \cup {NoDim}
    /\ tracked \in [Pods -> SUBSET Ents]
    /\ links \subseteq SUBSET Pods
    /\ \A l \in Directions : Len(wire[l]) <= MaxWire /\ \A i \in DOMAIN wire[l] : wire[l][i] \in Frames
    /\ born \subseteq Ents /\ forgotten \subseteq Pods \X Ents

\* The owner of e has q on its list of those who mirror it.
Answered(q, e) == \E p \in at[e] : q \in out[p][e]

\* A ShadowGone of e is on its way to q.
Retracting(q, e) == \E p \in Pods \ {q} : e \in Retracted(wire[<<p, q>>])

\* A mirror is either known to the pod that simulates its original, or about
\* to be retracted; in particular a pod that simulates an entity mirrors it
\* only until the retraction it has been sent arrives.  The exceptions are a
\* retraction a link or a pod took with it, and convertMob.
NoGhost ==
    \A q \in Pods, e \in Ents : mirror[q][e] # NoDim =>
        Answered(q, e) \/ Retracting(q, e) \/ <<q, e>> \in forgotten

\* The end of a mirror, however late it comes, never despawns the entity itself
\* from the screens of a pod that simulates it by then.
RealStays ==
    [][\A q \in Pods : \A e \in tracked[q] :
        q \in at[e] /\ q \in at'[e] /\ dim'[e] = dim[e] => e \in tracked'[q]]_vars

\* What q has to show of e: a mirror in e's dimension while e is in reach.
Agrees(q, e) ==
    IF at[e] # {} /\ q \notin at[e] /\ q \in near[e] /\ dim[e] \in DimsOf[q]
    THEN mirror[q][e] = dim[e]
    ELSE mirror[q][e] = NoDim

\* Once entities stand still and links hold, each neighbour comes to mirror
\* what is in reach and nothing else, whatever overtook what.  Left out: players
\* whose hand-over is never answered, lost retractions, and dimensions the
\* neighbour does not run, of which it keeps the mirror it had.
Settled ==
    \A q \in Pods, e \in Ents :
        <>[](\/ Agrees(q, e)
             \/ e \in mig
             \/ <<q, e>> \in forgotten
             \/ q \in near[e] /\ dim[e] \notin DimsOf[q])
=============================================================================
