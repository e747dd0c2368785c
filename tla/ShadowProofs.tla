---------------------------- MODULE ShadowProofs ----------------------------
(***************************************************************************)
(* Proofs about the shadows, for every number of pods, players and mobs,   *)
(* every layout of territories and dimensions, and every bound: what the   *)
(* variables hold, that no mirror outlives its original unannounced, and   *)
(* that the end of a mirror hides nobody who is real.                      *)
(*                                                                         *)
(* The argument: an entity has one owner at most (OneLife), so who mirrors *)
(* it is on that owner's list; every shadow in flight is followed, on its  *)
(* own wire, by its retraction, or it is of an entity whose owner still    *)
(* has the reader on its list (Followed).                                  *)
(***************************************************************************)
EXTENDS Shadow, TLAPS, FiniteSetTheorems

-----------------------------------------------------------------------------
(* The inductive invariant.                                                *)

\* Where an entity is, and how the pods about it stand.
Located ==
    /\ at \in [Ents -> SUBSET Pods]
    /\ \A e \in Ents : at[e] = {} \/ \E p \in Pods : at[e] = {p}

Placed == dim \in [Ents -> Dims] /\ near \in [Ents -> SUBSET Pods]

\* The rest of TypeOK, but for the wires.
Recorded ==
    /\ mig \subseteq Players
    /\ held \subseteq Pods \X Players /\ told \subseteq Players \X Pods
    /\ out \in [Pods -> [Ents -> SUBSET Pods]]
    /\ tracked \in [Pods -> SUBSET Ents]
    /\ links \subseteq SUBSET Pods
    /\ born \subseteq Ents /\ forgotten \subseteq Pods \X Ents

Mirrors ==
    /\ mirror \in [Pods -> [Ents -> Dims \cup {NoDim}]]
    /\ \A q \in Pods, e \in Ents : mirror[q][e] \in DimsOf[q] \cup {NoDim}

Typed == Located /\ Placed /\ Recorded /\ Mirrors

Crossing == {"migrate", "ack", "nak"}

WireSet ==
    {w \in [Directions -> Seq(Frames)] : \A l \in Directions : \A i \in DOMAIN w[l] :
        w[l][i].typ \in Crossing => w[l][i].eid \in Players}

Wires == wire \in WireSet

\* The sockets hold what the bound lets them.
Fits == \A l \in Directions : Len(wire[l]) <= MaxWire

\* Nobody is its own neighbour, and nobody sends itself a shadow.
Aside ==
    /\ \A e \in Ents : \A p \in at[e] : p \notin near[e]
    /\ \A p \in Pods, e \in Ents : p \notin out[p][e]

\* An id is simulated, seen or about to be resumed only once it has been
\* given out; one that is to be resumed is simulated nowhere, and resumes
\* in one pod.
OneLife ==
    /\ \A e \in Ents \ born : at[e] = {} /\ \A q \in Pods : <<e, q>> \notin told /\ e \notin tracked[q]
    /\ \A r \in told : at[r[1]] = {}
    /\ \A r, s \in told : r[1] = s[1] => r = s

\* A pod's player has been sent entities of its own dimension only.
Seeing == \A q \in Pods : \A e \in tracked[q] : dim[e] = Overworld

\* The entities of which s has a shadow and no retraction after it.
Shown(s) ==
    {s[i].eid : i \in {i \in DOMAIN s :
        /\ s[i].typ = "shadow"
        /\ \A j \in DOMAIN s : s[j].typ = "gone" /\ s[j].eid = s[i].eid => j < i}}

\* p will have to tell q that e has gone, or nobody will.
Owes(p, q, e) == (p \in at[e] /\ q \in out[p][e]) \/ <<q, e>> \in forgotten

\* A shadow in flight is followed by its retraction, or will be.
Followed == \A l \in Directions : \A e \in Shown(wire[l]) : Owes(l[1], l[2], e)

Inv == Typed /\ Wires /\ Fits /\ Aside /\ OneLife /\ Seeing /\ Followed /\ NoGhost

-----------------------------------------------------------------------------
(* Sequences of frames.                                                    *)

\* Retractions and shadows are of entities.
LEMMA EntsOnly ==
  ASSUME NEW s \in Seq(Frames)
  PROVE  Retracted(s) \subseteq Ents /\ Shown(s) \subseteq Ents
<1>1. \A i \in DOMAIN s : s[i].eid \in Ents
  <2>1. \A i \in DOMAIN s : s[i] \in Frames
    OBVIOUS
  <2>. QED  BY <2>1 DEF Frames
<1>. QED  BY <1>1 DEF Retracted, Shown

\* What a frame at the end of a wire adds.
LEMMA Appended ==
  ASSUME NEW s \in Seq(Frames), NEW f \in Frames
  PROVE  /\ Append(s, f) \in Seq(Frames)
         /\ Len(Append(s, f)) = Len(s) + 1
         /\ f.typ = "gone" => Retracted(Append(s, f)) = Retracted(s) \cup {f.eid}
         /\ f.typ # "gone" => Retracted(Append(s, f)) = Retracted(s)
         /\ Shown(Append(s, f)) =
              IF f.typ = "shadow" THEN Shown(s) \cup {f.eid}
              ELSE IF f.typ = "gone" THEN Shown(s) \ {f.eid} ELSE Shown(s)
<1>. DEFINE t == Append(s, f)
<1>1. /\ t \in Seq(Frames) /\ Len(t) = Len(s) + 1 /\ DOMAIN t = 1..(Len(s) + 1)
      /\ DOMAIN s = 1..Len(s) /\ Len(s) \in Nat
      /\ \A i \in 1..Len(s) : t[i] = s[i]
      /\ t[Len(s) + 1] = f
  OBVIOUS
<1>. HIDE DEF t
<1>2. /\ f.typ = "gone" => Retracted(t) = Retracted(s) \cup {f.eid}
      /\ f.typ # "gone" => Retracted(t) = Retracted(s)
  BY <1>1 DEF Retracted
<1>3. CASE f.typ = "shadow"
  <2>1. Shown(t) = Shown(s) \cup {f.eid}
    <3>1. ASSUME NEW e \in Shown(t) PROVE e \in Shown(s) \cup {f.eid}
      BY <1>1, <1>3, <3>1 DEF Shown
    <3>2. ASSUME NEW e \in Shown(s) PROVE e \in Shown(t)
      BY <1>1, <1>3, <3>2 DEF Shown
    <3>3. f.eid \in Shown(t)
      BY <1>1, <1>3 DEF Shown
    <3>. QED  BY <3>1, <3>2, <3>3
  <2>. QED  BY <1>1, <1>2, <1>3, <2>1 DEF t
<1>4. CASE f.typ = "gone"
  <2>1. Shown(t) = Shown(s) \ {f.eid}
    <3>1. ASSUME NEW e \in Shown(t) PROVE e \in Shown(s) \ {f.eid}
      BY <1>1, <1>4, <3>1 DEF Shown
    <3>2. ASSUME NEW e \in Shown(s) \ {f.eid} PROVE e \in Shown(t)
      BY <1>1, <1>4, <3>2 DEF Shown
    <3>. QED  BY <3>1, <3>2
  <2>. QED  BY <1>1, <1>2, <1>4, <2>1 DEF t
<1>5. CASE f.typ \notin {"shadow", "gone"}
  <2>1. Shown(t) = Shown(s)
    <3>1. ASSUME NEW e \in Shown(t) PROVE e \in Shown(s)
      BY <1>1, <1>5, <3>1 DEF Shown
    <3>2. ASSUME NEW e \in Shown(s) PROVE e \in Shown(t)
      BY <1>1, <1>5, <3>2 DEF Shown
    <3>. QED  BY <3>1, <3>2
  <2>. QED  BY <1>1, <1>2, <1>5, <2>1 DEF t
<1>. QED  BY <1>3, <1>4, <1>5

\* What is left once the first frame of a wire is taken.
LEMMA Behead ==
  ASSUME NEW s \in Seq(Frames), s # <<>>
  PROVE  /\ Head(s) \in Frames /\ Head(s) = s[1] /\ 1 \in DOMAIN s
         /\ Tail(s) \in Seq(Frames) /\ Len(Tail(s)) = Len(s) - 1
         /\ \A i \in DOMAIN Tail(s) : i + 1 \in DOMAIN s /\ Tail(s)[i] = s[i + 1]
         /\ Retracted(s) \subseteq Retracted(Tail(s)) \cup (IF Head(s).typ = "gone" THEN {Head(s).eid} ELSE {})
         /\ Shown(Tail(s)) \subseteq Shown(s)
         /\ Head(s).typ = "shadow" => Head(s).eid \in Shown(s) \cup Retracted(Tail(s))
<1>. DEFINE t == Tail(s)
<1>1. /\ Head(s) \in Frames /\ Head(s) = s[1] /\ 1 \in DOMAIN s
      /\ t \in Seq(Frames) /\ Len(t) = Len(s) - 1
      /\ DOMAIN s = 1..Len(s) /\ DOMAIN t = 1..(Len(s) - 1) /\ Len(s) \in Nat
      /\ \A i \in 1..(Len(s) - 1) : t[i] = s[i + 1]
  OBVIOUS
<1>. HIDE DEF t
<1>2. \A i \in DOMAIN t : i + 1 \in DOMAIN s /\ t[i] = s[i + 1]
  BY <1>1
<1>3. \A i \in DOMAIN s : i = 1 \/ (i - 1 \in DOMAIN t /\ t[i - 1] = s[i])
  BY <1>1
<1>4. Retracted(s) \subseteq Retracted(t) \cup (IF s[1].typ = "gone" THEN {s[1].eid} ELSE {})
  BY <1>1, <1>3 DEF Retracted
<1>5. ASSUME NEW e \in Shown(t) PROVE e \in Shown(s)
  <2>1. PICK i \in DOMAIN t : /\ e = t[i].eid /\ t[i].typ = "shadow"
                              /\ \A j \in DOMAIN t : t[j].typ = "gone" /\ t[j].eid = t[i].eid => j < i
    BY <1>5 DEF Shown
  <2>2. i + 1 \in DOMAIN s /\ s[i + 1] = t[i]
    BY <1>2
  <2>3. ASSUME NEW j \in DOMAIN s, s[j].typ = "gone", s[j].eid = s[i + 1].eid
        PROVE  j < i + 1
    <3>1. CASE j = 1
      BY <1>1, <3>1
    <3>2. CASE j - 1 \in DOMAIN t /\ t[j - 1] = s[j]
      <4>1. j - 1 < i
        BY <2>1, <2>2, <2>3, <3>2
      <4>. QED  BY <1>1, <4>1
    <3>. QED  BY <1>3, <3>1, <3>2
  <2>. QED  BY <2>1, <2>2, <2>3 DEF Shown
<1>6. ASSUME s[1].typ = "shadow" PROVE s[1].eid \in Shown(s) \cup Retracted(t)
  <2>1. CASE \A j \in DOMAIN s : s[j].typ = "gone" /\ s[j].eid = s[1].eid => j < 1
    BY <1>1, <1>6, <2>1 DEF Shown
  <2>2. CASE \E j \in DOMAIN s : s[j].typ = "gone" /\ s[j].eid = s[1].eid /\ ~(j < 1)
    <3>1. PICK j \in DOMAIN s : s[j].typ = "gone" /\ s[j].eid = s[1].eid
      BY <2>2
    <3>2. j # 1
      BY <3>1, <1>6
    <3>. QED  BY <1>3, <3>1, <3>2 DEF Retracted
  <2>. QED  BY <2>1, <2>2
<1>. QED  BY <1>1, <1>2, <1>4, <1>5, <1>6 DEF t

\* What a broken connection leaves of a wire, and what it takes.
LEMMA Truncated ==
  ASSUME NEW s \in Seq(Frames), NEW n \in Nat, n <= Len(s)
  PROVE  /\ SubSeq(s, 1, n) \in Seq(Frames) /\ Len(SubSeq(s, 1, n)) = n
         /\ \A i \in DOMAIN SubSeq(s, 1, n) : i \in DOMAIN s /\ SubSeq(s, 1, n)[i] = s[i]
         /\ Retracted(s) \subseteq Retracted(SubSeq(s, 1, n)) \cup Retracted(SubSeq(s, n + 1, Len(s)))
         /\ Shown(SubSeq(s, 1, n)) \subseteq Shown(s) \cup Retracted(SubSeq(s, n + 1, Len(s)))
<1>. DEFINE t == SubSeq(s, 1, n)
            u == SubSeq(s, n + 1, Len(s))
<1>1. /\ DOMAIN s = 1..Len(s) /\ Len(s) \in Nat
      /\ t \in Seq(Frames) /\ Len(t) = n /\ DOMAIN t = 1..n
      /\ \A i \in 1..n : t[i] = s[i]
  OBVIOUS
<1>2. /\ DOMAIN u = 1..(Len(s) - n)
      /\ \A i \in 1..(Len(s) - n) : u[i] = s[n + i]
  OBVIOUS
<1>. HIDE DEF t, u
<1>3. \A i \in DOMAIN s : (i \in DOMAIN t /\ t[i] = s[i]) \/ (i - n \in DOMAIN u /\ u[i - n] = s[i])
  BY <1>1, <1>2
<1>4. Retracted(s) \subseteq Retracted(t) \cup Retracted(u)
  BY <1>3 DEF Retracted
<1>5. ASSUME NEW e \in Shown(t), e \notin Retracted(u) PROVE e \in Shown(s)
  <2>1. PICK i \in DOMAIN t : /\ e = t[i].eid /\ t[i].typ = "shadow"
                              /\ \A j \in DOMAIN t : t[j].typ = "gone" /\ t[j].eid = t[i].eid => j < i
    BY <1>5 DEF Shown
  <2>2. i \in DOMAIN s /\ s[i] = t[i]
    BY <1>1
  <2>3. \A j \in DOMAIN s : s[j].typ = "gone" /\ s[j].eid = s[i].eid => j \in DOMAIN t /\ t[j] = s[j]
    BY <1>3, <1>5, <2>1, <2>2 DEF Retracted
  <2>. QED  BY <2>1, <2>2, <2>3 DEF Shown
<1>. QED  BY <1>1, <1>4, <1>5 DEF t, u

-----------------------------------------------------------------------------
(* What the operators on the wires do.                                     *)

\* w has no more frames than the wires have, and none of their retractions
\* or shadows is missing that matters.
Lossless(w) ==
    \A l \in Directions :
        /\ Len(w[l]) <= Len(wire[l])
        /\ Retracted(wire[l]) \subseteq Retracted(w[l])
        /\ Shown(w[l]) \subseteq Shown(wire[l])

\* The same of the step.
Quiet ==
    \A l \in Directions : /\ Retracted(wire[l]) \subseteq Retracted(wire'[l])
                          /\ Shown(wire'[l]) \subseteq Shown(wire[l])

\* A frame is taken off its wire, and nothing is lost unless it is a ShadowGone.
LEMMA TakenType ==
  ASSUME Wires, NEW p \in Pods, NEW q \in Pods, p # q, wire[<<p, q>>] # <<>>
  PROVE  /\ <<p, q>> \in Directions
         /\ Frame(p, q) \in Frames
         /\ Frame(p, q).typ \in Crossing => Frame(p, q).eid \in Players
         /\ Taken(p, q) \in WireSet
         /\ \A l \in Directions : l # <<p, q>> => Taken(p, q)[l] = wire[l]
         /\ Taken(p, q)[<<p, q>>] = Tail(wire[<<p, q>>])
         /\ Frame(p, q).typ # "gone" => Lossless(Taken(p, q))
<1>. DEFINE l == <<p, q>>
<1>1. l \in Directions /\ wire[l] \in Seq(Frames) /\ wire[l] # <<>>
  BY DEF Directions, Wires, WireSet
<1>2. /\ Frame(p, q) \in Frames /\ Frame(p, q) = wire[l][1] /\ 1 \in DOMAIN wire[l]
      /\ Tail(wire[l]) \in Seq(Frames) /\ Len(Tail(wire[l])) = Len(wire[l]) - 1
      /\ \A i \in DOMAIN Tail(wire[l]) : i + 1 \in DOMAIN wire[l] /\ Tail(wire[l])[i] = wire[l][i + 1]
  BY <1>1, Behead DEF Frame
<1>3. /\ Taken(p, q) \in [Directions -> Seq(Frames)]
      /\ \A k \in Directions : k # l => Taken(p, q)[k] = wire[k]
      /\ Taken(p, q)[l] = Tail(wire[l])
  BY <1>1, <1>2 DEF Taken, Wires, WireSet
<1>4. Frame(p, q).typ \in Crossing => Frame(p, q).eid \in Players
  BY <1>1, <1>2 DEF Wires, WireSet
<1>5. Taken(p, q) \in WireSet
  <2>. SUFFICES ASSUME NEW k \in Directions, NEW i \in DOMAIN Taken(p, q)[k],
                       Taken(p, q)[k][i].typ \in Crossing
                PROVE  Taken(p, q)[k][i].eid \in Players
    BY <1>3 DEF WireSet
  <2>1. CASE k = l
    <3>1. i \in DOMAIN Tail(wire[l]) /\ Taken(p, q)[k][i] = Tail(wire[l])[i]
      BY <1>3, <2>1
    <3>2. i + 1 \in DOMAIN wire[l] /\ Taken(p, q)[k][i] = wire[l][i + 1]
      BY <1>2, <3>1
    <3>. QED  BY <1>1, <3>2 DEF Wires, WireSet
  <2>2. CASE k # l
    BY <1>3, <2>2 DEF Wires, WireSet
  <2>. QED  BY <2>1, <2>2
<1>6. ASSUME Frame(p, q).typ # "gone", NEW k \in Directions
      PROVE  /\ Len(Taken(p, q)[k]) <= Len(wire[k])
             /\ Retracted(wire[k]) \subseteq Retracted(Taken(p, q)[k])
             /\ Shown(Taken(p, q)[k]) \subseteq Shown(wire[k])
  <2>0. Len(wire[k]) \in Nat
    BY DEF Wires, WireSet
  <2>1. CASE k = l
    <3>1. Retracted(wire[l]) \subseteq Retracted(Tail(wire[l])) /\ Shown(Tail(wire[l])) \subseteq Shown(wire[l])
      BY <1>1, <1>2, <1>6, Behead
    <3>2. Len(Tail(wire[l])) <= Len(wire[l])
      BY <1>2, <2>0, <2>1
    <3>. QED  BY <1>3, <2>1, <3>1, <3>2
  <2>2. CASE k # l
    BY <1>3, <2>0, <2>2
  <2>. QED  BY <2>1, <2>2
<1>. QED  BY <1>1, <1>2, <1>3, <1>4, <1>5, <1>6 DEF Lossless

\* The wires after some neighbours were sent a frame each.
LEMMA SentType ==
  ASSUME NEW w \in WireSet, NEW p \in Pods, NEW to, NEW f,
         \A q \in to : q \in Pods => f[q] \in Frames /\ (f[q].typ \in Crossing => f[q].eid \in Players)
  PROVE  /\ Sent(w, p, to, f) \in WireSet
         /\ \A l \in Directions :
               /\ Sent(w, p, to, f)[l] = IF l[1] = p /\ l[2] \in to /\ Connected(p, l[2])
                                         THEN Append(w[l], f[l[2]]) ELSE w[l]
               /\ l[2] \in Pods /\ w[l] \in Seq(Frames)
<1>. DEFINE v == Sent(w, p, to, f)
<1>1. \A l \in Directions :
        /\ v[l] = IF l[1] = p /\ l[2] \in to /\ Connected(p, l[2])
                  THEN Append(w[l], f[l[2]]) ELSE w[l]
        /\ l[2] \in Pods /\ w[l] \in Seq(Frames)
  BY DEF Sent, Directions, WireSet
<1>2. \A l \in Directions : v[l] \in Seq(Frames)
  BY <1>1, Appended
<1>3. v \in [Directions -> Seq(Frames)]
  BY <1>2 DEF Sent
<1>4. ASSUME NEW l \in Directions, NEW i \in DOMAIN v[l], v[l][i].typ \in Crossing
      PROVE  v[l][i].eid \in Players
  <2>1. CASE v[l] = w[l]
    BY <1>4, <2>1 DEF WireSet
  <2>2. CASE v[l] # w[l]
    <3>1. l[2] \in to /\ l[2] \in Pods /\ w[l] \in Seq(Frames) /\ v[l] = Append(w[l], f[l[2]])
      BY <1>1, <2>2
    <3>2. (i \in DOMAIN w[l] /\ v[l][i] = w[l][i]) \/ v[l][i] = f[l[2]]
      BY <1>4, <3>1
    <3>. QED  BY <1>4, <3>1, <3>2 DEF WireSet
  <2>. QED  BY <2>1, <2>2
<1>. QED  BY <1>1, <1>3, <1>4 DEF WireSet

\* p has told its neighbours that e is mirrored by targets only: nothing that
\* was retracted is forgotten, whoever lapses is told, unless its link is down,
\* and only targets are sent shadows.
Retargeted(p, e, targets) ==
    /\ Wires' /\ Fits'
    /\ out' \in [Pods -> [Ents -> SUBSET Pods]]
    /\ out'[p][e] = targets
    /\ \A r \in Pods, x \in Ents : r # p \/ x # e => out'[r][x] = out[r][x]
    /\ forgotten \subseteq forgotten' /\ forgotten' \subseteq Pods \X Ents
    /\ \A l \in Directions : Retracted(wire[l]) \subseteq Retracted(wire'[l])
    /\ \A l \in Directions : \A x \in Shown(wire'[l]) :
          x \in Shown(wire[l]) \/ (x = e /\ l[1] = p /\ l[2] \in targets)
    /\ \A q \in out[p][e] \ targets :
          \/ <<q, e>> \in forgotten'
          \/ /\ <<p, q>> \in Directions
             /\ e \in Retracted(wire'[<<p, q>>]) /\ e \notin Shown(wire'[<<p, q>>])

\* A push does that.
LEMMA Pushed ==
  ASSUME Typed, Wires, Fits, Aside, NEW w \in WireSet, Lossless(w),
         NEW p \in Pods, NEW e \in Ents, NEW targets \in SUBSET Pods,
         p \notin targets, \A q \in targets : Connected(p, q),
         Push(w, p, e, targets)
  PROVE  Retargeted(p, e, targets)
<1>. DEFINE lapsed == out[p][e] \ targets
            say == [q \in Pods |-> News(e, q, targets)]
<1>1. /\ Room(p, targets \cup lapsed)
      /\ wire' = Sent(w, p, targets \cup lapsed, say)
      /\ out' = [out EXCEPT ![p][e] = targets]
      /\ forgotten' = forgotten \cup {<<q, e>> : q \in {q \in lapsed : ~Connected(p, q)}}
  BY DEF Push
<1>2. /\ lapsed \subseteq Pods /\ p \notin lapsed /\ p \notin targets \cup lapsed
  BY DEF Typed, Located, Placed, Recorded, Mirrors, Aside
<1>3. \A q \in Pods : /\ say[q] \in Frames /\ say[q].typ \notin Crossing /\ say[q].eid = e
                       /\ say[q].typ = IF q \in targets THEN "shadow" ELSE "gone"
  BY DEF News, Frames, Crossing, Typed, Located, Placed, Recorded, Mirrors
<1>4. Wires'
  BY <1>1, <1>3, SentType DEF Wires
<1>5. \A l \in Directions :
        /\ wire'[l] = IF l[1] = p /\ l[2] \in targets \cup lapsed /\ Connected(p, l[2])
                      THEN Append(w[l], say[l[2]]) ELSE w[l]
        /\ l[2] \in Pods /\ w[l] \in Seq(Frames)
  BY <1>1, <1>3, SentType
<1>6. ASSUME NEW l \in Directions
      PROVE  /\ Len(wire'[l]) <= MaxWire
             /\ Retracted(wire[l]) \subseteq Retracted(wire'[l])
             /\ \A x \in Shown(wire'[l]) : x \in Shown(wire[l]) \/ (x = e /\ l[1] = p /\ l[2] \in targets)
  <2>0. /\ Len(w[l]) \in Nat /\ Len(wire[l]) \in Nat /\ MaxWire \in Nat
        /\ Len(w[l]) <= Len(wire[l]) /\ Len(wire[l]) <= MaxWire
        /\ Retracted(wire[l]) \subseteq Retracted(w[l]) /\ Shown(w[l]) \subseteq Shown(wire[l])
    BY ShadowAssumption DEF Lossless, Wires, WireSet, Fits
  <2>1. CASE l[1] = p /\ l[2] \in targets \cup lapsed /\ Connected(p, l[2])
    <3>1. wire'[l] = Append(w[l], say[l[2]]) /\ l[2] \in Pods /\ w[l] \in Seq(Frames)
      BY <1>5, <2>1
    <3>2. /\ Len(wire'[l]) = Len(w[l]) + 1
          /\ Retracted(w[l]) \subseteq Retracted(wire'[l])
          /\ \A x \in Shown(wire'[l]) : x \in Shown(w[l]) \/ (x = e /\ l[2] \in targets)
      BY <1>3, <3>1, Appended
    <3>3. l = <<p, l[2]>> /\ l[2] # p
      BY <2>1 DEF Directions
    <3>4. Len(wire[l]) < MaxWire
      BY <1>1, <2>1, <3>3 DEF Room
    <3>. QED  BY <2>0, <2>1, <3>2, <3>4
  <2>2. CASE ~(l[1] = p /\ l[2] \in targets \cup lapsed /\ Connected(p, l[2]))
    <3>1. wire'[l] = w[l]
      BY <1>5, <2>2
    <3>. QED  BY <2>0, <3>1
  <2>. QED  BY <2>1, <2>2
<1>7. /\ out' \in [Pods -> [Ents -> SUBSET Pods]]
      /\ out'[p][e] = targets
      /\ \A r \in Pods, x \in Ents : r # p \/ x # e => out'[r][x] = out[r][x]
  BY <1>1 DEF Typed, Located, Placed, Recorded, Mirrors
<1>8. forgotten \subseteq forgotten' /\ forgotten' \subseteq Pods \X Ents
  BY <1>1, <1>2 DEF Typed, Located, Placed, Recorded, Mirrors
<1>9. ASSUME NEW q \in lapsed, <<q, e>> \notin forgotten'
      PROVE  /\ <<p, q>> \in Directions
             /\ e \in Retracted(wire'[<<p, q>>]) /\ e \notin Shown(wire'[<<p, q>>])
  <2>1. Connected(p, q) /\ q \in Pods /\ <<p, q>> \in Directions
    BY <1>1, <1>2, <1>9 DEF Directions
  <2>2. wire'[<<p, q>>] = Append(w[<<p, q>>], say[q]) /\ w[<<p, q>>] \in Seq(Frames)
    BY <1>5, <2>1
  <2>. QED  BY <1>3, <1>9, <2>1, <2>2, Appended
<1>. QED  BY <1>4, <1>6, <1>7, <1>8, <1>9 DEF Fits, Retargeted

\* What is left of the wires when connections go.
LEMMA Cut ==
  ASSUME Wires, Fits, NEW D, NEW kept \in [D -> 0..MaxWire], Keeps(kept)
  PROVE  /\ Wires' /\ Fits'
         /\ Unheard(kept) \subseteq Pods \X Ents
         /\ \A l \in Directions : \A e \in Retracted(wire[l]) :
               e \in Retracted(wire'[l]) \/ <<l[2], e>> \in Unheard(kept)
         /\ \A l \in Directions : \A e \in Shown(wire'[l]) :
               e \in Shown(wire[l]) \/ <<l[2], e>> \in Unheard(kept)
         /\ \A l \in Directions : l \in D /\ kept[l] = 0 => Shown(wire'[l]) = {}
<1>1. \A l \in Directions : /\ l[1] \in Pods /\ l[2] \in Pods
                            /\ wire[l] \in Seq(Frames) /\ Len(wire[l]) \in Nat
                            /\ Len(wire[l]) <= MaxWire
  BY DEF Directions, Wires, WireSet, Fits
<1>3. \A l \in Directions :
        wire'[l] = IF l \in D THEN SubSeq(wire[l], 1, kept[l]) ELSE wire[l]
  BY DEF Keeps
<1>4. ASSUME NEW l \in Directions, l \in D
      PROVE  /\ wire'[l] \in Seq(Frames) /\ Len(wire'[l]) = kept[l] /\ kept[l] \in Nat
             /\ kept[l] <= Len(wire[l])
             /\ \A i \in DOMAIN wire'[l] : i \in DOMAIN wire[l] /\ wire'[l][i] = wire[l][i]
             /\ Retracted(wire[l]) \subseteq Retracted(wire'[l])
                   \cup Retracted(SubSeq(wire[l], kept[l] + 1, Len(wire[l])))
             /\ Shown(wire'[l]) \subseteq Shown(wire[l])
                   \cup Retracted(SubSeq(wire[l], kept[l] + 1, Len(wire[l])))
  <2>1. kept[l] \in Nat /\ kept[l] <= Len(wire[l])
    BY <1>4 DEF Keeps
  <2>2. wire'[l] = SubSeq(wire[l], 1, kept[l]) /\ wire[l] \in Seq(Frames)
    BY <1>1, <1>3, <1>4
  <2>. QED  BY <2>1, <2>2, Truncated
<1>5. ASSUME NEW l \in Directions, l \in D,
             NEW e \in Retracted(SubSeq(wire[l], kept[l] + 1, Len(wire[l])))
      PROVE  <<l[2], e>> \in Unheard(kept)
  <2>1. SubSeq(wire[l], kept[l] + 1, Len(wire[l])) \in Seq(Frames)
    BY <1>1, <1>4, <1>5
  <2>2. e \in Ents
    BY <1>5, <2>1, EntsOnly
  <2>. QED  BY <1>1, <1>5, <2>2 DEF Unheard
<1>6. wire' \in [Directions -> Seq(Frames)]
  BY <1>1, <1>3, <1>4 DEF Keeps
<1>7. Wires'
  <2>. SUFFICES ASSUME NEW l \in Directions, NEW i \in DOMAIN wire'[l], wire'[l][i].typ \in Crossing
                PROVE  wire'[l][i].eid \in Players
    BY <1>6 DEF Wires, WireSet
  <2>. QED  BY <1>3, <1>4 DEF Wires, WireSet
<1>8. Fits'
  <2>. SUFFICES ASSUME NEW l \in Directions PROVE Len(wire'[l]) <= MaxWire
    BY DEF Fits
  <2>1. CASE l \in D
    BY <1>1, <1>4, <2>1, ShadowAssumption
  <2>2. CASE l \notin D
    BY <1>1, <1>3, <2>2
  <2>. QED  BY <2>1, <2>2
<1>9. ASSUME NEW l \in Directions, l \in D, kept[l] = 0
      PROVE  Shown(wire'[l]) = {}
  BY <1>4, <1>9 DEF Shown
<1>10. ASSUME NEW l \in Directions
       PROVE  /\ \A e \in Retracted(wire[l]) : e \in Retracted(wire'[l]) \/ <<l[2], e>> \in Unheard(kept)
              /\ \A e \in Shown(wire'[l]) : e \in Shown(wire[l]) \/ <<l[2], e>> \in Unheard(kept)
  <2>1. CASE l \in D
    BY <1>4, <1>5, <2>1
  <2>2. CASE l \notin D
    BY <1>3, <2>2
  <2>. QED  BY <2>1, <2>2
<1>11. Unheard(kept) \subseteq Pods \X Ents
  BY DEF Unheard
<1>. QED  BY <1>7, <1>8, <1>9, <1>10, <1>11

-----------------------------------------------------------------------------
(* The pushes of the three handlers that make one.                         *)

\* updateShadows.
LEMMA Updated ==
  ASSUME Inv, NEW p \in Pods, NEW e \in Ents, UpdateShadow(p, e)
  PROVE  Retargeted(p, e, Targets(p, e))
<1>1. Lossless(wire) /\ wire \in WireSet
  BY DEF Inv, Wires, WireSet, Lossless
<1>2. /\ Targets(p, e) \subseteq near[e] /\ near[e] \subseteq Pods /\ p \notin near[e]
      /\ \A q \in Targets(p, e) : Connected(p, q)
  BY DEF Inv, Typed, Located, Placed, Recorded, Mirrors, Aside, UpdateShadow, Targets
<1>. QED  BY <1>1, <1>2, Pushed DEF Inv, UpdateShadow

\* shadowGoneAll, of a pod that lets go of an entity.
LEMMA Withdrawn ==
  ASSUME Inv, NEW p \in Pods, NEW e \in Ents, Vanish(p, e)
  PROVE  Retargeted(p, e, {})
<1>1. Lossless(wire) /\ wire \in WireSet
  BY DEF Inv, Wires, WireSet, Lossless
<1>. QED  BY <1>1, Pushed DEF Inv, Vanish, ShadowGoneAll

\* shadowGoneAll, of a pod whose player a neighbour holds.
LEMMA Released ==
  ASSUME Inv, NEW p \in Pods, NEW q \in Pods, p # q, Arrives(q, p, "ack"),
         ShadowGoneAll(Taken(q, p), p, Frame(q, p).eid)
  PROVE  /\ Retargeted(p, Frame(q, p).eid, {})
         /\ Frame(q, p).eid \in Players
<1>1. /\ Frame(q, p).eid \in Players
      /\ Taken(q, p) \in WireSet /\ Lossless(Taken(q, p))
  BY TakenType DEF Inv, Arrives, Frame, Crossing
<1>. QED  BY <1>1, Pushed DEF Inv, ShadowGoneAll, Ents

-----------------------------------------------------------------------------
(* Followed and NoGhost.                                                   *)

\* Whoever simulates an entity is alone in that.
LEMMA Owner ==
  ASSUME Typed, NEW p \in Pods, NEW e \in Ents, p \in at[e]
  PROVE  at[e] = {p}
<1>1. at[e] = {} \/ \E r \in Pods : at[e] = {r}
  BY DEF Typed, Located, Placed, Recorded, Mirrors
<1>. QED  BY <1>1

\* Who is on its owner's list is owed a retraction, or has lost it.
LEMMA Listed ==
  ASSUME Typed, NEW q \in Pods, NEW e \in Ents
  PROVE  Answered(q, e) \/ <<q, e>> \in forgotten <=> \E p \in Pods : Owes(p, q, e)
BY DEF Typed, Located, Placed, Recorded, Mirrors, Answered, Owes

\* A step that lets nobody off, retracts nothing silently and shows nothing new.
LEMMA Remembered ==
  ASSUME Typed, Typed', Wires, Wires', Followed, NoGhost,
         \A p, q \in Pods, e \in Ents : Owes(p, q, e) => Owes(p, q, e)',
         Quiet,
         \A q \in Pods, e \in Ents : mirror'[q][e] \in {mirror[q][e], NoDim}
  PROVE  Followed' /\ NoGhost'
<1>1. Followed'
  <2>. SUFFICES ASSUME NEW l \in Directions, NEW e \in Shown(wire'[l])
                PROVE  Owes(l[1], l[2], e)'
    BY DEF Followed
  <2>1. l[1] \in Pods /\ l[2] \in Pods /\ wire[l] \in Seq(Frames)
    BY DEF Directions, Wires, WireSet
  <2>2. e \in Shown(wire[l]) /\ e \in Ents
    BY <2>1, EntsOnly DEF Quiet
  <2>. QED  BY <2>1, <2>2 DEF Followed
<1>2. NoGhost'
  <2>. SUFFICES ASSUME NEW q \in Pods, NEW e \in Ents, mirror'[q][e] # NoDim
                PROVE  (Answered(q, e) \/ Retracting(q, e) \/ <<q, e>> \in forgotten)'
    BY DEF NoGhost
  <2>1. Answered(q, e) \/ Retracting(q, e) \/ <<q, e>> \in forgotten
    BY DEF NoGhost
  <2>2. CASE Answered(q, e) \/ <<q, e>> \in forgotten
    <3>1. \E p \in Pods : Owes(p, q, e)'
      BY <2>2, Listed
    <3>. QED  BY <3>1 DEF Typed, Located, Placed, Recorded, Mirrors, Answered, Owes
  <2>3. CASE Retracting(q, e)
    BY <2>3 DEF Retracting, Directions, Quiet
  <2>. QED  BY <2>1, <2>2, <2>3
<1>. QED  BY <1>1, <1>2

\* A step that takes frames off the wires and notes the retractions among them.
LEMMA Severed ==
  ASSUME Inv, Typed', NEW D, NEW kept \in [D -> 0..MaxWire], Keeps(kept),
         Unheard(kept) \subseteq forgotten',
         \A p, q \in Pods, e \in Ents : Owes(p, q, e) => Owes(p, q, e)',
         \A q \in Pods, e \in Ents : mirror'[q][e] \in {mirror[q][e], NoDim}
  PROVE  Followed' /\ NoGhost'
<1>1. /\ \A l \in Directions : \A e \in Retracted(wire[l]) :
            e \in Retracted(wire'[l]) \/ <<l[2], e>> \in forgotten'
      /\ \A l \in Directions : \A e \in Shown(wire'[l]) :
            e \in Shown(wire[l]) \/ <<l[2], e>> \in forgotten'
  BY Cut DEF Inv
<1>2. ASSUME NEW l \in Directions, NEW e \in Shown(wire'[l]) PROVE Owes(l[1], l[2], e)'
  <2>1. CASE <<l[2], e>> \in forgotten'
    BY <2>1 DEF Owes
  <2>2. CASE e \in Shown(wire[l])
    <3>1. l[1] \in Pods /\ l[2] \in Pods /\ wire[l] \in Seq(Frames)
      BY DEF Directions, Inv, Wires, WireSet
    <3>2. e \in Ents /\ Owes(l[1], l[2], e)
      BY <2>2, <3>1, EntsOnly DEF Inv, Followed
    <3>. QED  BY <3>1, <3>2
  <2>. QED  BY <1>1, <2>1, <2>2
<1>3. ASSUME NEW q \in Pods, NEW e \in Ents, mirror'[q][e] # NoDim
      PROVE  (Answered(q, e) \/ Retracting(q, e) \/ <<q, e>> \in forgotten)'
  <2>1. Answered(q, e) \/ Retracting(q, e) \/ <<q, e>> \in forgotten
    BY <1>3 DEF Inv, NoGhost
  <2>2. CASE \E p \in Pods : Owes(p, q, e)
    BY <2>2 DEF Typed, Located, Owes, Answered
  <2>3. CASE Retracting(q, e)
    BY <1>1, <2>3 DEF Retracting, Directions
  <2>. QED  BY <2>1, <2>2, <2>3, Listed DEF Inv
<1>. QED  BY <1>2, <1>3 DEF Followed, NoGhost

\* A push by the owner, which stays unless it retracts every mirror.
LEMMA Retold ==
  ASSUME Inv, Typed', NEW p \in Pods, NEW e \in Ents, p \in at[e],
         NEW targets \in SUBSET Pods, Retargeted(p, e, targets),
         \A x \in Ents : x # e \/ targets # {} => at'[x] = at[x],
         mirror' = mirror
  PROVE  Followed' /\ NoGhost'
<1>1. at[e] = {p}
  BY Owner DEF Inv
<1>2. ASSUME NEW r \in Pods, NEW q \in Pods, NEW x \in Ents, Owes(r, q, x)
      PROVE  \/ Owes(r, q, x)'
             \/ /\ x = e /\ r = p /\ <<p, q>> \in Directions
                /\ e \in Retracted(wire'[<<p, q>>]) /\ e \notin Shown(wire'[<<p, q>>])
  <2>1. CASE <<q, x>> \in forgotten
    BY <2>1 DEF Owes, Retargeted
  <2>2. CASE r \in at[x] /\ q \in out[r][x] /\ x # e
    BY <2>2 DEF Owes, Retargeted
  <2>3. CASE r \in at[x] /\ q \in out[r][x] /\ x = e
    <3>1. r = p
      BY <1>1, <2>3
    <3>2. CASE q \in targets
      BY <2>3, <3>1, <3>2 DEF Owes, Retargeted
    <3>3. CASE q \notin targets
      BY <2>3, <3>1, <3>3 DEF Owes, Retargeted
    <3>. QED  BY <3>2, <3>3
  <2>. QED  BY <1>2, <2>1, <2>2, <2>3 DEF Owes
<1>3. Followed'
  <2>. SUFFICES ASSUME NEW l \in Directions, NEW x \in Shown(wire'[l])
                PROVE  Owes(l[1], l[2], x)'
    BY DEF Followed
  <2>1. l[1] \in Pods /\ l[2] \in Pods /\ l = <<l[1], l[2]>> /\ wire[l] \in Seq(Frames)
    BY DEF Directions, Inv, Wires, WireSet
  <2>2. CASE x \in Shown(wire[l])
    <3>1. x \in Ents /\ Owes(l[1], l[2], x)
      BY <2>1, <2>2, EntsOnly DEF Inv, Followed
    <3>2. ~(x = e /\ l[1] = p /\ e \notin Shown(wire'[<<p, l[2]>>]))
      BY <2>1
    <3>. QED  BY <1>2, <2>1, <3>1, <3>2
  <2>3. CASE x = e /\ l[1] = p /\ l[2] \in targets
    <3>1. at'[e] = at[e] /\ out'[p][e] = targets
      BY <2>3 DEF Retargeted
    <3>. QED  BY <2>3, <3>1 DEF Owes
  <2>. QED  BY <2>2, <2>3 DEF Retargeted
<1>4. NoGhost'
  <2>. SUFFICES ASSUME NEW q \in Pods, NEW x \in Ents, mirror'[q][x] # NoDim
                PROVE  (Answered(q, x) \/ Retracting(q, x) \/ <<q, x>> \in forgotten)'
    BY DEF NoGhost
  <2>1. Answered(q, x) \/ Retracting(q, x) \/ <<q, x>> \in forgotten
    BY DEF Inv, NoGhost
  <2>2. CASE Answered(q, x) \/ <<q, x>> \in forgotten
    <3>1. PICK r \in Pods : Owes(r, q, x)
      BY <2>2, Listed DEF Inv
    <3>2. CASE Owes(r, q, x)'
      BY <3>2 DEF Typed, Located, Placed, Recorded, Mirrors, Answered, Owes
    <3>3. CASE <<p, q>> \in Directions /\ x \in Retracted(wire'[<<p, q>>])
      BY <3>3 DEF Retracting, Directions
    <3>. QED  BY <1>2, <3>1, <3>2, <3>3
  <2>3. CASE Retracting(q, x)
    BY <2>3 DEF Retracting, Directions, Retargeted
  <2>. QED  BY <2>1, <2>2, <2>3
<1>. QED  BY <1>3, <1>4

-----------------------------------------------------------------------------
(* The wires, step by step.                                                *)

\* A frame taken leaves the wires what they are, and is missed only if it is
\* a ShadowGone.
LEMMA Shrunk ==
  ASSUME Wires, Fits, NEW p \in Pods, NEW q \in Pods, p # q, wire[<<p, q>>] # <<>>,
         wire' = Taken(p, q)
  PROVE  Wires' /\ Fits' /\ (Frame(p, q).typ # "gone" => Quiet)
<1>1. /\ Taken(p, q) \in WireSet
      /\ \A l \in Directions : l # <<p, q>> => Taken(p, q)[l] = wire[l]
      /\ Taken(p, q)[<<p, q>>] = Tail(wire[<<p, q>>])
      /\ wire[<<p, q>>] \in Seq(Frames) /\ <<p, q>> \in Directions
      /\ Frame(p, q).typ # "gone" => Lossless(Taken(p, q))
  BY TakenType DEF Wires, WireSet
<1>2. ASSUME NEW l \in Directions PROVE Len(wire'[l]) <= MaxWire
  <2>1. CASE l = <<p, q>>
    <3>1. Len(wire[l]) \in Nat /\ Len(Tail(wire[l])) = Len(wire[l]) - 1 /\ Len(wire[l]) <= MaxWire
      BY <1>1, <2>1, Behead DEF Fits
    <3>2. Len(wire'[l]) = Len(Tail(wire[l]))
      BY <1>1, <2>1
    <3>. QED  BY <3>1, <3>2, ShadowAssumption
  <2>2. CASE l # <<p, q>>
    BY <1>1, <2>2 DEF Fits
  <2>. QED  BY <2>1, <2>2
<1>. QED  BY <1>1, <1>2 DEF Wires, Fits, Lossless, Quiet

\* A migration is sent.
LEMMA CrossWires ==
  ASSUME Inv, NEW p \in Pods, NEW q \in Pods, NEW e \in Ents, Cross(p, e, q)
  PROVE  Wires' /\ Fits' /\ Quiet
<1>. DEFINE m == [typ |-> "migrate", eid |-> e, dim |-> dim[e]]
            f == [r \in {q} |-> m]
<1>1. m \in Frames /\ m.typ = "migrate" /\ m.eid \in Players /\ f[q] = m
  BY DEF Inv, Typed, Placed, Cross, Frames, Ents
<1>2. wire' = Sent(wire, p, {q}, f) /\ wire \in WireSet
  BY DEF Cross, Inv, Wires
<1>. HIDE DEF f, m
<1>3. /\ Wires'
      /\ \A l \in Directions :
            /\ wire'[l] = IF l[1] = p /\ l[2] \in {q} /\ Connected(p, l[2])
                          THEN Append(wire[l], f[l[2]]) ELSE wire[l]
            /\ wire[l] \in Seq(Frames)
  <2>1. \A r \in {q} : f[r] \in Frames /\ f[r].eid \in Players
    BY <1>1
  <2>. QED  BY <1>2, <2>1, SentType DEF Wires
<1>4. \A l \in Directions :
        /\ wire'[l] = wire[l] \/ (wire'[l] = Append(wire[l], m) /\ l[1] = p /\ l[2] = q)
        /\ wire[l] \in Seq(Frames)
  BY <1>1, <1>3
<1>5. ASSUME NEW l \in Directions
      PROVE  /\ Len(wire'[l]) <= MaxWire
             /\ Retracted(wire[l]) \subseteq Retracted(wire'[l])
             /\ Shown(wire'[l]) \subseteq Shown(wire[l])
  <2>1. CASE wire'[l] = wire[l]
    BY <2>1 DEF Inv, Fits
  <2>2. CASE l[1] = p /\ l[2] = q /\ wire'[l] = Append(wire[l], m)
    <3>1. /\ Len(wire'[l]) = Len(wire[l]) + 1 /\ Len(wire[l]) \in Nat
          /\ Retracted(wire[l]) = Retracted(wire'[l]) /\ Shown(wire'[l]) = Shown(wire[l])
      BY <1>1, <1>4, <2>2, Appended
    <3>2. l = <<p, q>> /\ p # q
      BY <2>2 DEF Directions
    <3>3. Len(wire[l]) < MaxWire
      BY <3>2 DEF Cross, Room
    <3>. QED  BY <3>1, <3>3, ShadowAssumption
  <2>. QED  BY <1>4, <2>1, <2>2
<1>. QED  BY <1>3, <1>5 DEF Fits, Quiet

\* A migration is answered, if the link is up.
LEMMA AnswerWires ==
  ASSUME Inv, NEW p \in Pods, NEW q \in Pods, p # q, ApplyMigration(p, q)
  PROVE  Wires' /\ Fits' /\ Quiet
<1>. DEFINE w == Taken(p, q)
            e == Frame(p, q).eid
            answer == [typ |-> IF Frame(p, q).dim \in DimsOf[q] THEN "ack" ELSE "nak", eid |-> e]
            l == <<q, p>>
            longer == Append(w[l], answer)
<1>1. wire' = [w EXCEPT ![l] = IF Connected(p, q) THEN Append(@, answer) ELSE @]
  BY DEF ApplyMigration
<1>2. e \in Players /\ w \in WireSet /\ Lossless(w) /\ w[l] = wire[l]
  BY TakenType DEF Inv, ApplyMigration, Arrives, Frame, Crossing, Directions
<1>3. /\ answer \in Frames /\ answer.eid \in Players
      /\ answer.typ # "gone" /\ answer.typ # "shadow"
  BY <1>2 DEF Frames, Ents
<1>4. l \in Directions /\ w[l] \in Seq(Frames) /\ Len(wire[l]) < MaxWire
  BY <1>2 DEF Directions, WireSet, ApplyMigration, Room
<1>. HIDE DEF w, answer
<1>5. /\ longer \in Seq(Frames) /\ Len(longer) = Len(wire[l]) + 1 /\ Len(wire[l]) \in Nat
      /\ Retracted(longer) = Retracted(w[l]) /\ Shown(longer) = Shown(w[l])
  BY <1>2, <1>3, <1>4, Appended
<1>6. \A i \in DOMAIN longer : (i \in DOMAIN w[l] /\ longer[i] = w[l][i]) \/ longer[i] = answer
  BY <1>3, <1>4
<1>7. \A k \in Directions : wire'[k] = IF k = l /\ Connected(p, q) THEN longer ELSE w[k]
  BY <1>1, <1>2, <1>4 DEF WireSet
<1>8. wire' \in [Directions -> Seq(Frames)]
  BY <1>1, <1>2, <1>5 DEF WireSet
<1>. HIDE DEF longer
<1>9. ASSUME NEW k \in Directions, NEW i \in DOMAIN wire'[k], wire'[k][i].typ \in Crossing
      PROVE  wire'[k][i].eid \in Players
  BY <1>2, <1>3, <1>6, <1>7, <1>9 DEF WireSet
<1>10. ASSUME NEW k \in Directions
       PROVE  /\ Len(wire'[k]) <= MaxWire
              /\ Retracted(wire[k]) \subseteq Retracted(wire'[k])
              /\ Shown(wire'[k]) \subseteq Shown(wire[k])
  <2>1. /\ Len(w[k]) <= Len(wire[k]) /\ Len(wire[k]) <= MaxWire
        /\ Len(w[k]) \in Nat /\ Len(wire[k]) \in Nat
        /\ Retracted(wire[k]) \subseteq Retracted(w[k]) /\ Shown(w[k]) \subseteq Shown(wire[k])
    BY <1>2 DEF Lossless, Inv, Fits, Wires, WireSet
  <2>2. CASE k = l /\ Connected(p, q)
    <3>1. wire'[k] = longer
      BY <1>7, <2>2
    <3>2. Len(wire'[k]) <= MaxWire
      BY <1>4, <1>5, <3>1, ShadowAssumption
    <3>3. /\ Retracted(wire[k]) \subseteq Retracted(wire'[k])
          /\ Shown(wire'[k]) \subseteq Shown(wire[k])
      BY <1>5, <2>1, <2>2, <3>1
    <3>. QED  BY <3>2, <3>3
  <2>3. CASE ~(k = l /\ Connected(p, q))
    <3>1. wire'[k] = w[k]
      BY <1>7, <2>3
    <3>. QED  BY <2>1, <3>1, ShadowAssumption
  <2>. QED  BY <2>2, <2>3
<1>. QED  BY <1>8, <1>9, <1>10 DEF Wires, WireSet, Fits, Quiet

\* The wires carry frames, and no more than they hold.
LEMMA WiresStep ==
  ASSUME Inv, [Next]_vars
  PROVE  Wires' /\ Fits'
<1>1. ASSUME NEW e \in Ents, NEW p \in Pods, NEW d \in Dims, NEW n \in SUBSET Pods, Appear(e, p, d, n)
      PROVE  Wires' /\ Fits'
  BY <1>1 DEF Inv, Wires, Fits, Appear
<1>2. ASSUME NEW e \in Ents, NEW d \in Dims, NEW n \in SUBSET Pods, Move(e, d, n)
      PROVE  Wires' /\ Fits'
  BY <1>2 DEF Inv, Wires, Fits, Move
<1>3. ASSUME NEW p \in Pods, NEW e \in Ents, UpdateShadow(p, e)
      PROVE  Wires' /\ Fits'
  BY <1>3, Updated DEF Retargeted
<1>4. ASSUME NEW p \in Pods, NEW e \in Ents, Vanish(p, e)
      PROVE  Wires' /\ Fits'
  BY <1>4, Withdrawn DEF Retargeted
<1>5. ASSUME NEW p \in Pods, NEW e \in Ents, Convert(p, e)
      PROVE  Wires' /\ Fits'
  BY <1>5 DEF Inv, Wires, Fits, Convert
<1>6. ASSUME NEW p \in Pods, NEW q \in Pods, NEW e \in Ents, Cross(p, e, q)
      PROVE  Wires' /\ Fits'
  BY <1>6, CrossWires
<1>7. ASSUME NEW q \in Pods, NEW e \in Ents, NEW n \in SUBSET Pods, Resume(e, q, n)
      PROVE  Wires' /\ Fits'
  BY <1>7 DEF Inv, Wires, Fits, Resume
<1>8. ASSUME NEW p \in Pods, NEW q \in Pods, p # q, ApplyMigration(p, q)
      PROVE  Wires' /\ Fits'
  BY <1>8, AnswerWires
<1>9. ASSUME NEW p \in Pods, NEW q \in Pods, p # q, Refused(p, q)
      PROVE  Wires' /\ Fits'
  BY <1>9, Shrunk DEF Refused, Arrives, Inv
<1>10. ASSUME NEW p \in Pods, NEW q \in Pods, p # q, FinishHandover(p, q)
      PROVE  Wires' /\ Fits'
  <2>1. CASE wire' = Taken(p, q)
    BY <1>10, <2>1, Shrunk DEF FinishHandover, Arrives, Inv
  <2>2. CASE ShadowGoneAll(Taken(p, q), q, Frame(p, q).eid)
    BY <1>10, <2>2, Released DEF FinishHandover, Retargeted
  <2>. QED  BY <1>10, <2>1, <2>2 DEF FinishHandover
<1>11. ASSUME NEW p \in Pods, NEW q \in Pods, p # q, ApplyShadow(p, q)
      PROVE  Wires' /\ Fits'
  BY <1>11, Shrunk DEF ApplyShadow, Arrives, Inv
<1>12. ASSUME NEW p \in Pods, NEW q \in Pods, p # q, ApplyShadowGone(p, q)
      PROVE  Wires' /\ Fits'
  BY <1>12, Shrunk DEF ApplyShadowGone, Arrives, Inv
<1>13. ASSUME NEW p \in Pods, Track(p)
      PROVE  Wires' /\ Fits'
  BY <1>13 DEF Inv, Wires, Fits, Track
<1>14. ASSUME NEW p \in Pods, Restart(p)
      PROVE  Wires' /\ Fits'
  BY <1>14, Cut DEF Restart, Inv
<1>15. ASSUME NEW p \in Pods, NEW q \in Pods, LinkDrop(p, q)
      PROVE  Wires' /\ Fits'
  BY <1>15, Cut DEF LinkDrop, Inv
<1>16. ASSUME NEW p \in Pods, NEW q \in Pods, LinkUp(p, q)
      PROVE  Wires' /\ Fits'
  BY <1>16 DEF Inv, Wires, Fits, LinkUp
<1>17. ASSUME UNCHANGED vars
      PROVE  Wires' /\ Fits'
  BY <1>17 DEF Inv, Wires, Fits, vars
<1>. QED
  BY <1>1, <1>2, <1>3, <1>4, <1>5, <1>6, <1>7, <1>8, <1>9, <1>10, <1>11,
     <1>12, <1>13, <1>14, <1>15, <1>16, <1>17 DEF Next, Handle, Directions

\* The other variables hold what they are meant to.
LEMMA TypedStep ==
  ASSUME Inv, [Next]_vars
  PROVE  Typed'
<1>1. ASSUME NEW e \in Ents, NEW p \in Pods, NEW d \in Dims, NEW n \in SUBSET Pods, Appear(e, p, d, n)
      PROVE  Typed'
  <2>1. Located'
    BY <1>1 DEF Inv, Typed, Located, Appear
  <2>2. Placed'
    BY <1>1, ShadowAssumption DEF Inv, Typed, Placed, Appear
  <2>3. Recorded'
    BY <1>1 DEF Inv, Typed, Recorded, Appear
  <2>4. Mirrors'
    BY <1>1, ShadowAssumption DEF Inv, Typed, Mirrors, Appear
  <2>. QED  BY <2>1, <2>2, <2>3, <2>4 DEF Typed
<1>2. ASSUME NEW e \in Ents, NEW d \in Dims, NEW n \in SUBSET Pods, Move(e, d, n)
      PROVE  Typed'
  <2>1. Located'
    BY <1>2 DEF Inv, Typed, Located, Move, Untracked
  <2>2. Placed'
    BY <1>2, ShadowAssumption DEF Inv, Typed, Placed, Move, Untracked
  <2>3. Recorded'
    BY <1>2 DEF Inv, Typed, Recorded, Move, Untracked
  <2>4. Mirrors'
    BY <1>2, ShadowAssumption DEF Inv, Typed, Mirrors, Move, Untracked
  <2>. QED  BY <2>1, <2>2, <2>3, <2>4 DEF Typed
<1>3. ASSUME NEW p \in Pods, NEW e \in Ents, UpdateShadow(p, e)
      PROVE  Typed'
  <2>1. Retargeted(p, e, Targets(p, e))
    BY <1>3, Updated
  <2>2. Located'
    BY <1>3, <2>1 DEF Inv, Typed, Located, UpdateShadow, entVars
  <2>3. Placed'
    BY <1>3, <2>1, ShadowAssumption DEF Inv, Typed, Placed, UpdateShadow, entVars
  <2>4. Recorded'
    BY <1>3, <2>1 DEF Inv, Typed, Recorded, UpdateShadow, entVars, Retargeted
  <2>5. Mirrors'
    BY <1>3, <2>1, ShadowAssumption DEF Inv, Typed, Mirrors, UpdateShadow, entVars
  <2>. QED  BY <2>2, <2>3, <2>4, <2>5 DEF Typed
<1>4. ASSUME NEW p \in Pods, NEW e \in Ents, Vanish(p, e)
      PROVE  Typed'
  <2>1. Retargeted(p, e, {})
    BY <1>4, Withdrawn
  <2>2. Located'
    BY <1>4, <2>1 DEF Inv, Typed, Located, Vanish
  <2>3. Placed'
    BY <1>4, <2>1, ShadowAssumption DEF Inv, Typed, Placed, Vanish
  <2>4. Recorded'
    BY <1>4, <2>1 DEF Inv, Typed, Recorded, Vanish, Retargeted
  <2>5. Mirrors'
    BY <1>4, <2>1, ShadowAssumption DEF Inv, Typed, Mirrors, Vanish
  <2>. QED  BY <2>2, <2>3, <2>4, <2>5 DEF Typed
<1>5. ASSUME NEW p \in Pods, NEW e \in Ents, Convert(p, e)
      PROVE  Typed'
  <2>1. Located'
    BY <1>5 DEF Inv, Typed, Located, Convert
  <2>2. Placed'
    BY <1>5, ShadowAssumption DEF Inv, Typed, Placed, Convert
  <2>3. Recorded'
    BY <1>5 DEF Inv, Typed, Recorded, Convert
  <2>4. Mirrors'
    BY <1>5, ShadowAssumption DEF Inv, Typed, Mirrors, Convert
  <2>. QED  BY <2>1, <2>2, <2>3, <2>4 DEF Typed
<1>6. ASSUME NEW p \in Pods, NEW q \in Pods, NEW e \in Ents, Cross(p, e, q)
      PROVE  Typed'
  <2>1. Located'
    BY <1>6 DEF Inv, Typed, Located, Cross, entVars
  <2>2. Placed'
    BY <1>6, ShadowAssumption DEF Inv, Typed, Placed, Cross, entVars
  <2>3. Recorded'
    BY <1>6 DEF Inv, Typed, Recorded, Cross, entVars
  <2>4. Mirrors'
    BY <1>6, ShadowAssumption DEF Inv, Typed, Mirrors, Cross, entVars
  <2>. QED  BY <2>1, <2>2, <2>3, <2>4 DEF Typed
<1>7. ASSUME NEW q \in Pods, NEW e \in Ents, NEW n \in SUBSET Pods, Resume(e, q, n)
      PROVE  Typed'
  <2>1. Located'
    BY <1>7 DEF Inv, Typed, Located, Resume
  <2>2. Placed'
    BY <1>7, ShadowAssumption DEF Inv, Typed, Placed, Resume
  <2>3. Recorded'
    BY <1>7 DEF Inv, Typed, Recorded, Resume
  <2>4. Mirrors'
    BY <1>7, ShadowAssumption DEF Inv, Typed, Mirrors, Resume
  <2>. QED  BY <2>1, <2>2, <2>3, <2>4 DEF Typed
<1>8. ASSUME NEW p \in Pods, NEW q \in Pods, p # q, ApplyMigration(p, q)
      PROVE  Typed'
  <2>1. Frame(p, q).eid \in Players
    BY <1>8, TakenType DEF Inv, ApplyMigration, Arrives, Frame, Crossing
  <2>2. Located'
    BY <1>8, <2>1 DEF Inv, Typed, Located, ApplyMigration
  <2>3. Placed'
    BY <1>8, <2>1, ShadowAssumption DEF Inv, Typed, Placed, ApplyMigration
  <2>4. Recorded'
    BY <1>8, <2>1 DEF Inv, Typed, Recorded, ApplyMigration
  <2>5. Mirrors'
    BY <1>8, <2>1, ShadowAssumption DEF Inv, Typed, Mirrors, ApplyMigration
  <2>. QED  BY <2>2, <2>3, <2>4, <2>5 DEF Typed
<1>9. ASSUME NEW p \in Pods, NEW q \in Pods, p # q, Refused(p, q)
      PROVE  Typed'
  BY <1>9 DEF Inv, Typed, Located, Placed, Recorded, Mirrors, Refused
<1>10. ASSUME NEW p \in Pods, NEW q \in Pods, p # q, FinishHandover(p, q)
      PROVE  Typed'
  <2>. DEFINE e == Frame(p, q).eid
  <2>1. e \in Players /\ e \in Ents
    BY <1>10, TakenType DEF Inv, FinishHandover, Arrives, Frame, Crossing, Ents
  <2>2. CASE e \in mig /\ q \in at[e]
    <3>1. Retargeted(q, e, {})
      BY <1>10, <2>2, Released DEF FinishHandover
    <3>2. /\ at' = [at EXCEPT ![e] = {}] /\ near' = [near EXCEPT ![e] = {}]
          /\ mig' = mig \ {e} /\ told' = told \cup {<<e, p>>}
          /\ tracked' = [tracked EXCEPT ![q] = @ \ {e}]
          /\ UNCHANGED <<dim, held, born, mirror, links>>
      BY <1>10, <2>2 DEF FinishHandover
    <3>. HIDE DEF e
    <3>3. Located'
      BY <2>1, <3>1, <3>2 DEF Inv, Typed, Located, Retargeted
    <3>4. Placed'
      BY <2>1, <3>1, <3>2, ShadowAssumption DEF Inv, Typed, Placed, Retargeted
    <3>5. Recorded'
      BY <2>1, <3>1, <3>2 DEF Inv, Typed, Recorded, Retargeted
    <3>6. Mirrors'
      BY <2>1, <3>1, <3>2, ShadowAssumption DEF Inv, Typed, Mirrors, Retargeted
    <3>. QED  BY <3>3, <3>4, <3>5, <3>6 DEF Typed
  <2>3. CASE ~(e \in mig /\ q \in at[e])
    BY <1>10, <2>3 DEF Inv, Typed, Located, Placed, Recorded, Mirrors, FinishHandover
  <2>. QED  BY <2>2, <2>3
<1>11. ASSUME NEW p \in Pods, NEW q \in Pods, p # q, ApplyShadow(p, q)
      PROVE  Typed'
  <2>1. Frame(p, q) \in Frames /\ Frame(p, q).typ = "shadow"
    BY <1>11, TakenType DEF Inv, ApplyShadow, Arrives, Frame
  <2>2. Frame(p, q).eid \in Ents /\ Frame(p, q).dim \in Dims
    BY <2>1 DEF Frames
  <2>3. Located'
    BY <1>11, <2>2 DEF Inv, Typed, Located, ApplyShadow, entVars
  <2>4. Placed'
    BY <1>11, <2>2, ShadowAssumption DEF Inv, Typed, Placed, ApplyShadow, entVars
  <2>5. Recorded'
    BY <1>11, <2>2 DEF Inv, Typed, Recorded, ApplyShadow, entVars
  <2>6. Mirrors'
    BY <1>11, <2>2, ShadowAssumption DEF Inv, Typed, Mirrors, ApplyShadow, entVars
  <2>. QED  BY <2>3, <2>4, <2>5, <2>6 DEF Typed
<1>12. ASSUME NEW p \in Pods, NEW q \in Pods, p # q, ApplyShadowGone(p, q)
      PROVE  Typed'
  <2>1. Frame(p, q).eid \in Ents
    BY <1>12, TakenType DEF Inv, ApplyShadowGone, Arrives, Frames
  <2>2. Located'
    BY <1>12, <2>1 DEF Inv, Typed, Located, ApplyShadowGone, Seen, entVars
  <2>3. Placed'
    BY <1>12, <2>1, ShadowAssumption DEF Inv, Typed, Placed, ApplyShadowGone, Seen, entVars
  <2>4. Recorded'
    BY <1>12, <2>1 DEF Inv, Typed, Recorded, ApplyShadowGone, Seen, entVars
  <2>5. Mirrors'
    BY <1>12, <2>1, ShadowAssumption DEF Inv, Typed, Mirrors, ApplyShadowGone, Seen, entVars
  <2>. QED  BY <2>2, <2>3, <2>4, <2>5 DEF Typed
<1>13. ASSUME NEW p \in Pods, Track(p)
      PROVE  Typed'
  <2>1. Located'
    BY <1>13 DEF Inv, Typed, Located, Track, entVars
  <2>2. Placed'
    BY <1>13, ShadowAssumption DEF Inv, Typed, Placed, Track, entVars
  <2>3. Recorded'
    BY <1>13 DEF Inv, Typed, Recorded, Track, entVars
  <2>4. Mirrors'
    BY <1>13, ShadowAssumption DEF Inv, Typed, Mirrors, Track, entVars
  <2>. QED  BY <2>1, <2>2, <2>3, <2>4 DEF Typed
<1>14. ASSUME NEW p \in Pods, Restart(p)
      PROVE  Typed'
  <2>1. forgotten' \subseteq Pods \X Ents
    BY <1>14, Cut DEF Inv, Typed, Recorded, Restart
  <2>2. Located'
    BY <1>14, <2>1 DEF Inv, Typed, Located, Restart
  <2>3. Placed'
    BY <1>14, <2>1, ShadowAssumption DEF Inv, Typed, Placed, Restart
  <2>4. Recorded'
    BY <1>14, <2>1 DEF Inv, Typed, Recorded, Restart
  <2>5. Mirrors'
    BY <1>14, <2>1, ShadowAssumption DEF Inv, Typed, Mirrors, Restart
  <2>. QED  BY <2>2, <2>3, <2>4, <2>5 DEF Typed
<1>15. ASSUME NEW p \in Pods, NEW q \in Pods, LinkDrop(p, q)
      PROVE  Typed'
  <2>1. forgotten' \subseteq Pods \X Ents
    BY <1>15, Cut DEF Inv, Typed, Recorded, LinkDrop
  <2>2. Located'
    BY <1>15, <2>1 DEF Inv, Typed, Located, LinkDrop, entVars
  <2>3. Placed'
    BY <1>15, <2>1, ShadowAssumption DEF Inv, Typed, Placed, LinkDrop, entVars
  <2>4. Recorded'
    BY <1>15, <2>1 DEF Inv, Typed, Recorded, LinkDrop, entVars
  <2>5. Mirrors'
    BY <1>15, <2>1, ShadowAssumption DEF Inv, Typed, Mirrors, LinkDrop, entVars
  <2>. QED  BY <2>2, <2>3, <2>4, <2>5 DEF Typed
<1>16. ASSUME NEW p \in Pods, NEW q \in Pods, LinkUp(p, q)
      PROVE  Typed'
  <2>1. Located'
    BY <1>16 DEF Inv, Typed, Located, LinkUp, entVars
  <2>2. Placed'
    BY <1>16, ShadowAssumption DEF Inv, Typed, Placed, LinkUp, entVars
  <2>3. Recorded'
    BY <1>16 DEF Inv, Typed, Recorded, LinkUp, entVars
  <2>4. Mirrors'
    BY <1>16, ShadowAssumption DEF Inv, Typed, Mirrors, LinkUp, entVars
  <2>. QED  BY <2>1, <2>2, <2>3, <2>4 DEF Typed
<1>17. ASSUME UNCHANGED vars
      PROVE  Typed'
  BY <1>17 DEF Inv, Typed, Located, Placed, Recorded, Mirrors, vars, entVars
<1>. QED
  BY <1>1, <1>2, <1>3, <1>4, <1>5, <1>6, <1>7, <1>8, <1>9, <1>10, <1>11,
     <1>12, <1>13, <1>14, <1>15, <1>16, <1>17 DEF Next, Handle, Directions

\* Nobody becomes its own neighbour.
LEMMA AsideStep ==
  ASSUME Inv, [Next]_vars
  PROVE  Aside'
<1>1. ASSUME NEW e \in Ents, NEW p \in Pods, NEW d \in Dims, NEW n \in SUBSET Pods, Appear(e, p, d, n)
      PROVE  Aside'
  BY <1>1, ShadowAssumption DEF Inv, Typed, Located, Placed, Recorded, Aside, Appear, entVars
<1>2. ASSUME NEW e \in Ents, NEW d \in Dims, NEW n \in SUBSET Pods, Move(e, d, n)
      PROVE  Aside'
  BY <1>2, ShadowAssumption DEF Inv, Typed, Located, Placed, Recorded, Aside, Move, entVars
<1>3. ASSUME NEW p \in Pods, NEW e \in Ents, UpdateShadow(p, e)
      PROVE  Aside'
  <2>1. Retargeted(p, e, Targets(p, e))
    BY <1>3, Updated
  <2>2. p \notin Targets(p, e)
    BY <1>3 DEF Inv, Aside, UpdateShadow, Targets
  <2>. QED  BY <1>3, <2>1, <2>2 DEF Inv, Aside, UpdateShadow, entVars, Retargeted
<1>4. ASSUME NEW p \in Pods, NEW e \in Ents, Vanish(p, e)
      PROVE  Aside'
  <2>1. Retargeted(p, e, {})
    BY <1>4, Withdrawn
  <2>2. at' = [at EXCEPT ![e] = {}] /\ near' = [near EXCEPT ![e] = {}]
    BY <1>4 DEF Vanish
  <2>. QED  BY <2>1, <2>2 DEF Inv, Typed, Located, Placed, Aside, Retargeted
<1>5. ASSUME NEW p \in Pods, NEW e \in Ents, Convert(p, e)
      PROVE  Aside'
  BY <1>5, ShadowAssumption DEF Inv, Typed, Located, Placed, Recorded, Aside, Convert, entVars
<1>6. ASSUME NEW p \in Pods, NEW q \in Pods, NEW e \in Ents, Cross(p, e, q)
      PROVE  Aside'
  BY <1>6, ShadowAssumption DEF Inv, Typed, Located, Placed, Recorded, Aside, Cross, entVars
<1>7. ASSUME NEW q \in Pods, NEW e \in Ents, NEW n \in SUBSET Pods, Resume(e, q, n)
      PROVE  Aside'
  BY <1>7, ShadowAssumption DEF Inv, Typed, Located, Placed, Recorded, Aside, Resume, entVars
<1>8. ASSUME NEW p \in Pods, NEW q \in Pods, p # q, ApplyMigration(p, q)
      PROVE  Aside'
  BY <1>8, ShadowAssumption DEF Inv, Typed, Located, Placed, Recorded, Aside, ApplyMigration, entVars
<1>9. ASSUME NEW p \in Pods, NEW q \in Pods, p # q, Refused(p, q)
      PROVE  Aside'
  BY <1>9, ShadowAssumption DEF Inv, Typed, Located, Placed, Recorded, Aside, Refused, entVars
<1>10. ASSUME NEW p \in Pods, NEW q \in Pods, p # q, FinishHandover(p, q)
      PROVE  Aside'
  <2>. DEFINE e == Frame(p, q).eid
  <2>1. CASE e \in mig /\ q \in at[e]
    <3>1. Retargeted(q, e, {}) /\ e \in Ents
      BY <1>10, <2>1, Released DEF FinishHandover, Ents
    <3>2. /\ at' = [at EXCEPT ![e] = {}] /\ near' = [near EXCEPT ![e] = {}]
      BY <1>10, <2>1 DEF FinishHandover
    <3>. HIDE DEF e
    <3>. QED  BY <3>1, <3>2 DEF Inv, Typed, Located, Placed, Aside, Retargeted
  <2>2. CASE ~(e \in mig /\ q \in at[e])
    BY <1>10, <2>2 DEF Inv, Aside, FinishHandover
  <2>. QED  BY <2>1, <2>2
<1>11. ASSUME NEW p \in Pods, NEW q \in Pods, p # q, ApplyShadow(p, q)
      PROVE  Aside'
  BY <1>11, ShadowAssumption DEF Inv, Typed, Located, Placed, Recorded, Aside, ApplyShadow, entVars
<1>12. ASSUME NEW p \in Pods, NEW q \in Pods, p # q, ApplyShadowGone(p, q)
      PROVE  Aside'
  BY <1>12, ShadowAssumption DEF Inv, Typed, Located, Placed, Recorded, Aside, ApplyShadowGone, entVars
<1>13. ASSUME NEW p \in Pods, Track(p)
      PROVE  Aside'
  BY <1>13, ShadowAssumption DEF Inv, Typed, Located, Placed, Recorded, Aside, Track, entVars
<1>14. ASSUME NEW p \in Pods, Restart(p)
      PROVE  Aside'
  BY <1>14, ShadowAssumption DEF Inv, Typed, Located, Placed, Recorded, Aside, Restart, entVars
<1>15. ASSUME NEW p \in Pods, NEW q \in Pods, LinkDrop(p, q)
      PROVE  Aside'
  BY <1>15, ShadowAssumption DEF Inv, Typed, Located, Placed, Recorded, Aside, LinkDrop, entVars
<1>16. ASSUME NEW p \in Pods, NEW q \in Pods, LinkUp(p, q)
      PROVE  Aside'
  BY <1>16, ShadowAssumption DEF Inv, Typed, Located, Placed, Recorded, Aside, LinkUp, entVars
<1>17. ASSUME UNCHANGED vars
      PROVE  Aside'
  BY <1>17 DEF Inv, Aside, vars, entVars
<1>. QED
  BY <1>1, <1>2, <1>3, <1>4, <1>5, <1>6, <1>7, <1>8, <1>9, <1>10, <1>11,
     <1>12, <1>13, <1>14, <1>15, <1>16, <1>17 DEF Next, Handle, Directions

\* An id is given out once, and claimed once.
LEMMA OneLifeStep ==
  ASSUME Inv, [Next]_vars
  PROVE  OneLife'
<1>1. ASSUME NEW e \in Ents, NEW p \in Pods, NEW d \in Dims, NEW n \in SUBSET Pods, Appear(e, p, d, n)
      PROVE  OneLife'
  BY <1>1, ShadowAssumption DEF Inv, Typed, Located, Placed, Recorded, OneLife, Ents, Appear
<1>2. ASSUME NEW e \in Ents, NEW d \in Dims, NEW n \in SUBSET Pods, Move(e, d, n)
      PROVE  OneLife'
  BY <1>2 DEF Inv, Typed, Located, Placed, Recorded, OneLife, Move, Untracked
<1>3. ASSUME NEW p \in Pods, NEW e \in Ents, UpdateShadow(p, e)
      PROVE  OneLife'
  BY <1>3 DEF Inv, Typed, Located, Placed, Recorded, OneLife, Ents, UpdateShadow, entVars
<1>4. ASSUME NEW p \in Pods, NEW e \in Ents, Vanish(p, e)
      PROVE  OneLife'
  BY <1>4 DEF Inv, Typed, Located, Placed, Recorded, OneLife, Ents, Vanish, entVars
<1>5. ASSUME NEW p \in Pods, NEW e \in Ents, Convert(p, e)
      PROVE  OneLife'
  BY <1>5 DEF Inv, Typed, Located, Placed, Recorded, OneLife, Ents, Convert, entVars
<1>6. ASSUME NEW p \in Pods, NEW q \in Pods, NEW e \in Ents, Cross(p, e, q)
      PROVE  OneLife'
  BY <1>6 DEF Inv, Typed, Located, Placed, Recorded, OneLife, Ents, Cross, entVars
<1>7. ASSUME NEW q \in Pods, NEW e \in Ents, NEW n \in SUBSET Pods, Resume(e, q, n)
      PROVE  OneLife'
  <2>1. \A r \in told' : r \in told /\ r[1] # e
    BY <1>7 DEF Inv, OneLife, Recorded, Typed, Resume
  <2>2. e \in born
    BY <1>7 DEF Inv, OneLife, Resume
  <2>. QED  BY <1>7, <2>1, <2>2 DEF Inv, Typed, Located, Recorded, OneLife, Resume
<1>8. ASSUME NEW p \in Pods, NEW q \in Pods, p # q, ApplyMigration(p, q)
      PROVE  OneLife'
  BY <1>8 DEF Inv, Typed, Located, Placed, Recorded, OneLife, Ents, ApplyMigration, entVars
<1>9. ASSUME NEW p \in Pods, NEW q \in Pods, p # q, Refused(p, q)
      PROVE  OneLife'
  BY <1>9 DEF Inv, Typed, Located, Placed, Recorded, OneLife, Ents, Refused, entVars
<1>10. ASSUME NEW p \in Pods, NEW q \in Pods, p # q, FinishHandover(p, q)
      PROVE  OneLife'
  <2>. DEFINE e == Frame(p, q).eid
  <2>1. CASE e \in mig /\ q \in at[e]
    <3>1. /\ at' = [at EXCEPT ![e] = {}] /\ told' = told \cup {<<e, p>>}
          /\ tracked' = [tracked EXCEPT ![q] = @ \ {e}] /\ UNCHANGED born
      BY <1>10, <2>1 DEF FinishHandover
    <3>2. e \in Ents
      BY <2>1 DEF Inv, Typed, Recorded, Ents
    <3>. HIDE DEF e
    <3>3. e \in born /\ \A r \in told : r[1] # e
      BY <2>1, <3>2 DEF Inv, OneLife
    <3>. QED  BY <3>1, <3>2, <3>3 DEF Inv, Typed, Located, Recorded, OneLife, Ents
  <2>2. CASE ~(e \in mig /\ q \in at[e])
    BY <1>10, <2>2 DEF Inv, OneLife, FinishHandover
  <2>. QED  BY <2>1, <2>2
<1>11. ASSUME NEW p \in Pods, NEW q \in Pods, p # q, ApplyShadow(p, q)
      PROVE  OneLife'
  BY <1>11 DEF Inv, Typed, Located, Placed, Recorded, OneLife, Ents, ApplyShadow, entVars
<1>12. ASSUME NEW p \in Pods, NEW q \in Pods, p # q, ApplyShadowGone(p, q)
      PROVE  OneLife'
  BY <1>12 DEF Inv, Typed, Recorded, OneLife, ApplyShadowGone, Seen, entVars
<1>13. ASSUME NEW p \in Pods, Track(p)
      PROVE  OneLife'
  BY <1>13 DEF Inv, Typed, Located, Placed, Recorded, OneLife, Ents, Track, entVars
<1>14. ASSUME NEW p \in Pods, Restart(p)
      PROVE  OneLife'
  BY <1>14 DEF Inv, Typed, Located, Placed, Recorded, OneLife, Ents, Restart, entVars
<1>15. ASSUME NEW p \in Pods, NEW q \in Pods, LinkDrop(p, q)
      PROVE  OneLife'
  BY <1>15 DEF Inv, Typed, Located, Placed, Recorded, OneLife, Ents, LinkDrop, entVars
<1>16. ASSUME NEW p \in Pods, NEW q \in Pods, LinkUp(p, q)
      PROVE  OneLife'
  BY <1>16 DEF Inv, Typed, Located, Placed, Recorded, OneLife, Ents, LinkUp, entVars
<1>17. ASSUME UNCHANGED vars
      PROVE  OneLife'
  BY <1>17 DEF Inv, OneLife, vars, entVars
<1>. QED
  BY <1>1, <1>2, <1>3, <1>4, <1>5, <1>6, <1>7, <1>8, <1>9, <1>10, <1>11,
     <1>12, <1>13, <1>14, <1>15, <1>16, <1>17 DEF Next, Handle, Directions

\* What a player has been sent stays in its dimension.
LEMMA SeeingStep ==
  ASSUME Inv, [Next]_vars
  PROVE  Seeing'
<1>1. ASSUME NEW e \in Ents, NEW p \in Pods, NEW d \in Dims, NEW n \in SUBSET Pods, Appear(e, p, d, n)
      PROVE  Seeing'
  BY <1>1 DEF Inv, Typed, Placed, Recorded, OneLife, Seeing, Appear
<1>2. ASSUME NEW e \in Ents, NEW d \in Dims, NEW n \in SUBSET Pods, Move(e, d, n)
      PROVE  Seeing'
  BY <1>2 DEF Inv, Typed, Placed, Recorded, Seeing, Move, Untracked
<1>3. ASSUME NEW p \in Pods, NEW e \in Ents, UpdateShadow(p, e)
      PROVE  Seeing'
  BY <1>3 DEF Inv, Typed, Placed, Recorded, Seeing, UpdateShadow, entVars
<1>4. ASSUME NEW p \in Pods, NEW e \in Ents, Vanish(p, e)
      PROVE  Seeing'
  BY <1>4 DEF Inv, Typed, Placed, Recorded, Seeing, Vanish, entVars
<1>5. ASSUME NEW p \in Pods, NEW e \in Ents, Convert(p, e)
      PROVE  Seeing'
  BY <1>5 DEF Inv, Typed, Placed, Recorded, Seeing, Convert, entVars
<1>6. ASSUME NEW p \in Pods, NEW q \in Pods, NEW e \in Ents, Cross(p, e, q)
      PROVE  Seeing'
  BY <1>6 DEF Inv, Typed, Placed, Recorded, Seeing, Cross, entVars
<1>7. ASSUME NEW q \in Pods, NEW e \in Ents, NEW n \in SUBSET Pods, Resume(e, q, n)
      PROVE  Seeing'
  BY <1>7 DEF Inv, Typed, Placed, Recorded, Seeing, Resume, entVars
<1>8. ASSUME NEW p \in Pods, NEW q \in Pods, p # q, ApplyMigration(p, q)
      PROVE  Seeing'
  BY <1>8 DEF Inv, Typed, Placed, Recorded, Seeing, ApplyMigration, entVars
<1>9. ASSUME NEW p \in Pods, NEW q \in Pods, p # q, Refused(p, q)
      PROVE  Seeing'
  BY <1>9 DEF Inv, Typed, Placed, Recorded, Seeing, Refused, entVars
<1>10. ASSUME NEW p \in Pods, NEW q \in Pods, p # q, FinishHandover(p, q)
      PROVE  Seeing'
  <2>1. tracked' \in {tracked, [tracked EXCEPT ![q] = @ \ {Frame(p, q).eid}]} /\ dim' = dim
    BY <1>10 DEF FinishHandover
  <2>. QED  BY <2>1 DEF Inv, Typed, Recorded, Seeing
<1>11. ASSUME NEW p \in Pods, NEW q \in Pods, p # q, ApplyShadow(p, q)
      PROVE  Seeing'
  BY <1>11 DEF Inv, Typed, Placed, Recorded, Seeing, ApplyShadow, entVars
<1>12. ASSUME NEW p \in Pods, NEW q \in Pods, p # q, ApplyShadowGone(p, q)
      PROVE  Seeing'
  BY <1>12 DEF Inv, Typed, Recorded, Seeing, ApplyShadowGone, Seen, entVars
<1>13. ASSUME NEW p \in Pods, Track(p)
      PROVE  Seeing'
  BY <1>13 DEF Inv, Typed, Placed, Recorded, Seeing, Track, entVars
<1>14. ASSUME NEW p \in Pods, Restart(p)
      PROVE  Seeing'
  BY <1>14 DEF Inv, Typed, Placed, Recorded, Seeing, Restart, entVars
<1>15. ASSUME NEW p \in Pods, NEW q \in Pods, LinkDrop(p, q)
      PROVE  Seeing'
  BY <1>15 DEF Inv, Typed, Placed, Recorded, Seeing, LinkDrop, entVars
<1>16. ASSUME NEW p \in Pods, NEW q \in Pods, LinkUp(p, q)
      PROVE  Seeing'
  BY <1>16 DEF Inv, Typed, Placed, Recorded, Seeing, LinkUp, entVars
<1>17. ASSUME UNCHANGED vars
      PROVE  Seeing'
  BY <1>17 DEF Inv, Seeing, vars, entVars
<1>. QED
  BY <1>1, <1>2, <1>3, <1>4, <1>5, <1>6, <1>7, <1>8, <1>9, <1>10, <1>11,
     <1>12, <1>13, <1>14, <1>15, <1>16, <1>17 DEF Next, Handle, Directions

\* A shadow in flight or shown is retracted, or known to be lost.
LEMMA MirrorStep ==
  ASSUME Inv, [Next]_vars
  PROVE  Followed' /\ NoGhost'
<1>0. Typed' /\ Wires'
  BY TypedStep, WiresStep
<1>1. ASSUME NEW e \in Ents, NEW p \in Pods, NEW d \in Dims, NEW n \in SUBSET Pods, Appear(e, p, d, n)
      PROVE  Followed' /\ NoGhost'
  <2>1. \A r, s \in Pods, x \in Ents : Owes(r, s, x) => Owes(r, s, x)'
    BY <1>1 DEF Owes, Inv, Typed, Located, Recorded, OneLife, Appear, entVars
  <2>2. \A s \in Pods, x \in Ents : mirror'[s][x] \in {mirror[s][x], NoDim}
    BY <1>1 DEF Inv, Typed, Mirrors, Appear
  <2>3. Quiet
    BY <1>1, CrossWires, AnswerWires, Shrunk DEF Quiet, Appear, Inv, Arrives, Frame
  <2>. QED  BY <1>0, <2>1, <2>2, <2>3, Remembered DEF Inv
<1>2. ASSUME NEW e \in Ents, NEW d \in Dims, NEW n \in SUBSET Pods, Move(e, d, n)
      PROVE  Followed' /\ NoGhost'
  <2>1. \A r, s \in Pods, x \in Ents : Owes(r, s, x) => Owes(r, s, x)'
    BY <1>2 DEF Owes, Inv, Typed, Located, Recorded, OneLife, Move, entVars
  <2>2. \A s \in Pods, x \in Ents : mirror'[s][x] \in {mirror[s][x], NoDim}
    BY <1>2 DEF Inv, Typed, Mirrors, Move
  <2>3. Quiet
    BY <1>2, CrossWires, AnswerWires, Shrunk DEF Quiet, Move, Inv, Arrives, Frame
  <2>. QED  BY <1>0, <2>1, <2>2, <2>3, Remembered DEF Inv
<1>3. ASSUME NEW p \in Pods, NEW e \in Ents, UpdateShadow(p, e)
      PROVE  Followed' /\ NoGhost'
  <2>1. Retargeted(p, e, Targets(p, e)) /\ Targets(p, e) \in SUBSET Pods
    BY <1>3, Updated DEF Inv, Typed, Placed, Targets
  <2>2. p \in at[e] /\ mirror' = mirror /\ (\A x \in Ents : x # e \/ Targets(p, e) # {} => at'[x] = at[x])
    BY <1>3 DEF UpdateShadow, Inv, Typed, Located, entVars
  <2>. QED  BY <1>0, <2>1, <2>2, Retold
<1>4. ASSUME NEW p \in Pods, NEW e \in Ents, Vanish(p, e)
      PROVE  Followed' /\ NoGhost'
  <2>1. Retargeted(p, e, {}) /\ {} \in SUBSET Pods
    BY <1>4, Withdrawn DEF Inv, Typed, Placed, Targets
  <2>2. p \in at[e] /\ mirror' = mirror /\ (\A x \in Ents : x # e \/ {} # {} => at'[x] = at[x])
    BY <1>4 DEF Vanish, Inv, Typed, Located, entVars
  <2>. QED  BY <1>0, <2>1, <2>2, Retold
<1>5. ASSUME NEW p \in Pods, NEW e \in Ents, Convert(p, e)
      PROVE  Followed' /\ NoGhost'
  <2>1. \A r, s \in Pods, x \in Ents : Owes(r, s, x) => Owes(r, s, x)'
    BY <1>5 DEF Owes, Inv, Typed, Located, Recorded, OneLife, Convert, entVars
  <2>2. \A s \in Pods, x \in Ents : mirror'[s][x] \in {mirror[s][x], NoDim}
    BY <1>5 DEF Inv, Typed, Mirrors, Convert
  <2>3. Quiet
    BY <1>5, CrossWires, AnswerWires, Shrunk DEF Quiet, Convert, Inv, Arrives, Frame
  <2>. QED  BY <1>0, <2>1, <2>2, <2>3, Remembered DEF Inv
<1>6. ASSUME NEW p \in Pods, NEW q \in Pods, NEW e \in Ents, Cross(p, e, q)
      PROVE  Followed' /\ NoGhost'
  <2>1. \A r, s \in Pods, x \in Ents : Owes(r, s, x) => Owes(r, s, x)'
    BY <1>6 DEF Owes, Inv, Typed, Located, Recorded, OneLife, Cross, entVars
  <2>2. \A s \in Pods, x \in Ents : mirror'[s][x] \in {mirror[s][x], NoDim}
    BY <1>6 DEF Inv, Typed, Mirrors, Cross
  <2>3. Quiet
    BY <1>6, CrossWires, AnswerWires, Shrunk DEF Quiet, Cross, Inv, Arrives, Frame
  <2>. QED  BY <1>0, <2>1, <2>2, <2>3, Remembered DEF Inv
<1>7. ASSUME NEW q \in Pods, NEW e \in Ents, NEW n \in SUBSET Pods, Resume(e, q, n)
      PROVE  Followed' /\ NoGhost'
  <2>1. \A r, s \in Pods, x \in Ents : Owes(r, s, x) => Owes(r, s, x)'
    BY <1>7 DEF Owes, Inv, Typed, Located, Recorded, OneLife, Resume, entVars
  <2>2. \A s \in Pods, x \in Ents : mirror'[s][x] \in {mirror[s][x], NoDim}
    BY <1>7 DEF Inv, Typed, Mirrors, Resume
  <2>3. Quiet
    BY <1>7, CrossWires, AnswerWires, Shrunk DEF Quiet, Resume, Inv, Arrives, Frame
  <2>. QED  BY <1>0, <2>1, <2>2, <2>3, Remembered DEF Inv
<1>8. ASSUME NEW p \in Pods, NEW q \in Pods, p # q, ApplyMigration(p, q)
      PROVE  Followed' /\ NoGhost'
  <2>1. \A r, s \in Pods, x \in Ents : Owes(r, s, x) => Owes(r, s, x)'
    BY <1>8 DEF Owes, Inv, Typed, Located, Recorded, OneLife, ApplyMigration, entVars
  <2>2. \A s \in Pods, x \in Ents : mirror'[s][x] \in {mirror[s][x], NoDim}
    BY <1>8 DEF Inv, Typed, Mirrors, ApplyMigration
  <2>3. Quiet
    BY <1>8, CrossWires, AnswerWires, Shrunk DEF Quiet, ApplyMigration, Inv, Arrives, Frame
  <2>. QED  BY <1>0, <2>1, <2>2, <2>3, Remembered DEF Inv
<1>9. ASSUME NEW p \in Pods, NEW q \in Pods, p # q, Refused(p, q)
      PROVE  Followed' /\ NoGhost'
  <2>1. \A r, s \in Pods, x \in Ents : Owes(r, s, x) => Owes(r, s, x)'
    BY <1>9 DEF Owes, Inv, Typed, Located, Recorded, OneLife, Refused, entVars
  <2>2. \A s \in Pods, x \in Ents : mirror'[s][x] \in {mirror[s][x], NoDim}
    BY <1>9 DEF Inv, Typed, Mirrors, Refused
  <2>3. Quiet
    BY <1>9, CrossWires, AnswerWires, Shrunk DEF Quiet, Refused, Inv, Arrives, Frame
  <2>. QED  BY <1>0, <2>1, <2>2, <2>3, Remembered DEF Inv
<1>10. ASSUME NEW p \in Pods, NEW q \in Pods, p # q, FinishHandover(p, q)
      PROVE  Followed' /\ NoGhost'
  <2>. DEFINE e == Frame(p, q).eid
  <2>1. CASE e \in mig /\ q \in at[e]
    <3>1. Retargeted(q, e, {}) /\ e \in Ents
      BY <1>10, <2>1, Released DEF FinishHandover, Ents
    <3>2. mirror' = mirror /\ \A x \in Ents : x # e => at'[x] = at[x]
      BY <1>10, <2>1 DEF FinishHandover, Inv, Typed, Located
    <3>. HIDE DEF e
    <3>. QED  BY <1>10, <1>0, <2>1, <3>1, <3>2, Retold
  <2>2. CASE ~(e \in mig /\ q \in at[e])
    <3>1. wire' = Taken(p, q) /\ UNCHANGED <<at, out, forgotten, mirror>>
      BY <1>10, <2>2 DEF FinishHandover
    <3>2. Quiet
      BY <1>10, <3>1, Shrunk DEF FinishHandover, Inv, Arrives, Frame
    <3>3. \A r, s \in Pods, x \in Ents : Owes(r, s, x) => Owes(r, s, x)'
      BY <3>1 DEF Owes
    <3>. QED  BY <1>0, <3>1, <3>2, <3>3, Remembered DEF Inv
  <2>. QED  BY <2>1, <2>2
<1>11. ASSUME NEW p \in Pods, NEW q \in Pods, p # q, ApplyShadow(p, q)
      PROVE  Followed' /\ NoGhost'
  <2>. DEFINE f == Frame(p, q)
              l == <<p, q>>
  <2>1. /\ l \in Directions /\ wire[l] \in Seq(Frames) /\ wire[l] # <<>>
        /\ f = Head(wire[l]) /\ f.typ = "shadow" /\ f \in Frames
        /\ wire' = Taken(p, q) /\ wire'[l] = Tail(wire[l])
    <3>1. wire' = Taken(p, q) /\ wire[l] # <<>> /\ f = Head(wire[l]) /\ f.typ = "shadow"
      BY <1>11 DEF ApplyShadow, Arrives, Frame
    <3>2. l \in Directions /\ wire[l] \in Seq(Frames)
      BY <1>11 DEF Inv, Wires, WireSet, Directions
    <3>. QED  BY <1>11, <3>1, <3>2, TakenType DEF Inv
  <2>2. f.eid \in Ents /\ f.eid \in Shown(wire[l]) \cup Retracted(wire'[l])
    BY <2>1, Behead DEF Frames
  <2>3. Quiet
    BY <1>11, <2>1, Shrunk DEF Inv
  <2>4. \A r, s \in Pods, x \in Ents : Owes(r, s, x) => Owes(r, s, x)'
    BY <1>11 DEF Owes, ApplyShadow, entVars
  <2>5. \A s \in Pods, x \in Ents : <<s, x>> # <<q, f.eid>> => mirror'[s][x] = mirror[s][x]
    BY <1>11 DEF ApplyShadow, Inv, Typed, Mirrors
  <2>. HIDE DEF f
  <2>6. Followed'
    <3>1. ASSUME NEW k \in Directions, NEW x \in Shown(wire'[k]) PROVE Owes(k[1], k[2], x)'
      <4>1. k[1] \in Pods /\ k[2] \in Pods /\ wire[k] \in Seq(Frames) /\ x \in Shown(wire[k])
        BY <2>3, <3>1 DEF Directions, Inv, Wires, WireSet, Quiet
      <4>2. x \in Ents
        BY <4>1, EntsOnly
      <4>. QED  BY <2>4, <4>1, <4>2 DEF Inv, Followed
    <3>. QED  BY <3>1 DEF Followed
  <2>7. ASSUME NEW s \in Pods, NEW x \in Ents, mirror'[s][x] # NoDim
        PROVE  (Answered(s, x) \/ Retracting(s, x) \/ <<s, x>> \in forgotten)'
    <3>1. CASE \E r \in Pods : Owes(r, s, x)
      BY <1>0, <2>4, <3>1 DEF Typed, Located, Owes, Answered
    <3>2. CASE Retracting(s, x)
      BY <2>3, <3>2 DEF Retracting, Directions, Quiet
    <3>3. CASE <<s, x>> # <<q, f.eid>>
      <4>1. Answered(s, x) \/ Retracting(s, x) \/ <<s, x>> \in forgotten
        BY <2>5, <2>7, <3>3 DEF Inv, NoGhost
      <4>. QED  BY <3>1, <3>2, <4>1, Listed DEF Inv
    <3>4. CASE <<s, x>> = <<q, f.eid>> /\ x \in Shown(wire[l])
      BY <2>1, <3>1, <3>4 DEF Inv, Followed
    <3>5. CASE <<s, x>> = <<q, f.eid>> /\ x \in Retracted(wire'[l])
      BY <1>11, <3>5 DEF Retracting
    <3>. QED  BY <2>2, <3>3, <3>4, <3>5
  <2>. QED  BY <2>6, <2>7 DEF NoGhost
<1>12. ASSUME NEW p \in Pods, NEW q \in Pods, p # q, ApplyShadowGone(p, q)
      PROVE  Followed' /\ NoGhost'
  <2>. DEFINE f == Frame(p, q)
              l == <<p, q>>
  <2>1. /\ l \in Directions /\ wire[l] \in Seq(Frames) /\ wire[l] # <<>>
        /\ f = Head(wire[l]) /\ f.typ = "gone" /\ f \in Frames
        /\ wire'[l] = Tail(wire[l]) /\ \A k \in Directions : k # l => wire'[k] = wire[k]
    <3>1. wire' = Taken(p, q) /\ wire[l] # <<>> /\ f = Head(wire[l]) /\ f.typ = "gone"
      BY <1>12 DEF ApplyShadowGone, Arrives, Frame
    <3>2. l \in Directions /\ wire[l] \in Seq(Frames)
      BY <1>12 DEF Inv, Wires, WireSet, Directions
    <3>. QED  BY <1>12, <3>1, <3>2, TakenType DEF Inv
  <2>2. /\ f.eid \in Ents
        /\ Retracted(wire[l]) \subseteq Retracted(wire'[l]) \cup {f.eid}
        /\ Shown(wire'[l]) \subseteq Shown(wire[l])
    BY <2>1, Behead DEF Frames
  <2>3. \A r, s \in Pods, x \in Ents : Owes(r, s, x) => Owes(r, s, x)'
    BY <1>12 DEF Owes, ApplyShadowGone, entVars
  <2>4. \A s \in Pods, x \in Ents : mirror'[s][x] = IF s = q /\ x = f.eid THEN NoDim ELSE mirror[s][x]
    BY <1>12, <2>2 DEF ApplyShadowGone, Inv, Typed, Mirrors
  <2>. HIDE DEF f
  <2>5. Followed'
    <3>1. ASSUME NEW k \in Directions, NEW x \in Shown(wire'[k]) PROVE Owes(k[1], k[2], x)'
      <4>1. k[1] \in Pods /\ k[2] \in Pods /\ wire[k] \in Seq(Frames) /\ x \in Shown(wire[k])
        BY <2>1, <2>2, <3>1 DEF Directions, Inv, Wires, WireSet
      <4>2. x \in Ents
        BY <4>1, EntsOnly
      <4>. QED  BY <2>3, <4>1, <4>2 DEF Inv, Followed
    <3>. QED  BY <3>1 DEF Followed
  <2>6. ASSUME NEW s \in Pods, NEW x \in Ents, mirror'[s][x] # NoDim
        PROVE  (Answered(s, x) \/ Retracting(s, x) \/ <<s, x>> \in forgotten)'
    <3>1. ~(s = q /\ x = f.eid) /\ mirror[s][x] # NoDim
      BY <2>4, <2>6
    <3>2. Answered(s, x) \/ Retracting(s, x) \/ <<s, x>> \in forgotten
      BY <3>1 DEF Inv, NoGhost
    <3>3. CASE \E r \in Pods : Owes(r, s, x)
      BY <1>0, <2>3, <3>3 DEF Typed, Located, Owes, Answered
    <3>4. CASE Retracting(s, x)
      <4>1. PICK r \in Pods \ {s} : x \in Retracted(wire[<<r, s>>])
        BY <3>4 DEF Retracting
      <4>2. x \in Retracted(wire'[<<r, s>>])
        BY <2>1, <2>2, <3>1, <4>1 DEF Directions
      <4>. QED  BY <4>1, <4>2 DEF Retracting
    <3>. QED  BY <3>2, <3>3, <3>4, Listed DEF Inv
  <2>. QED  BY <2>5, <2>6 DEF NoGhost
<1>13. ASSUME NEW p \in Pods, Track(p)
      PROVE  Followed' /\ NoGhost'
  <2>1. \A r, s \in Pods, x \in Ents : Owes(r, s, x) => Owes(r, s, x)'
    BY <1>13 DEF Owes, Inv, Typed, Located, Recorded, OneLife, Track, entVars
  <2>2. \A s \in Pods, x \in Ents : mirror'[s][x] \in {mirror[s][x], NoDim}
    BY <1>13 DEF Inv, Typed, Mirrors, Track
  <2>3. Quiet
    BY <1>13, CrossWires, AnswerWires, Shrunk DEF Quiet, Track, Inv, Arrives, Frame
  <2>. QED  BY <1>0, <2>1, <2>2, <2>3, Remembered DEF Inv
<1>14. ASSUME NEW p \in Pods, Restart(p)
      PROVE  Followed' /\ NoGhost'
  <2>. DEFINE D == {l \in Directions : p \in {l[1], l[2]}}
  <2>1. PICK kept \in [D -> 0..MaxWire] :
          /\ Keeps(kept)
          /\ forgotten' = forgotten \cup Unheard(kept) \cup {m \in Pods \X Ents : m[1] \in out[p][m[2]]}
    BY <1>14 DEF Restart
  <2>2. ASSUME NEW r \in Pods, NEW s \in Pods, NEW x \in Ents, Owes(r, s, x)
        PROVE  Owes(r, s, x)'
    <3>1. CASE <<s, x>> \in forgotten
      BY <2>1, <3>1 DEF Owes
    <3>2. CASE r = p /\ s \in out[r][x]
      <4>1. <<s, x>> \in {m \in Pods \X Ents : m[1] \in out[p][m[2]]}
        BY <3>2
      <4>. QED  BY <2>1, <4>1 DEF Owes
    <3>3. CASE r # p /\ r \in at[x] /\ s \in out[r][x]
      BY <1>14, <3>3 DEF Owes, Restart, Inv, Typed, Recorded
    <3>. QED  BY <2>2, <3>1, <3>2, <3>3 DEF Owes
  <2>3. \A s \in Pods, x \in Ents : mirror'[s][x] \in {mirror[s][x], NoDim}
    BY <1>14 DEF Inv, Typed, Mirrors, Restart
  <2>4. Unheard(kept) \subseteq forgotten'
    BY <2>1
  <2>. QED  BY <1>0, <2>1, <2>2, <2>3, <2>4, Severed
<1>15. ASSUME NEW p \in Pods, NEW q \in Pods, LinkDrop(p, q)
      PROVE  Followed' /\ NoGhost'
  <2>1. PICK kept \in [{<<p, q>>, <<q, p>>} -> 0..MaxWire] :
          Keeps(kept) /\ forgotten' = forgotten \cup Unheard(kept)
    BY <1>15 DEF LinkDrop
  <2>2. \A r, s \in Pods, x \in Ents : Owes(r, s, x) => Owes(r, s, x)'
    BY <1>15, <2>1 DEF Owes, LinkDrop, entVars
  <2>3. \A s \in Pods, x \in Ents : mirror'[s][x] \in {mirror[s][x], NoDim}
    BY <1>15 DEF LinkDrop
  <2>4. Unheard(kept) \subseteq forgotten'
    BY <2>1
  <2>. QED  BY <1>0, <2>1, <2>2, <2>3, <2>4, Severed
<1>16. ASSUME NEW p \in Pods, NEW q \in Pods, LinkUp(p, q)
      PROVE  Followed' /\ NoGhost'
  <2>1. \A r, s \in Pods, x \in Ents : Owes(r, s, x) => Owes(r, s, x)'
    BY <1>16 DEF Owes, Inv, Typed, Located, Recorded, OneLife, LinkUp, entVars
  <2>2. \A s \in Pods, x \in Ents : mirror'[s][x] \in {mirror[s][x], NoDim}
    BY <1>16 DEF Inv, Typed, Mirrors, LinkUp
  <2>3. Quiet
    BY <1>16, CrossWires, AnswerWires, Shrunk DEF Quiet, LinkUp, Inv, Arrives, Frame
  <2>. QED  BY <1>0, <2>1, <2>2, <2>3, Remembered DEF Inv
<1>17. ASSUME UNCHANGED vars
      PROVE  Followed' /\ NoGhost'
  <2>1. \A p, q \in Pods, e \in Ents : Owes(p, q, e) => Owes(p, q, e)'
    BY <1>17 DEF Owes, vars, entVars
  <2>. QED  BY <1>17, <1>0, <2>1, Remembered DEF Inv, Quiet, vars
<1>. QED
  BY <1>1, <1>2, <1>3, <1>4, <1>5, <1>6, <1>7, <1>8, <1>9, <1>10, <1>11,
     <1>12, <1>13, <1>14, <1>15, <1>16, <1>17 DEF Next, Handle, Directions

-----------------------------------------------------------------------------
(* The invariant, and what follows from it.                                *)

\* The invariant holds of a program that has just started.
LEMMA InitInv == Init => Inv
<1>. SUFFICES ASSUME Init PROVE Inv
  OBVIOUS
<1>1. Typed
  BY ShadowAssumption DEF Init, Typed, Located, Placed, Recorded, Mirrors, Directions
<1>2. \A l \in Directions : wire[l] = <<>> /\ wire[l] \in Seq(Frames) /\ Len(wire[l]) = 0 /\ DOMAIN wire[l] = {}
  BY DEF Init
<1>3. Wires /\ Fits
  BY <1>2, ShadowAssumption DEF Init, Wires, WireSet, Fits
<1>4. Aside /\ OneLife /\ Seeing
  BY DEF Init, Aside, OneLife, Seeing, Ents
<1>5. Followed
  BY <1>2 DEF Followed, Shown
<1>6. NoGhost
  BY DEF Init, NoGhost
<1>. QED  BY <1>1, <1>3, <1>4, <1>5, <1>6 DEF Inv

\* And it stays: the invariant is inductive.
LEMMA Invariance == Spec => []Inv
<1>1. Inv /\ [Next]_vars => Inv'
  BY WiresStep, TypedStep, AsideStep, OneLifeStep, SeeingStep, MirrorStep DEF Inv
<1>. QED  BY <1>1, InitInv, PTL DEF Spec

\* The type invariant, with the bound of the sockets and one owner for each
\* entity, in every configuration.
THEOREM TypeAlways == Spec => []TypeOK
<1>1. Inv => TypeOK
  <2>. SUFFICES ASSUME Inv PROVE TypeOK
    OBVIOUS
  <2>1. \A e \in Ents : Cardinality(at[e]) <= 1
    <3>1. \A e \in Ents : at[e] = {} \/ \E p \in Pods : at[e] = {p}
      BY DEF Inv, Typed, Located
    <3>2. Cardinality({}) = 0 /\ \A p \in Pods : Cardinality({p}) = 1
      BY FS_EmptySet, FS_Singleton
    <3>. QED  BY <3>1, <3>2
  <2>2. \A l \in Directions : \A i \in DOMAIN wire[l] : wire[l][i] \in Frames
    BY DEF Inv, Wires, WireSet
  <2>. QED  BY <2>1, <2>2 DEF TypeOK, Inv, Typed, Located, Placed, Recorded, Mirrors, Fits
<1>. QED  BY <1>1, Invariance, PTL

\* A mirror never outlives its original unannounced: whoever shows one is on
\* the list of the pod that simulates the original, or has a ShadowGone coming,
\* through any crossings, restarts and drops, but for the losses the history
\* names.
THEOREM NoGhostAlways == Spec => []NoGhost
<1>1. Inv => NoGhost
  BY DEF Inv
<1>. QED  BY <1>1, Invariance, PTL

\* What RealStays says of a step.
RealStep ==
    \A q \in Pods : \A e \in tracked[q] :
        q \in at[e] /\ q \in at'[e] /\ dim'[e] = dim[e] => e \in tracked'[q]

\* No step of an event or a fault hides who is real.
LEMMA RealOnStep ==
  ASSUME Inv, [Next]_vars
  PROVE  RealStep
<1>1. ASSUME NEW e \in Ents, NEW p \in Pods, NEW d \in Dims, NEW n \in SUBSET Pods, Appear(e, p, d, n)
      PROVE  RealStep
  BY <1>1 DEF Inv, Typed, Located, Recorded, RealStep, Appear, entVars
<1>2. ASSUME NEW e \in Ents, NEW d \in Dims, NEW n \in SUBSET Pods, Move(e, d, n)
      PROVE  RealStep
  BY <1>2 DEF Inv, Typed, Placed, Recorded, RealStep, Move, Untracked
<1>3. ASSUME NEW p \in Pods, NEW e \in Ents, UpdateShadow(p, e)
      PROVE  RealStep
  BY <1>3 DEF Inv, Typed, Located, Recorded, RealStep, UpdateShadow, entVars
<1>4. ASSUME NEW p \in Pods, NEW e \in Ents, Vanish(p, e)
      PROVE  RealStep
  BY <1>4 DEF Inv, Typed, Located, Recorded, RealStep, Vanish
<1>5. ASSUME NEW p \in Pods, NEW e \in Ents, Convert(p, e)
      PROVE  RealStep
  BY <1>5 DEF Inv, Typed, Located, Recorded, RealStep, Convert, entVars
<1>6. ASSUME NEW p \in Pods, NEW q \in Pods, NEW e \in Ents, Cross(p, e, q)
      PROVE  RealStep
  BY <1>6 DEF Inv, Typed, Located, Recorded, RealStep, Cross, entVars
<1>7. ASSUME NEW q \in Pods, NEW e \in Ents, NEW n \in SUBSET Pods, Resume(e, q, n)
      PROVE  RealStep
  BY <1>7 DEF Inv, Typed, Located, Recorded, RealStep, Resume, entVars
<1>8. ASSUME NEW p \in Pods, NEW q \in Pods, p # q, ApplyMigration(p, q)
      PROVE  RealStep
  BY <1>8 DEF Inv, Typed, Located, Recorded, RealStep, ApplyMigration, entVars
<1>9. ASSUME NEW p \in Pods, NEW q \in Pods, p # q, Refused(p, q)
      PROVE  RealStep
  BY <1>9 DEF Inv, Typed, Located, Recorded, RealStep, Refused, entVars
<1>10. ASSUME NEW p \in Pods, NEW q \in Pods, p # q, FinishHandover(p, q)
      PROVE  RealStep
  <2>1. CASE tracked' = tracked
    BY <2>1 DEF RealStep
  <2>2. CASE at' = [at EXCEPT ![Frame(p, q).eid] = {}] /\ tracked' = [tracked EXCEPT ![q] = @ \ {Frame(p, q).eid}]
    BY <2>2 DEF Inv, Typed, Located, Recorded, RealStep
  <2>. QED  BY <1>10, <2>1, <2>2 DEF FinishHandover
<1>11. ASSUME NEW p \in Pods, NEW q \in Pods, p # q, ApplyShadow(p, q)
      PROVE  RealStep
  BY <1>11 DEF Inv, Typed, Located, Recorded, RealStep, ApplyShadow, entVars
<1>12. ASSUME NEW p \in Pods, NEW q \in Pods, p # q, ApplyShadowGone(p, q)
      PROVE  RealStep
  BY <1>12 DEF Inv, Typed, Recorded, RealStep, ApplyShadowGone, Seen, entVars
<1>13. ASSUME NEW p \in Pods, Track(p)
      PROVE  RealStep
  BY <1>13 DEF Inv, Typed, Recorded, Seeing, RealStep, Track, entVars
<1>14. ASSUME NEW p \in Pods, Restart(p)
      PROVE  RealStep
  BY <1>14 DEF Inv, Typed, Located, Recorded, RealStep, Restart, entVars
<1>15. ASSUME NEW p \in Pods, NEW q \in Pods, LinkDrop(p, q)
      PROVE  RealStep
  BY <1>15 DEF Inv, Typed, Located, Recorded, RealStep, LinkDrop, entVars
<1>16. ASSUME NEW p \in Pods, NEW q \in Pods, LinkUp(p, q)
      PROVE  RealStep
  BY <1>16 DEF Inv, Typed, Located, Recorded, RealStep, LinkUp, entVars
<1>17. ASSUME UNCHANGED vars
      PROVE  RealStep
  BY <1>17 DEF vars, RealStep
<1>. QED
  BY <1>1, <1>2, <1>3, <1>4, <1>5, <1>6, <1>7, <1>8, <1>9, <1>10, <1>11,
     <1>12, <1>13, <1>14, <1>15, <1>16, <1>17 DEF Next, Handle, Directions

\* The end of a mirror, or anything else, never takes an entity that stays in
\* a pod and its dimension off the screens of that pod.
THEOREM RealStaysAlways == Spec => RealStays
<1>1. Inv /\ [Next]_vars => [RealStep]_vars
  BY RealOnStep
<1>. QED  BY <1>1, Invariance, PTL DEF Spec, RealStays, RealStep
=============================================================================
