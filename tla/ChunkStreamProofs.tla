------------------------- MODULE ChunkStreamProofs -------------------------
(***************************************************************************)
(* Proofs about the streaming of chunks, for every world, radius, number   *)
(* of workers and bound: what the variables hold, that no chunk the reader *)
(* counts as sent is lost, that a chunk of the hub's record is with the    *)
(* client, that a block the client shows is current, and that one Want     *)
(* loses nothing to a full backlog.                                        *)
(*                                                                         *)
(* The argument: the frame queue and the session's queue are read as one   *)
(* line of frames (Line), to which a step adds one frame somewhere or from *)
(* which it takes the first.  What the client is told is then a matter of  *)
(* the order on that line: a newer state behind an older one, a respawn    *)
(* before what belongs to the dimension it leads to (Switches), and a      *)
(* reconfiguration that is in one place at a time (Staged).                *)
(***************************************************************************)
EXTENDS ChunkStream, TLAPS, FiniteSetTheorems, SequenceTheorems

-----------------------------------------------------------------------------
(* The inductive invariant.                                                *)

\* The frames on their way to the client: the ones for the writer, and behind
\* them what the session's queue will add.
Line == out \o feed

Messages == [kind : {"want", "entered", "refresh", "configured"}, cc : Chunks]
Events   == [kind : {"block", "move", "dim", "join"}, cc : Chunks, n : Edited]

\* L tells of no change that has not been made to E.
Made(L, E) == \A i \in 1 .. Len(L) :
    L[i].kind \in {"block", "chunk"} => L[i].n <= E[L[i].cc]

\* What the variables hold, the world's and the hub's first.
WorldTyped ==
    /\ edits \in [Chunks -> Edited]
    /\ \A e \in posting : e \in Frames /\ e.kind = "block" /\ e.n <= edits[e.cc]
    /\ hubQueue \in Seq(Events) /\ Made(hubQueue, edits)
LineTyped ==
    /\ feed \in Seq(Frames) /\ Made(feed, edits)
    /\ \A i \in 1 .. Len(feed) : feed[i].kind \in {"block", "respawn", "config"}
    /\ out \in Seq(Frames) /\ Len(out) <= OutCap /\ Made(out, edits)
PlacesTyped ==
    /\ player \in [in : BOOLEAN, at : Chunks, session : Chunks]
    /\ view \in [known : BOOLEAN, at : Chunks, sent : SUBSET Chunks]
    /\ client \in [at : Chunks, configuring : BOOLEAN]
RecordsTyped ==
    /\ sent \subseteq Chunks /\ refused \subseteq Chunks
    /\ backlog \in Seq(Chunks) /\ Len(backlog) <= Capacity
    /\ failed \subseteq Chunks /\ stale \subseteq Chunks /\ late \subseteq Chunks
JobsTyped ==
    /\ job \in [Workers -> Jobs]
    /\ \A w \in Workers : job[w].step = "built" => job[w].n <= edits[job[w].cc]
ClientTyped ==
    /\ toServer \in Seq(Messages)
    /\ held \in [Chunks -> Edited \cup {None, Foreign}]

TypeInv ==
    WorldTyped /\ LineTyped /\ PlacesTyped /\ RecordsTyped /\ JobsTyped /\ ClientTyped

Only(L, K)  == \A i \in 1 .. Len(L) : L[i].kind \in K
Holds(L, k) == \E i \in 1 .. Len(L) : L[i].kind = k

\* Frames after which the client is elsewhere.
Placing(f) == f.kind \in {"respawn", "rejoin"}

\* D says in which dimension a client is before and behind each frame of L, if
\* it starts in d: it ends in e, every respawn is to another dimension than the
\* client's, and a block that comes in another dimension than its own is one
\* of S there.
Leads(D, L, d, e, S) ==
    /\ D[0] = d /\ D[Len(L)] = e
    /\ \A i \in 1 .. Len(L) :
          /\ D[i] = IF Placing(L[i]) THEN L[i].cc[1] ELSE D[i - 1]
          /\ L[i].kind = "respawn" => L[i].cc[1] # D[i - 1]
          /\ L[i].kind = "block" =>
                L[i].cc[1] = D[i - 1] \/ <<D[i - 1], L[i].cc[2]>> \in S

Paths(n) == [0 .. n -> Dims]

\* The line takes the client from where it is to where the session has it.
Switches == \E D \in Paths(Len(Line)) :
    Leads(D, Line, client.at[1], player.session[1], stale)

\* A reconfiguration is in one place at a time: a frame that sends the client
\* to its configuration, the client's answer, and then an event for the hub
\* with, if the client has not come to it, a frame that lets the client back.
Asks    == Holds(toServer, "configured")
Joins   == Holds(hubQueue, "join")
Rejoins == Holds(Line, "rejoin")

Leaving == \A i \in 1 .. Len(Line) : Line[i].kind = "config" =>
    /\ ~player.in /\ ~Asks /\ ~Joins
    /\ \A j \in (i + 1) .. Len(Line) : Line[j].kind = "chunk"
Answering == Asks =>
    /\ ~player.in /\ ~Joins /\ client.configuring /\ Only(Line, {"chunk"})
    /\ \A i \in 1 .. (Len(toServer) - 1) : toServer[i].kind # "configured"
OneJoin(q) == \A i, j \in 1 .. Len(q) : q[i].kind = "join" /\ q[j].kind = "join" => i = j
Joining == Joins => ~player.in /\ Only(Line, {"chunk", "rejoin"}) /\ OneJoin(hubQueue)
Returning == \A i \in 1 .. Len(Line) : Line[i].kind = "rejoin" =>
    /\ client.configuring /\ toServer = <<>>
    /\ \A j \in 1 .. (i - 1) : Line[j].kind = "chunk"
Away == client.configuring => Asks \/ Rejoins

Staged == Leaving /\ Answering /\ Joining /\ Returning /\ Away

\* The client is where its last Want says, or the last one the reader has read.
Located ==
    \/ Only(toServer, {"configured"}) /\ client.at = view.at
    \/ \E i \in 1 .. Len(toServer) :
          /\ toServer[i].kind # "configured" /\ toServer[i].cc = client.at
          /\ \A j \in (i + 1) .. Len(toServer) : toServer[j].kind = "configured"

Near(cc) == Within(cc, view.at, Radius + Margin)
AtWork(w) == job[w].step \in {"taken", "built", "written"}

\* Both records, and what will be added to them, are of the window of the last
\* Want.
RecordsNear ==
    /\ \A cc \in sent : Near(cc)
    /\ \A cc \in view.sent : Near(cc) \/ cc \in late
    /\ \A w \in Workers : AtWork(w) => Near(job[w].cc) \/ job[w].forgotten
\* Nothing is left of them when the client has yet to be let back.
Cleared == Rejoins =>
    /\ sent = {} /\ view.sent \subseteq late
    /\ \A w \in Workers : AtWork(w) => job[w].forgotten
HeldNear == \A cc \in Chunks :
    held[cc] # None => Within(cc, client.at, Radius + ClientMargin)

\* The line carries a chunk; it will make both records forget everything; the
\* client's frames will make them forget a chunk.
Carries(L, cc) == \E i \in 1 .. Len(L) : L[i].kind = "chunk" /\ L[i].cc = cc
Sends(L)      == \E i \in 1 .. Len(L) : L[i].kind \in {"config", "respawn"}
Forgets(q, cc) == \E i \in 1 .. Len(q) :
    q[i].kind = "configured" \/ ~Within(cc, q[i].cc, Radius + Margin)

\* The client has a chunk, or will have it, or will make both records forget it.
Given(cc)  == held[cc] # None \/ Carries(Line, cc) \/ Sends(Line) \/ Forgets(toServer, cc)
Coming(cc) == \/ \E i \in 1 .. Len(backlog) : backlog[i] = cc
              \/ \E w \in Workers : job[w].step \in {"taken", "built"} /\ job[w].cc = cc

\* What the records name is given, or on its way to be.
Served ==
    /\ \A cc \in sent : Given(cc) \/ Coming(cc) \/ cc \in failed
    /\ \A cc \in view.sent : Given(cc) \/ cc \in late
    /\ \A w \in Workers : \A cc \in Chunks :
          job[w].step = "written" /\ job[w].cc = cc => Given(cc) \/ job[w].forgotten

\* The chunks whose last change it does not matter to miss, or whose update has
\* not come to the hub.
Settled == {cc \in Chunks :
    cc \in stale \/ Block(cc, edits[cc]) \in posting \cup Range(hubQueue)}

\* Frame f is in L from place i on.
Later(f, L, i) == \E j \in i .. Len(L) : L[j] = f

\* Changed as E says and with the chunks of S settled: state n of a chunk is the
\* last, or the last is in L from place i on; and so for every state in L.
Followed(cc, n, L, i, E, S) == n = E[cc] \/ cc \in S \/ Later(Block(cc, E[cc]), L, i)
InOrder(L, E, S) == \A i \in 1 .. Len(L) :
    L[i].kind \in {"block", "chunk"} => Followed(L[i].cc, L[i].n, L, i + 1, E, S)

\* What the line, the workers and the client have of a chunk is followed by
\* the last state.
Fresh ==
    /\ InOrder(Line, edits, Settled)
    /\ \A w \in Workers : job[w].step = "built" =>
          Followed(job[w].cc, job[w].n, feed, 1, edits, Settled)
    /\ \A cc \in Chunks : held[cc] # None =>
          Followed(cc, held[cc], Line, 1, edits, Settled)

StreamInv == closing.done \/ (Switches /\ Staged /\ Located /\ RecordsNear /\ Cleared /\ HeldNear
                                /\ Served /\ Fresh)

-----------------------------------------------------------------------------
(* Windows, and the order in which they are asked for.                     *)

\* Distances are natural numbers, and a chunk is near the place it is at.
LEMMA Distances ==
  ASSUME NEW a \in Int, NEW b \in Int
  PROVE  Dist(a, b) \in Nat /\ (Dist(a, b) = 0 <=> a = b)
BY DEF Dist

\* A window has no more chunks than its diameter.
LEMMA WindowSize ==
  ASSUME NEW at \in Chunks, NEW r \in Nat
  PROVE  IsFiniteSet(Around(at, r)) /\ Cardinality(Around(at, r)) <= 2 * r + 1
<1>. DEFINE W == Around(at, r)
            I == (at[2] - r) .. (at[2] + r)
            f == [cc \in W |-> cc[2]]
<1>1. at[2] \in Int
  BY StreamAssumption DEF Chunks
<1>2. \A cc \in W : cc \in Chunks /\ cc[2] \in I /\ cc[1] = at[1]
  <2>1. ASSUME NEW cc \in W PROVE cc \in Chunks /\ cc[2] \in I /\ cc[1] = at[1]
    <3>1. cc \in Chunks /\ cc[1] = at[1] /\ Dist(cc[2], at[2]) <= r
      BY DEF Around, Within
    <3>2. cc[2] \in Int
      BY <3>1, StreamAssumption DEF Chunks
    <3>. QED  BY <1>1, <3>1, <3>2 DEF Dist
  <2>. QED  BY <2>1
<1>3. f \in Injection(W, I)
  <2>1. f \in [W -> I]
    BY <1>2
  <2>2. ASSUME NEW a \in W, NEW b \in W, f[a] = f[b] PROVE a = b
    BY <1>2, <2>2 DEF Chunks
  <2>. QED  BY <2>1, <2>2 DEF Injection, IsInjective
<1>4. IsFiniteSet(I) /\ Cardinality(I) = 2 * r + 1
  <2>1. /\ at[2] - r \in Int /\ at[2] + r \in Int /\ ~(at[2] - r > at[2] + r)
        /\ (at[2] + r) - (at[2] - r) + 1 = 2 * r + 1
    BY <1>1
  <2>. QED  BY <2>1, FS_Interval
<1>. QED  BY <1>3, <1>4, FS_Injection

\* Chunks of one dimension are asked for in a strict order.
LEMMA Ordered ==
  ASSUME NEW at \in Chunks,
         NEW a \in Chunks, NEW b \in Chunks, NEW c \in Chunks,
         a[1] = b[1]
  PROVE  /\ ~Nearer(a, a, at)
         /\ Nearer(a, b, at) /\ Nearer(b, c, at) => Nearer(a, c, at)
         /\ Nearer(a, b, at) => ~Nearer(b, a, at)
         /\ a = b \/ Nearer(a, b, at) \/ Nearer(b, a, at)
<1>1. a[2] \in Int /\ b[2] \in Int /\ c[2] \in Int /\ at[2] \in Int
  BY StreamAssumption DEF Chunks
<1>2. Dist(a[2], at[2]) \in Nat /\ Dist(b[2], at[2]) \in Nat /\ Dist(c[2], at[2]) \in Nat
  BY <1>1, Distances
<1>3. a[2] = b[2] => a = b
  BY DEF Chunks
<1>. QED  BY <1>1, <1>2, <1>3 DEF Nearer

\* Every chunk of a finite set of one dimension has a place of its own in it.
LEMMA Ranked ==
  ASSUME NEW at \in Chunks, NEW S \in SUBSET Chunks, IsFiniteSet(S),
         \A a, b \in S : a[1] = b[1]
  PROVE  /\ \A cc \in S : Place(S, cc, at) \in 1 .. Cardinality(S)
         /\ \A a, b \in S : Place(S, a, at) = Place(S, b, at) => a = b
         /\ \A i \in 1 .. Cardinality(S) : \E cc \in S : Place(S, cc, at) = i
<1>. DEFINE N == Cardinality(S)
            Upto(cc) == {b \in S : b = cc \/ Nearer(b, cc, at)}
            f == [cc \in S |-> Place(S, cc, at)]
<1>1. N \in Nat
  BY FS_CardinalityType
<1>2. ASSUME NEW cc \in S PROVE IsFiniteSet(Upto(cc)) /\ Place(S, cc, at) \in 1 .. N
  <2>1. Upto(cc) \in SUBSET S /\ cc \in Upto(cc)
    OBVIOUS
  <2>2. IsFiniteSet(Upto(cc)) /\ Cardinality(Upto(cc)) <= N
    BY <2>1, FS_Subset
  <2>3. Cardinality(Upto(cc)) \in Nat /\ Cardinality(Upto(cc)) # 0
    BY <2>1, <2>2, FS_CardinalityType, FS_EmptySet
  <2>. QED  BY <1>1, <2>2, <2>3 DEF Place
<1>3. ASSUME NEW a \in S, NEW b \in S, Nearer(a, b, at)
      PROVE  Place(S, a, at) # Place(S, b, at)
  <2>1. Upto(a) \in SUBSET Upto(b)
    <3>1. ASSUME NEW x \in Upto(a) PROVE x \in Upto(b)
      <4>1. x \in S /\ (x = a \/ Nearer(x, a, at)) /\ x[1] = a[1]
        OBVIOUS
      <4>2. Nearer(x, b, at)
        BY <1>3, <4>1, Ordered
      <4>. QED  BY <4>1, <4>2
    <3>. QED  BY <3>1
  <2>2. b \in Upto(b) /\ b \notin Upto(a)
    BY <1>3, Ordered
  <2>. QED  BY <1>2, <2>1, <2>2, FS_Subset DEF Place
<1>8. \A a, b \in S : Place(S, a, at) = Place(S, b, at) => a = b
  BY <1>3, Ordered
<1>4. f \in Injection(S, 1 .. N)
  <2>1. f \in [S -> 1 .. N]
    BY <1>2
  <2>2. \A a, b \in S : f[a] = f[b] => a = b
    BY <1>8
  <2>. QED  BY <2>1, <2>2 DEF Injection, IsInjective
<1>5. IsFiniteSet(1 .. N) /\ Cardinality(1 .. N) = N
  <2>1. 1 \in Int /\ N \in Int /\ (1 > N => N = 0) /\ N - 1 + 1 = N
    BY <1>1
  <2>. QED  BY <2>1, FS_Interval
<1>6. f \in Surjection(S, 1 .. N)
  BY <1>4, <1>5, FS_Injection
<1>7. ASSUME NEW i \in 1 .. N PROVE \E cc \in S : Place(S, cc, at) = i
  <2>1. \E cc \in S : f[cc] = i
    BY <1>6 DEF Surjection
  <2>. QED  BY <2>1
<1>. QED  BY <1>2, <1>7, <1>8

\* nearestFirst leaves nothing out of the window it is given, and adds nothing.
LEMMA Sorted ==
  ASSUME NEW at \in Chunks, NEW S \in SUBSET Chunks, IsFiniteSet(S),
         \A a, b \in S : a[1] = b[1]
  PROVE  /\ NearestFirst(S, at) \in Seq(S)
         /\ Len(NearestFirst(S, at)) = Cardinality(S)
         /\ \A cc \in S : \E i \in 1 .. Cardinality(S) : NearestFirst(S, at)[i] = cc
<1>. DEFINE N == Cardinality(S)
            q == [i \in 1 .. N |-> CHOOSE cc \in S : Place(S, cc, at) = i]
<1>1. N \in Nat
  BY FS_CardinalityType
<1>2. \A i \in 1 .. N : q[i] \in S /\ Place(S, q[i], at) = i
  BY Ranked
<1>3. q \in [1 .. N -> S]
  BY <1>2
<1>4. q \in Seq(S) /\ Len(q) = N
  <2>1. \A g \in [1 .. N -> S] : g \in Seq(S) /\ Len(g) = N
    BY <1>1
  <2>. QED  BY <1>3, <2>1
<1>5. ASSUME NEW cc \in S PROVE \E i \in 1 .. N : q[i] = cc
  <2>. DEFINE i == Place(S, cc, at)
  <2>1. i \in 1 .. N
    BY Ranked
  <2>2. q[i] \in S /\ Place(S, q[i], at) = i
    BY <1>2, <2>1
  <2>. QED  BY <2>1, <2>2, Ranked
<1>. QED  BY <1>4, <1>5 DEF NearestFirst

-----------------------------------------------------------------------------
(* What the variables hold.                                                *)

\* A sequence with one more element at its end.
LEMMA Appended ==
  ASSUME NEW T, NEW s \in Seq(T), NEW e \in T
  PROVE  /\ Append(s, e) \in Seq(T) /\ Len(s) \in Nat
         /\ Len(Append(s, e)) = Len(s) + 1
         /\ \A i \in 1 .. Len(s) : Append(s, e)[i] = s[i]
         /\ Append(s, e)[Len(s) + 1] = e
OBVIOUS

\* A sequence without its first element.
LEMMA Popped ==
  ASSUME NEW T, NEW s \in Seq(T), s # <<>>
  PROVE  /\ Head(s) = s[1] /\ Head(s) \in T
         /\ Tail(s) \in Seq(T) /\ Len(s) \in Nat /\ Len(s) >= 1
         /\ Len(Tail(s)) = Len(s) - 1
         /\ \A i \in 1 .. (Len(s) - 1) : Tail(s)[i] = s[i + 1]
OBVIOUS

\* What the groups of variables hold is what the type invariant says.
LEMMA TypesHold == TypeInv => TypeOK
<1>. SUFFICES ASSUME TypeInv PROVE TypeOK
  OBVIOUS
<1>1. ASSUME NEW T, NEW s \in Seq(T), NEW x \in Range(s) PROVE x \in T
  <2>1. DOMAIN s = 1 .. Len(s) /\ \A i \in 1 .. Len(s) : s[i] \in T
    OBVIOUS
  <2>. QED  BY <2>1 DEF Range
<1>2. \A e \in Range(hubQueue) : e.kind \in {"block", "move", "dim", "join"}
  <2>1. \A e \in Range(hubQueue) : e \in Events
    BY <1>1 DEF TypeInv, WorldTyped
  <2>. QED  BY <2>1 DEF Events
<1>3. Range(feed) \subseteq Frames /\ Range(out) \subseteq Frames /\ Range(backlog) \subseteq Chunks
  BY <1>1 DEF TypeInv, LineTyped, RecordsTyped
<1>4. {sent, refused, failed, stale, late} \subseteq SUBSET Chunks
  BY DEF TypeInv, RecordsTyped
<1>. QED  BY <1>2, <1>3, <1>4 DEF TypeInv, WorldTyped, LineTyped, PlacesTyped,
              RecordsTyped, JobsTyped, ClientTyped, TypeOK

\* A step leaves right what it does not touch.
LEMMA Untouched ==
  ASSUME TypeInv
  PROVE  /\ UNCHANGED <<edits, posting, hubQueue>> => WorldTyped'
         /\ UNCHANGED <<edits, feed, out>> => LineTyped'
         /\ UNCHANGED <<player, view, client>> => PlacesTyped'
         /\ UNCHANGED <<sent, refused, backlog, failed, stale, late>> => RecordsTyped'
         /\ UNCHANGED <<edits, job>> => JobsTyped'
         /\ UNCHANGED <<toServer, held>> => ClientTyped'
BY DEF TypeInv, WorldTyped, LineTyped, PlacesTyped, RecordsTyped, JobsTyped, ClientTyped, Made

\* At the start of a session.
LEMMA TypeInit == ASSUME Init PROVE TypeInv
<1>1. Home \in Chunks /\ 0 \in Edited /\ OutCap \in Nat /\ Radius \in Nat /\ Spare \in Nat
  BY StreamAssumption DEF Edited
<1>2. WorldTyped /\ LineTyped
  BY <1>1 DEF Init, WorldTyped, LineTyped, Made
<1>3. PlacesTyped /\ RecordsTyped
  BY <1>1 DEF Init, PlacesTyped, RecordsTyped, Capacity
<1>4. JobsTyped
  BY <1>1 DEF Init, JobsTyped, Jobs, Idle
<1>5. ClientTyped
  <2>1. Want("want", Home) \in Messages
    BY <1>1 DEF Want, Messages
  <2>. QED  BY <1>1, <2>1 DEF Init, ClientTyped
<1>. QED  BY <1>2, <1>3, <1>4, <1>5 DEF TypeInv

\* A frame of the hub, of its state or a place, can go in any of the queues.
LEMMA Framed ==
  ASSUME NEW cc \in Chunks
  PROVE  /\ \A n \in Edited : /\ Block(cc, n) \in Frames /\ Block(cc, n) \in Events
                              /\ Chunk(cc, n) \in Frames
         /\ \A k \in {"respawn", "config", "rejoin"} : Placed(k, cc) \in Frames
         /\ \A k \in {"move", "dim", "join"} : Placed(k, cc) \in Events
         /\ \A k \in {"want", "entered", "refresh", "configured"} : Want(k, cc) \in Messages
<1>1. 0 \in Edited
  BY StreamAssumption DEF Edited
<1>. QED  BY <1>1 DEF Block, Chunk, Placed, Want, Frames, Events, Messages

\* A block that may be changed once more.
LEMMA NextEdit ==
  ASSUME TypeInv, NEW cc \in Chunks, edits[cc] < MaxEdits
  PROVE  edits[cc] + 1 \in Edited
<1>1. edits[cc] \in Edited
  BY DEF TypeInv, WorldTyped
<1>2. MaxEdits \in Nat
  BY StreamAssumption
<1>. QED  BY <1>1, <1>2 DEF Edited

\* What a queue tells of has been made, with one more frame that does, without
\* its first, and after more changes.
LEMMA MadeMore ==
  ASSUME NEW T, NEW s \in Seq(T), NEW e \in T, NEW E, Made(s, E),
         e.kind \in {"block", "chunk"} => e.n <= E[e.cc]
  PROVE  Made(Append(s, e), E)
<1>. DEFINE t == Append(s, e)
<1>1. /\ Len(s) \in Nat /\ Len(t) = Len(s) + 1
      /\ \A i \in 1 .. Len(s) : t[i] = s[i]
      /\ t[Len(s) + 1] = e
  BY Appended
<1>. HIDE DEF t
<1>2. ASSUME NEW i \in 1 .. Len(t), t[i].kind \in {"block", "chunk"}
      PROVE  t[i].n <= E[t[i].cc]
  <2>1. i \in 1 .. Len(s) \/ i = Len(s) + 1
    BY <1>1
  <2>. QED  BY <1>1, <1>2, <2>1 DEF Made
<1>3. Made(t, E)
  BY <1>2 DEF Made
<1>. QED  BY <1>3 DEF t

LEMMA MadeLess ==
  ASSUME NEW T, NEW s \in Seq(T), s # <<>>, NEW E, Made(s, E)
  PROVE  /\ Made(Tail(s), E)
         /\ Head(s).kind \in {"block", "chunk"} => Head(s).n <= E[Head(s).cc]
<1>. DEFINE t == Tail(s)
<1>1. /\ Head(s) = s[1] /\ Len(s) \in Nat /\ Len(s) >= 1 /\ Len(t) = Len(s) - 1
      /\ \A i \in 1 .. (Len(s) - 1) : t[i] = s[i + 1]
  BY Popped
<1>. HIDE DEF t
<1>2. Made(t, E)
  BY <1>1 DEF Made
<1>. QED  BY <1>1, <1>2 DEF t, Made

LEMMA MadeGrown ==
  ASSUME NEW T \in {Frames, Events}, NEW s \in Seq(T),
         NEW E \in [Chunks -> Edited], NEW F \in [Chunks -> Edited],
         \A cc \in Chunks : E[cc] <= F[cc], Made(s, E)
  PROVE  Made(s, F)
<1>1. \A i \in 1 .. Len(s) : s[i].n \in Int /\ s[i].cc \in Chunks
  <2>1. \A f \in Frames \cup Events : f.n \in Int /\ f.cc \in Chunks
    BY DEF Frames, Events, Edited
  <2>. QED  BY <2>1
<1>2. \A cc \in Chunks : E[cc] \in Int /\ F[cc] \in Int
  BY DEF Edited
<1>. QED  BY <1>1, <1>2 DEF Made

\* A queue cut in two.
LEMMA Cut ==
  ASSUME NEW T, NEW q \in Seq(T), NEW k \in 0 .. Len(q)
  PROVE  /\ SubSeq(q, 1, k) \in Seq(T) /\ Len(SubSeq(q, 1, k)) = k
         /\ \A i \in 1 .. k : SubSeq(q, 1, k)[i] = q[i]
         /\ Range(SubSeq(q, k + 1, Len(q))) \subseteq T
         /\ Range(q) \subseteq Range(SubSeq(q, 1, k)) \cup Range(SubSeq(q, k + 1, Len(q)))
         /\ k = Len(q) => Range(SubSeq(q, k + 1, Len(q))) = {}
<1>. DEFINE a == SubSeq(q, 1, k)
            b == SubSeq(q, k + 1, Len(q))
<1>1. Len(q) \in Nat /\ DOMAIN q = 1 .. Len(q) /\ \A i \in 1 .. Len(q) : q[i] \in T
  OBVIOUS
<1>2. /\ a \in Seq(T) /\ Len(a) = k /\ DOMAIN a = 1 .. k
      /\ \A i \in 1 .. k : a[i] = q[i]
  BY <1>1
<1>3. /\ b \in Seq(T) /\ Len(b) = Len(q) - k /\ DOMAIN b = 1 .. (Len(q) - k)
      /\ \A i \in 1 .. (Len(q) - k) : b[i] = q[i + k]
  <2>1. k + 1 \in Int /\ Len(q) \in Int /\ \A i \in (k + 1) .. Len(q) : q[i] \in T
    BY <1>1
  <2>2. /\ b \in Seq(T) /\ Len(b) = IF k + 1 <= Len(q) THEN Len(q) - (k + 1) + 1 ELSE 0
        /\ \A i \in 1 .. (Len(q) - (k + 1) + 1) : b[i] = q[(k + 1) + i - 1]
    BY <2>1, SubSeqProperties
  <2>. HIDE DEF b
  <2>3. /\ k + 1 <= Len(q) => Len(q) - (k + 1) + 1 = Len(q) - k
        /\ ~(k + 1 <= Len(q)) => Len(q) - k = 0
        /\ Len(q) - (k + 1) + 1 = Len(q) - k
    <3>1. \A n \in Nat : \A j \in 0 .. n :
             /\ ~(j + 1 <= n) => n - j = 0
             /\ n - (j + 1) + 1 = n - j
      OBVIOUS
    <3>. QED  BY <1>1, <3>1
  <2>4. Len(b) = Len(q) - k
    BY <2>2, <2>3
  <2>5. ASSUME NEW i \in 1 .. (Len(q) - k) PROVE b[i] = q[i + k]
    <3>1. (k + 1) + i - 1 = i + k
      BY <1>1
    <3>. QED  BY <2>2, <2>3, <3>1
  <2>6. DOMAIN b = 1 .. Len(b)
    BY <2>2
  <2>. QED  BY <2>2, <2>4, <2>5, <2>6
<1>. HIDE DEF a, b
<1>4. Range(b) \subseteq T
  BY <1>1, <1>3 DEF Range
<1>5. ASSUME NEW i \in 1 .. Len(q) PROVE q[i] \in Range(a) \cup Range(b)
  <2>1. CASE i <= k
    BY <1>2, <2>1 DEF Range
  <2>2. CASE i > k
    <3>1. i - k \in 1 .. (Len(q) - k) /\ b[i - k] = q[i]
      BY <1>1, <1>3, <2>2
    <3>. QED  BY <1>3, <3>1 DEF Range
  <2>. QED  BY <1>1, <2>1, <2>2
<1>6. Range(q) \subseteq Range(a) \cup Range(b)
  BY <1>1, <1>5 DEF Range
<1>7. k = Len(q) => Range(b) = {}
  BY <1>1, <1>3 DEF Range
<1>. QED  BY <1>2, <1>4, <1>6, <1>7 DEF a, b

\* What MsgWant does to the backlog and the reader's set: the chunks of the
\* window that are asked for and fit are queued, and of the others none counts
\* as sent; unless the backlog was longer than its spare room, all fit.
LEMMA WantRead ==
  ASSUME TypeInv, NEW m \in Messages, ReadWant(m)
  PROVE  \E gate \in Gates : \E fit \in Seq(Chunks) : \E over \in SUBSET Chunks :
            /\ backlog' = backlog \o fit /\ Len(backlog) + Len(fit) <= Capacity
            /\ \A i \in 1 .. Len(fit) : fit[i] \in Around(m.cc, Radius)
            /\ sent' \subseteq Kept(m.cc, sent) \cup Range(fit)
            /\ refused' = over \cup (((Around(m.cc, Radius) \cap Owned) \ gate) \ Kept(m.cc, sent))
            /\ Len(backlog) <= Spare => over = {}
<1>. DEFINE kept == Kept(m.cc, sent)
            window == Around(m.cc, Radius) \cap Owned
            asked(g) == {cc \in window \cap g : m.kind = "refresh" \/ cc \notin kept}
            left == Capacity - Len(backlog)
<1>1. PICK gate \in Gates :
        LET queue == NearestFirst(asked(gate), m.cc)
            room == IF Len(queue) <= left THEN Len(queue) ELSE left
            fit == SubSeq(queue, 1, room)
            over == Range(SubSeq(queue, room + 1, Len(queue)))
        IN /\ backlog' = backlog \o fit
           /\ sent' = (kept \cup Range(queue)) \ over
           /\ refused' = over \cup ((window \ gate) \ kept)
  BY DEF ReadWant, Unmarked
<1>. DEFINE queue == NearestFirst(asked(gate), m.cc)
            room == IF Len(queue) <= left THEN Len(queue) ELSE left
            fit == SubSeq(queue, 1, room)
            over == Range(SubSeq(queue, room + 1, Len(queue)))
            W == Around(m.cc, Radius)
<1>2. m.cc \in Chunks /\ Radius \in Nat /\ Spare \in Nat
  BY StreamAssumption DEF Messages
<1>3. W \subseteq Chunks /\ \A a, b \in W : a[1] = b[1]
  BY DEF Around, Within
<1>4. IsFiniteSet(W) /\ Cardinality(W) <= 2 * Radius + 1
  BY <1>2, WindowSize
<1>5. asked(gate) \in SUBSET W
  OBVIOUS
<1>6. /\ IsFiniteSet(asked(gate)) /\ Cardinality(asked(gate)) \in Nat
      /\ Cardinality(asked(gate)) <= Cardinality(W) /\ Cardinality(W) \in Nat
  BY <1>4, <1>5, FS_Subset, FS_CardinalityType
<1>7. queue \in Seq(asked(gate)) /\ Len(queue) = Cardinality(asked(gate))
  BY <1>2, <1>3, <1>5, <1>6, Sorted
<1>. HIDE DEF queue
<1>8. /\ Len(backlog) \in Nat /\ Len(backlog) <= Capacity /\ Capacity \in Nat
      /\ Capacity = 2 * Radius + 1 + Spare
  BY <1>2 DEF TypeInv, RecordsTyped, Capacity
<1>9. /\ room \in 0 .. Len(queue) /\ Len(backlog) + room <= Capacity
      /\ Len(backlog) <= Spare => room = Len(queue)
  BY <1>2, <1>4, <1>6, <1>7, <1>8
<1>. HIDE DEF room, asked
<1>10. /\ fit \in Seq(asked(gate)) /\ Len(fit) = room
       /\ over \subseteq asked(gate) /\ asked(gate) \subseteq W
       /\ Range(queue) \subseteq Range(fit) \cup over
       /\ room = Len(queue) => over = {}
  BY <1>5, <1>7, <1>9, Cut
<1>11. /\ backlog' = backlog \o fit /\ sent' = (kept \cup Range(queue)) \ over
       /\ refused' = over \cup ((window \ gate) \ kept)
  BY <1>1 DEF queue, room
<1>. HIDE DEF fit, over, kept, W
<1>12. /\ fit \in Seq(Chunks) /\ \A i \in 1 .. Len(fit) : fit[i] \in W
       /\ over \in SUBSET Chunks
  BY <1>3, <1>10
<1>13. sent' \subseteq kept \cup Range(fit)
  BY <1>10, <1>11
<1>14. Len(backlog) + Len(fit) <= Capacity /\ (Len(backlog) <= Spare => over = {})
  BY <1>9, <1>10
<1>. QED  BY <1>11, <1>12, <1>13, <1>14 DEF kept, W

\* What MsgWant does besides.
LEMMA WantDoes ==
  ASSUME NEW m, ReadWant(m)
  PROVE  /\ view' = [known |-> TRUE, at |-> m.cc, sent |-> Kept(m.cc, view.sent)]
         /\ view'.at = m.cc /\ view'.sent = Kept(m.cc, view.sent)
         /\ job' = Forgetting(Kept(m.cc, Chunks))
         /\ hubQueue' = IF m.kind = "entered" THEN Append(hubQueue, Placed("move", m.cc))
                                              ELSE hubQueue
         /\ UNCHANGED <<player, out>>
<1>1. view' = [known |-> TRUE, at |-> m.cc, sent |-> Kept(m.cc, view.sent)]
  BY DEF ReadWant
<1>2. job' = Forgetting(Kept(m.cc, Chunks)) /\ UNCHANGED <<player, out>>
  BY DEF ReadWant
<1>3. hubQueue' = IF m.kind = "entered" THEN Append(hubQueue, Placed("move", m.cc))
                                       ELSE hubQueue
  BY DEF ReadWant
<1>. QED  BY <1>1, <1>2, <1>3

\* What a frame leaves the client with is content of chunks.
LEMMA ShownTyped ==
  ASSUME TypeInv, NEW f \in Frames
  PROVE  Shown(f) \in [Chunks -> Edited \cup {None, Foreign}]
<1>1. held \in [Chunks -> Edited \cup {None, Foreign}] /\ f.cc \in Chunks /\ f.n \in Edited
  BY DEF TypeInv, ClientTyped, Frames
<1>2. CASE f.kind = "chunk"
  BY <1>1, <1>2 DEF Shown
<1>3. CASE f.kind = "block"
  <2>1. Shown(f) = [cc \in Chunks |->
                IF cc # <<client.at[1], f.cc[2]>> \/ held[cc] = None THEN held[cc]
                ELSE IF cc = f.cc THEN f.n ELSE Foreign]
    BY <1>3 DEF Shown
  <2>. QED  BY <1>1, <2>1
<1>4. CASE f.kind \notin {"chunk", "block"}
  BY <1>4 DEF Shown
<1>. QED  BY <1>2, <1>3, <1>4

\* What a broadcast does to the session's queue and to the chunks it leaves
\* with another block.
LEMMA Broadcasts ==
  ASSUME TypeInv, NEW e \in Events, e.kind = "block", Broadcast(e)
  PROVE  /\ e \in Frames
         /\ \E sends \in BOOLEAN :
               /\ feed' = IF sends THEN Append(feed, e) ELSE feed
               /\ stale' = stale \cup Hidden(e, sends)
               /\ sends => player.in
               /\ Hidden(e, sends) \subseteq Chunks
<1>1. e \in Frames
  BY DEF Events, Frames
<1>2. \A sends \in BOOLEAN : Hidden(e, sends) \subseteq Chunks
  BY <1>1 DEF Hidden, Frames
<1>3. PICK lost \in BOOLEAN :
        /\ feed' = IF Told(e.cc) /\ ~lost THEN Append(feed, e) ELSE feed
        /\ stale' = stale \cup Hidden(e, Told(e.cc) /\ ~lost)
  BY DEF Broadcast
<1>. DEFINE sends == Told(e.cc) /\ ~lost
<1>4. sends \in BOOLEAN /\ (sends => player.in)
  BY DEF Told
<1>. QED  BY <1>1, <1>2, <1>3, <1>4

\* The session's queue and the chunks left stale, behind a broadcast.
LEMMA BroadcastTyped ==
  ASSUME TypeInv, NEW e \in Events, e.kind = "block", Broadcast(e),
         edits' \in [Chunks -> Edited], \A cc \in Chunks : edits[cc] <= edits'[cc],
         e.n <= edits'[e.cc],
         UNCHANGED <<out, sent, refused, backlog, failed, late>>
  PROVE  LineTyped' /\ RecordsTyped'
<1>1. e \in Frames
  BY Broadcasts
<1>2. PICK sends \in BOOLEAN :
               /\ feed' = IF sends THEN Append(feed, e) ELSE feed
               /\ stale' = stale \cup Hidden(e, sends)
               /\ Hidden(e, sends) \subseteq Chunks
  BY Broadcasts
<1>3. Made(feed, edits') /\ Made(out, edits')
  BY MadeGrown DEF TypeInv, WorldTyped, LineTyped
<1>4. /\ feed' \in Seq(Frames) /\ Made(feed', edits')
      /\ \A i \in 1 .. Len(feed') : feed'[i].kind \in {"block", "respawn", "config"}
  <2>1. CASE sends
    <3>1. feed' = Append(feed, e) /\ feed \in Seq(Frames)
      BY <1>2, <2>1 DEF TypeInv, LineTyped
    <3>2. Made(feed', edits')
      BY <1>1, <1>3, <3>1, MadeMore
    <3>3. \A i \in 1 .. Len(feed') : i \in 1 .. Len(feed) \/ i = Len(feed) + 1
      BY <1>1, <3>1, Appended
    <3>. QED  BY <1>1, <3>1, <3>2, <3>3, Appended DEF TypeInv, LineTyped
  <2>2. CASE ~sends
    BY <1>2, <1>3, <2>2 DEF TypeInv, LineTyped
  <2>. QED  BY <2>1, <2>2
<1>5. LineTyped'
  BY <1>3, <1>4 DEF TypeInv, LineTyped
<1>. QED  BY <1>2, <1>5 DEF TypeInv, RecordsTyped

\* The session's queue with one more frame of the hub's, and the hub's queue
\* with one more event.
LEMMA FeedTyped ==
  ASSUME TypeInv, NEW cc \in Chunks, NEW k \in {"respawn", "config"},
         feed' = Append(feed, Placed(k, cc)), UNCHANGED <<edits, out>>
  PROVE  LineTyped'
<1>. DEFINE f == Placed(k, cc)
<1>1. f \in Frames /\ f.kind = k
  BY Framed DEF Placed
<1>2. f.kind \in {"respawn", "config"}
  BY <1>1
<1>. HIDE DEF f
<1>3. /\ feed' = Append(feed, f) /\ feed \in Seq(Frames) /\ Made(feed, edits)
      /\ \A i \in 1 .. Len(feed) : feed[i].kind \in {"block", "respawn", "config"}
  BY DEF f, TypeInv, LineTyped
<1>4. Made(feed', edits) /\ feed' \in Seq(Frames)
  BY <1>1, <1>2, <1>3, MadeMore, Appended
<1>5. ASSUME NEW i \in 1 .. Len(feed') PROVE feed'[i].kind \in {"block", "respawn", "config"}
  <2>1. i \in 1 .. Len(feed) \/ i = Len(feed) + 1
    BY <1>1, <1>3, Appended
  <2>. QED  BY <1>1, <1>2, <1>3, <2>1, Appended
<1>. QED  BY <1>4, <1>5 DEF TypeInv, LineTyped

LEMMA EventTyped ==
  ASSUME TypeInv, NEW e \in Events, e.kind = "block" => e.n <= edits[e.cc],
         hubQueue' = Append(hubQueue, e), posting' \subseteq posting, UNCHANGED edits
  PROVE  WorldTyped'
<1>1. hubQueue \in Seq(Events) /\ Made(hubQueue, edits) /\ (e.kind \in {"block", "chunk"} => e.kind = "block")
  BY DEF TypeInv, WorldTyped, Events
<1>2. hubQueue' \in Seq(Events) /\ Made(hubQueue', edits)
  BY <1>1, MadeMore, Appended
<1>. QED  BY <1>2 DEF TypeInv, WorldTyped

\* The client's frames with one more Want.
LEMMA WantTyped ==
  ASSUME TypeInv, NEW cc \in Chunks, NEW k \in {"want", "entered", "refresh", "configured"},
         toServer' = Append(toServer, Want(k, cc)),
         held' \in [Chunks -> Edited \cup {None, Foreign}]
  PROVE  ClientTyped'
<1>1. Want(k, cc) \in Messages
  BY Framed
<1>. QED  BY <1>1, Appended DEF TypeInv, ClientTyped

\* The steps of the client.
LEMMA TypeClient ==
  ASSUME TypeInv, Client \/ Receive
  PROVE  TypeInv'
<1>0. /\ client.at \in Chunks /\ client \in [at : Chunks, configuring : BOOLEAN]
      /\ Home \in Chunks
  BY StreamAssumption DEF TypeInv, PlacesTyped
<1>1. ASSUME NEW x \in Xs, Move(x) PROVE TypeInv'
  <2>. DEFINE at == <<client.at[1], x>>
  <2>1. at \in Chunks
    BY <1>0 DEF Chunks
  <2>2. PlacesTyped'
    BY <1>0, <1>1, <2>1 DEF Move, server, TypeInv, PlacesTyped
  <2>3. held' \in [Chunks -> Edited \cup {None, Foreign}]
    BY <1>1 DEF Move, TypeInv, ClientTyped
  <2>4. ClientTyped'
    BY <1>1, <2>1, <2>3, WantTyped DEF Move
  <2>. QED  BY <1>1, <2>2, <2>4, Untouched DEF Move, server, history, TypeInv
<1>2. CASE Refresh
  <2>1. held' \in [Chunks -> Edited \cup {None, Foreign}]
    BY <1>2 DEF Refresh, TypeInv, ClientTyped
  <2>2. ClientTyped'
    BY <1>0, <1>2, <2>1, WantTyped DEF Refresh
  <2>. QED  BY <1>2, <2>2, Untouched DEF Refresh, server, history, TypeInv
<1>3. CASE Receive
  <2>. DEFINE f == Head(out)
  <2>0. out \in Seq(Frames) /\ out # <<>> /\ Made(out, edits) /\ Len(out) <= OutCap /\ OutCap \in Nat
    BY <1>3, StreamAssumption DEF Receive, TypeInv, LineTyped
  <2>1. f \in Frames /\ f.cc \in Chunks
    <3>1. f \in Frames
      BY <2>0, Popped
    <3>. QED  BY <3>1 DEF Frames
  <2>2. held' \in [Chunks -> Edited \cup {None, Foreign}]
    BY <1>3, <2>1, ShownTyped DEF Receive
  <2>3. PlacesTyped'
    <3>1. client' \in [at : Chunks, configuring : BOOLEAN]
      BY <1>0, <1>3, <2>1 DEF Receive
    <3>. QED  BY <1>3, <3>1 DEF Receive, server, TypeInv, PlacesTyped
  <2>4. ClientTyped'
    <3>1. CASE f.kind = "config"
      BY <1>0, <1>3, <2>2, <3>1, WantTyped DEF Receive
    <3>2. CASE f.kind \in {"respawn", "rejoin"}
      BY <1>3, <2>1, <2>2, <3>2, WantTyped DEF Receive
    <3>3. CASE f.kind \notin {"config", "respawn", "rejoin"}
      BY <1>3, <2>2, <3>3 DEF Receive, TypeInv, ClientTyped
    <3>. QED  BY <3>1, <3>2, <3>3
  <2>5. LineTyped'
    <3>1. out' = Tail(out) /\ UNCHANGED <<edits, feed>>
      BY <1>3 DEF Receive
    <3>2. Made(Tail(out), edits) /\ Tail(out) \in Seq(Frames) /\ Len(Tail(out)) <= OutCap
      BY <2>0, MadeLess, Popped
    <3>. QED  BY <3>1, <3>2 DEF TypeInv, LineTyped
  <2>. QED  BY <1>3, <2>3, <2>4, <2>5, Untouched DEF Receive, server, history, TypeInv
<1>. QED  BY <1>1, <1>2, <1>3 DEF Client

\* The steps of the world and of the hub.
LEMMA TypeWorld ==
  ASSUME TypeInv, World \/ (\E e \in posting : Post(e)) \/ Hub \/ Pump \/ Reconfigure
                  \/ (\E at \in Owned : SwitchDim(at))
  PROVE  TypeInv'
<1>0. /\ edits \in [Chunks -> Edited] /\ hubQueue \in Seq(Events)
      /\ feed \in Seq(Frames) /\ out \in Seq(Frames) /\ Len(out) <= OutCap
      /\ player \in [in : BOOLEAN, at : Chunks, session : Chunks]
      /\ MaxEdits \in Nat /\ OutCap \in Nat /\ Busy \subseteq Chunks /\ Owned \subseteq Chunks
  BY StreamAssumption DEF TypeInv, WorldTyped, LineTyped, PlacesTyped
<1>1. ASSUME NEW cc \in Chunks, edits[cc] < MaxEdits, edits' = [edits EXCEPT ![cc] = @ + 1]
      PROVE  /\ edits' \in [Chunks -> Edited] /\ \A c \in Chunks : edits[c] <= edits'[c]
             /\ edits[cc] + 1 \in Edited /\ edits'[cc] = edits[cc] + 1
             /\ edits'[cc] <= edits'[cc]
             /\ Made(feed, edits') /\ Made(out, edits') /\ Made(hubQueue, edits')
             /\ (UNCHANGED job) => JobsTyped'
             /\ \A e \in posting : e \in Frames /\ e.kind = "block" /\ e.n <= edits'[e.cc]
  <2>1. edits[cc] \in Edited /\ edits[cc] + 1 \in Edited
    BY <1>0, <1>1 DEF Edited
  <2>2. edits' \in [Chunks -> Edited] /\ edits'[cc] = edits[cc] + 1
    BY <1>0, <1>1, <2>1
  <2>3. ASSUME NEW c \in Chunks PROVE edits[c] <= edits'[c] /\ edits[c] \in Int /\ edits'[c] \in Int
    BY <1>0, <1>1, <2>1 DEF Edited
  <2>4. Made(feed, edits') /\ Made(out, edits') /\ Made(hubQueue, edits')
    BY <1>0, <2>2, <2>3, MadeGrown DEF TypeInv, WorldTyped, LineTyped
  <2>7. edits'[cc] <= edits'[cc]
    BY <2>3
  <2>5. (UNCHANGED job) => JobsTyped'
    <3>1. \A w \in Workers : job[w].cc \in Chunks /\ job[w].n \in Int
      BY DEF TypeInv, JobsTyped, Jobs, Edited
    <3>. QED  BY <2>3, <3>1 DEF TypeInv, JobsTyped
  <2>6. ASSUME NEW e \in posting PROVE e \in Frames /\ e.kind = "block" /\ e.n <= edits'[e.cc]
    <3>1. e \in Frames /\ e.kind = "block" /\ e.n <= edits[e.cc]
      BY DEF TypeInv, WorldTyped
    <3>2. e.cc \in Chunks /\ e.n \in Int
      BY <3>1 DEF Frames, Edited
    <3>. QED  BY <2>3, <3>1, <3>2
  <2>. QED  BY <2>1, <2>2, <2>3, <2>4, <2>5, <2>6, <2>7
<1>2. ASSUME NEW cc \in Busy, Edit(cc) PROVE TypeInv'
  <2>0. /\ cc \in Chunks /\ edits[cc] < MaxEdits /\ edits' = [edits EXCEPT ![cc] = @ + 1]
        /\ posting' = posting \cup {Block(cc, edits[cc] + 1)}
        /\ UNCHANGED <<hubQueue, feed, out, job>>
    BY <1>0, <1>2 DEF Edit, server
  <2>1. WorldTyped'
    <3>1. /\ Block(cc, edits[cc] + 1) \in Frames /\ Block(cc, edits[cc] + 1).kind = "block"
          /\ Block(cc, edits[cc] + 1).n = edits'[cc] /\ Block(cc, edits[cc] + 1).cc = cc
      BY <1>1, <2>0, Framed DEF Block
    <3>2. edits'[cc] <= edits'[cc]
      BY <1>1, <2>0
    <3>3. \A e \in posting' : e \in Frames /\ e.kind = "block" /\ e.n <= edits'[e.cc]
      BY <1>1, <2>0, <3>1, <3>2
    <3>. QED  BY <1>0, <1>1, <2>0, <3>3 DEF WorldTyped
  <2>2. LineTyped'
    BY <1>1, <2>0 DEF TypeInv, LineTyped
  <2>3. JobsTyped'
    BY <1>1, <2>0
  <2>. QED  BY <1>2, <2>1, <2>2, <2>3, Untouched DEF Edit, server, history, TypeInv
<1>3. ASSUME NEW cc \in Busy, HubEdit(cc) PROVE TypeInv'
  <2>. DEFINE e == Block(cc, edits[cc] + 1)
  <2>0. /\ cc \in Chunks /\ edits[cc] < MaxEdits /\ edits' = [edits EXCEPT ![cc] = @ + 1]
        /\ Broadcast(e) /\ UNCHANGED <<posting, hubQueue, job>>
    BY <1>0, <1>3 DEF HubEdit, server, NewState
  <2>1. e \in Events /\ e.kind = "block" /\ e.n = edits'[cc] /\ e.cc = cc /\ edits'[cc] <= edits'[cc]
    <3>1. edits'[cc] <= edits'[cc] /\ edits'[cc] = edits[cc] + 1 /\ edits[cc] + 1 \in Edited
      BY <1>1, <2>0
    <3>2. e \in Events
      BY <2>0, <3>1, Framed
    <3>. QED  BY <3>1, <3>2 DEF Block
  <2>2. LineTyped' /\ RecordsTyped'
    <3>1. UNCHANGED <<out, sent, refused, backlog, failed, late>>
      BY <1>3 DEF HubEdit, server
    <3>. QED  BY <1>1, <2>0, <2>1, <3>1, BroadcastTyped
  <2>3. WorldTyped' /\ JobsTyped'
    BY <1>0, <1>1, <2>0 DEF WorldTyped
  <2>. QED  BY <1>3, <2>2, <2>3, Untouched DEF HubEdit, server, TypeInv
<1>4. ASSUME NEW e \in posting, Post(e) PROVE TypeInv'
  <2>1. e \in Frames /\ e.kind = "block" /\ e.n <= edits[e.cc]
    BY DEF TypeInv, WorldTyped
  <2>2. e \in Events
    BY <2>1 DEF Frames, Events
  <2>3. WorldTyped'
    BY <1>4, <2>1, <2>2, EventTyped DEF Post
  <2>. QED  BY <1>4, <2>3, Untouched DEF Post, server, history, TypeInv
<1>5. CASE Hub
  <2>. DEFINE e == Head(hubQueue)
  <2>0. /\ hubQueue # <<>> /\ hubQueue' = Tail(hubQueue)
        /\ UNCHANGED <<edits, posting, view, sent, refused, backlog, job, out,
                       toServer, client, held, closing, failed, late>>
    BY <1>5 DEF Hub
  <2>1. /\ e \in Events /\ Tail(hubQueue) \in Seq(Events) /\ Made(Tail(hubQueue), edits)
        /\ (e.kind = "block" => e.n <= edits[e.cc])
    BY <1>0, <2>0, Popped, MadeLess DEF TypeInv, WorldTyped
  <2>2. e.cc \in Chunks /\ e.kind \in {"block", "move", "dim", "join"}
    BY <2>1 DEF Events
  <2>3. WorldTyped'
    BY <2>0, <2>1 DEF TypeInv, WorldTyped
  <2>4. CASE e.kind = "block"
    <3>1. Broadcast(e) /\ UNCHANGED player
      BY <1>5, <2>4 DEF Hub
    <3>2. \A cc \in Chunks : edits[cc] <= edits'[cc]
      BY <1>0, <2>0 DEF Edited
    <3>3. LineTyped' /\ RecordsTyped'
      BY <1>0, <2>0, <2>1, <2>4, <3>1, <3>2, BroadcastTyped
    <3>. QED  BY <2>0, <2>3, <3>1, <3>3, Untouched DEF TypeInv
  <2>5. CASE e.kind # "block"
    <3>1. player' \in [in : BOOLEAN, at : Chunks, session : Chunks] /\ UNCHANGED <<feed, stale>>
      <4>1. CASE e.kind = "move"
        <5>1. player \in [in : BOOLEAN, at : Chunks, session : Chunks]
          BY DEF TypeInv, PlacesTyped
        <5>2. <<player.at[1], e.cc[2]>> \in Chunks
          BY <2>2, <5>1 DEF Chunks
        <5>3. \/ player' = [player EXCEPT !.at = <<player.at[1], e.cc[2]>>]
              \/ player' = player
          BY <1>5, <4>1 DEF Hub
        <5>4. UNCHANGED <<feed, stale>>
          BY <1>5, <4>1 DEF Hub
        <5>. QED  BY <5>1, <5>2, <5>3, <5>4
      <4>2. CASE e.kind = "dim"
        BY <1>0, <1>5, <2>2, <4>2 DEF Hub
      <4>3. CASE e.kind = "join"
        BY <1>0, <1>5, <2>2, <4>3 DEF Hub
      <4>. QED  BY <2>2, <2>5, <4>1, <4>2, <4>3
    <3>2. PlacesTyped'
      BY <2>0, <3>1 DEF TypeInv, PlacesTyped
    <3>. QED  BY <2>0, <2>3, <3>1, <3>2, Untouched DEF TypeInv
  <2>. QED  BY <2>4, <2>5
<1>6. CASE Pump
  <2>. DEFINE e == Head(feed)
  <2>0. /\ feed # <<>> /\ feed' = Tail(feed) /\ UNCHANGED edits
        /\ out' = IF FrameRoom THEN Append(out, e) ELSE out
        /\ stale' = IF e.kind = "block" /\ Overtaken(e) THEN stale \cup {e.cc} ELSE stale
    BY <1>6 DEF Pump
  <2>1. /\ e \in Frames /\ Tail(feed) \in Seq(Frames) /\ Made(Tail(feed), edits)
        /\ e.kind \in {"block", "chunk"} => e.n <= edits[e.cc]
        /\ Len(feed) \in Nat
        /\ Len(Tail(feed)) = Len(feed) - 1
        /\ \A i \in 1 .. (Len(feed) - 1) : Tail(feed)[i] = feed[i + 1]
    BY <1>0, <2>0, Popped, MadeLess DEF TypeInv, LineTyped
  <2>2. e.cc \in Chunks
    BY <2>1 DEF Frames
  <2>3. \A i \in 1 .. Len(Tail(feed)) : Tail(feed)[i].kind \in {"block", "respawn", "config"}
    BY <2>1 DEF TypeInv, LineTyped
  <2>4. out' \in Seq(Frames) /\ Len(out') <= OutCap /\ Made(out', edits)
    <3>1. CASE FrameRoom
      <4>1. out' = Append(out, e) /\ Len(out) < OutCap /\ Made(out, edits)
        BY <2>0, <3>1 DEF FrameRoom, TypeInv, LineTyped
      <4>2. Append(out, e) \in Seq(Frames) /\ Len(Append(out, e)) = Len(out) + 1 /\ Len(out) \in Nat
        BY <1>0, <2>1, Appended
      <4>3. Made(Append(out, e), edits)
        BY <1>0, <2>1, <4>1, MadeMore
      <4>. QED  BY <1>0, <4>1, <4>2, <4>3
    <3>2. CASE ~FrameRoom
      BY <2>0, <3>2 DEF TypeInv, LineTyped
    <3>. QED  BY <3>1, <3>2
  <2>5. LineTyped'
    BY <2>0, <2>1, <2>3, <2>4 DEF LineTyped
  <2>6. RecordsTyped'
    BY <1>6, <2>0, <2>2 DEF Pump, server, TypeInv, RecordsTyped
  <2>. QED  BY <1>6, <2>5, <2>6, Untouched DEF Pump, server, TypeInv
<1>7. CASE Reconfigure
  <2>1. player.at \in Chunks
    BY <1>0
  <2>2. LineTyped'
    BY <1>7, <2>1, FeedTyped DEF Reconfigure
  <2>3. PlacesTyped'
    BY <1>0, <1>7 DEF Reconfigure, TypeInv, PlacesTyped
  <2>. QED  BY <1>7, <2>2, <2>3, Untouched DEF Reconfigure, history, TypeInv
<1>8. ASSUME NEW at \in Owned, SwitchDim(at) PROVE TypeInv'
  <2>1. at \in Chunks /\ Placed("dim", at) \in Events /\ Placed("dim", at).kind = "dim"
    BY <1>0, Framed DEF Placed
  <2>2. LineTyped'
    BY <1>8, <2>1, FeedTyped DEF SwitchDim
  <2>3. PlacesTyped'
    BY <1>0, <1>8, <2>1 DEF SwitchDim, TypeInv, PlacesTyped
  <2>4. WorldTyped'
    BY <1>8, <2>1, EventTyped DEF SwitchDim
  <2>. QED  BY <1>8, <2>2, <2>3, <2>4, Untouched DEF SwitchDim, history, TypeInv
<1>. QED  BY <1>2, <1>3, <1>4, <1>5, <1>6, <1>7, <1>8 DEF World

\* A worker at a forgotten chunk is at the same chunk still.
LEMMA ForgettingTyped ==
  ASSUME TypeInv, NEW S, UNCHANGED edits, job' = Forgetting(S)
  PROVE  JobsTyped'
<1>1. ASSUME NEW w \in Workers
      PROVE  /\ job'[w] \in Jobs
             /\ job'[w].step = job[w].step /\ job'[w].cc = job[w].cc /\ job'[w].n = job[w].n
  <2>1. job[w] \in Jobs
    BY DEF TypeInv, JobsTyped
  <2>2. job'[w] \in {job[w], [job[w] EXCEPT !.forgotten = TRUE]}
    BY DEF Forgetting
  <2>. QED  BY <2>1, <2>2 DEF Jobs
<1>2. job' = [w \in Workers |-> job'[w]]
  BY DEF Forgetting
<1>3. job' \in [Workers -> Jobs]
  BY <1>1, <1>2
<1>. QED  BY <1>1, <1>3 DEF TypeInv, JobsTyped

\* The steps of the reader.
LEMMA TypeReader ==
  ASSUME TypeInv, Read \/ ReaderEnds \/ CloseSession
  PROVE  TypeInv'
<1>0. /\ toServer \in Seq(Messages) /\ out \in Seq(Frames) /\ hubQueue \in Seq(Events)
      /\ player \in [in : BOOLEAN, at : Chunks, session : Chunks]
      /\ view \in [known : BOOLEAN, at : Chunks, sent : SUBSET Chunks]
      /\ OutCap \in Nat
  BY StreamAssumption DEF TypeInv, ClientTyped, LineTyped, WorldTyped, PlacesTyped
<1>1. CASE Read
  <2>. DEFINE m == Head(toServer)
  <2>0. /\ toServer # <<>> /\ toServer' = Tail(toServer)
        /\ UNCHANGED <<edits, posting, feed, client, held, closing, budget, history>>
    BY <1>1 DEF Read
  <2>1. m \in Messages /\ Tail(toServer) \in Seq(Messages)
    BY <1>0, <2>0, Popped
  <2>2. m.cc \in Chunks
    BY <2>1 DEF Messages
  <2>3. ClientTyped'
    BY <2>0, <2>1 DEF TypeInv, ClientTyped
  <2>4. CASE ReadWant(m)
    <3>1. PICK gate \in Gates : \E fit \in Seq(Chunks) : \E over \in SUBSET Chunks :
            /\ backlog' = backlog \o fit /\ Len(backlog) + Len(fit) <= Capacity
            /\ sent' \subseteq Kept(m.cc, sent) \cup Range(fit)
            /\ refused' = over \cup (((Around(m.cc, Radius) \cap Owned) \ gate) \ Kept(m.cc, sent))
      BY <2>1, <2>4, WantRead
    <3>2. PICK fit \in Seq(Chunks) : \E over \in SUBSET Chunks :
            /\ backlog' = backlog \o fit /\ Len(backlog) + Len(fit) <= Capacity
            /\ sent' \subseteq Kept(m.cc, sent) \cup Range(fit)
            /\ refused' = over \cup (((Around(m.cc, Radius) \cap Owned) \ gate) \ Kept(m.cc, sent))
      BY <3>1
    <3>3. RecordsTyped'
      <4>1. backlog \in Seq(Chunks) /\ sent \subseteq Chunks
        BY DEF TypeInv, RecordsTyped
      <4>2. backlog' \in Seq(Chunks) /\ Len(backlog') <= Capacity
        BY <3>2, <4>1, ConcatProperties
      <4>3. /\ Kept(m.cc, sent) \subseteq Chunks /\ Around(m.cc, Radius) \subseteq Chunks
            /\ Range(fit) \subseteq Chunks
        BY <3>2, <4>1 DEF Kept, Around, Range
      <4>4. sent' \subseteq Chunks /\ refused' \subseteq Chunks
        BY <3>2, <4>3
      <4>. QED  BY <2>0, <4>2, <4>4 DEF history, TypeInv, RecordsTyped
    <3>4. PlacesTyped'
      <4>1. view' = [known |-> TRUE, at |-> m.cc, sent |-> Kept(m.cc, view.sent)] /\ UNCHANGED player
        BY <2>4, WantDoes
      <4>2. Kept(m.cc, view.sent) \subseteq Chunks
        BY <1>0 DEF Kept
      <4>. QED  BY <2>0, <2>2, <4>1, <4>2 DEF TypeInv, PlacesTyped
    <3>5. JobsTyped'
      BY <2>0, <2>4, ForgettingTyped, WantDoes
    <3>6. WorldTyped'
      <4>1. CASE m.kind = "entered"
        <5>1. Placed("move", m.cc) \in Events /\ Placed("move", m.cc).kind = "move"
          BY <2>2, Framed DEF Placed
        <5>. QED  BY <2>0, <2>4, <4>1, <5>1, EventTyped, WantDoes
      <4>2. CASE m.kind # "entered"
        BY <2>0, <2>4, <4>2, Untouched, WantDoes
      <4>. QED  BY <4>1, <4>2
    <3>7. LineTyped'
      BY <2>0, <2>4, Untouched, WantDoes
    <3>. QED  BY <2>3, <3>3, <3>4, <3>5, <3>6, <3>7 DEF TypeInv
  <2>5. CASE ReadConfigured
    <3>1. RecordsTyped'
      BY <2>0, <2>5 DEF ReadConfigured, SentCleared, history, TypeInv, RecordsTyped
    <3>2. PlacesTyped'
      BY <1>0, <2>0, <2>5 DEF ReadConfigured, ViewReset, TypeInv, PlacesTyped
    <3>3. JobsTyped'
      BY <2>0, <2>5, ForgettingTyped DEF ReadConfigured
    <3>4. WorldTyped'
      <4>1. Placed("join", player.at) \in Events /\ Placed("join", player.at).kind = "join"
        BY <1>0, Framed DEF Placed
      <4>. QED  BY <2>0, <2>5, <4>1, EventTyped DEF ReadConfigured
    <3>5. LineTyped'
      <4>. DEFINE f == Placed("rejoin", player.at)
      <4>1. f \in Frames /\ f.kind = "rejoin"
        BY <1>0, Framed DEF Placed
      <4>. HIDE DEF f
      <4>2. out' = Append(out, f) /\ Len(out) < OutCap /\ Made(out, edits)
        BY <2>5 DEF f, ReadConfigured, FrameRoom, TypeInv, LineTyped
      <4>3. Append(out, f) \in Seq(Frames) /\ Len(Append(out, f)) = Len(out) + 1 /\ Len(out) \in Nat
        BY <1>0, <4>1, Appended
      <4>4. Made(Append(out, f), edits)
        BY <1>0, <4>1, <4>2, MadeMore
      <4>5. Len(Append(out, f)) <= OutCap
        BY <1>0, <4>2, <4>3
      <4>. QED  BY <2>0, <4>2, <4>3, <4>4, <4>5 DEF TypeInv, LineTyped
    <3>. QED  BY <2>3, <3>1, <3>2, <3>3, <3>4, <3>5 DEF TypeInv
  <2>. QED  BY <1>1, <2>4, <2>5 DEF Read
<1>2. CASE ReaderEnds \/ CloseSession
  BY <1>2, Untouched DEF ReaderEnds, CloseSession, server, history, TypeInv
<1>. QED  BY <1>1, <1>2

\* The steps of the workers.
LEMMA TypeWorkers ==
  ASSUME TypeInv, NEW w \in Workers, Works(w)
  PROVE  TypeInv'
<1>0. /\ job \in [Workers -> Jobs] /\ job[w] \in Jobs /\ edits \in [Chunks -> Edited]
      /\ \A u \in Workers : job[u].step = "built" => job[u].n <= edits[job[u].cc]
      /\ backlog \in Seq(Chunks) /\ Len(backlog) <= Capacity /\ out \in Seq(Frames)
      /\ OutCap \in Nat /\ Capacity \in Nat
  BY StreamAssumption DEF TypeInv, JobsTyped, WorldTyped, RecordsTyped, LineTyped, Capacity
<1>1. /\ job[w].cc \in Chunks /\ job[w].n \in Edited /\ edits[job[w].cc] \in Edited
      /\ edits[job[w].cc] <= edits[job[w].cc] /\ 0 \in Edited
  BY <1>0, StreamAssumption DEF Jobs, Edited
<1>2. ASSUME NEW j \in Jobs, job' = [job EXCEPT ![w] = j], UNCHANGED edits,
             j.step = "built" => j.n <= edits[j.cc]
      PROVE  JobsTyped'
  BY <1>0, <1>2 DEF JobsTyped
<1>3. CASE Take(w)
  <2>. DEFINE j == [step |-> "taken", cc |-> Head(backlog), n |-> 0,
                    forgotten |-> Head(backlog) \notin sent]
  <2>1. /\ Head(backlog) \in Chunks /\ Tail(backlog) \in Seq(Chunks)
        /\ Len(Tail(backlog)) = Len(backlog) - 1 /\ Len(backlog) \in Nat
    BY <1>0, <1>3, Popped DEF Take
  <2>2. j \in Jobs /\ j.step = "taken"
    BY <1>1, <2>1 DEF Jobs
  <2>3. /\ job' = [job EXCEPT ![w] = j] /\ backlog' = Tail(backlog) /\ UNCHANGED edits
        /\ UNCHANGED <<sent, refused, failed, stale, late>>
    BY <1>3 DEF Take, worker, history
  <2>4. JobsTyped'
    <3>. HIDE DEF j
    <3>. QED  BY <1>2, <2>2, <2>3
  <2>5. RecordsTyped'
    <3>1. Len(Tail(backlog)) <= Capacity
      BY <1>0, <2>1
    <3>. QED  BY <2>1, <2>3, <3>1 DEF TypeInv, RecordsTyped
  <2>. QED  BY <1>3, <2>4, <2>5, Untouched DEF Take, worker, TypeInv
<1>4. ASSUME Finish(w) \/ (Send(w) /\ UNCHANGED out) PROVE JobsTyped'
  <2>1. \E j \in Jobs : j.step \in {"gone", "written"} /\ job' = [job EXCEPT ![w] = j]
    <3>1. \A s \in {"gone", "written"} : [job[w] EXCEPT !.step = s] \in Jobs
             /\ [job[w] EXCEPT !.step = s].step = s
      BY <1>0 DEF Jobs
    <3>2. \E s \in {"gone", "written"} : job' = [job EXCEPT ![w] = [job[w] EXCEPT !.step = s]]
      BY <1>0, <1>4 DEF Finish, Send
    <3>. QED  BY <3>1, <3>2
  <2>. QED  BY <1>2, <1>4, <2>1 DEF Finish, Send, worker
<1>5. CASE Finish(w)
  BY <1>4, <1>5, Untouched DEF Finish, worker, history, TypeInv
<1>6. CASE Build(w)
  <2>. DEFINE j == [job[w] EXCEPT !.step = "built", !.n = edits[job[w].cc]]
  <2>1. j \in Jobs /\ j.n <= edits[j.cc]
    BY <1>0, <1>1 DEF Jobs
  <2>2. job' = [job EXCEPT ![w] = j] /\ UNCHANGED edits
    BY <1>0, <1>6 DEF Build, worker
  <2>. HIDE DEF j
  <2>3. JobsTyped'
    BY <1>2, <2>1, <2>2
  <2>. QED  BY <1>6, <2>3, Untouched DEF Build, worker, history, TypeInv
<1>7. ASSUME job' = [job EXCEPT ![w] = Idle], UNCHANGED edits PROVE JobsTyped'
  <2>1. Idle \in Jobs /\ Idle.step = "idle"
    BY <1>1, StreamAssumption DEF Idle, Jobs
  <2>. QED  BY <1>2, <1>7, <2>1
<1>8. CASE FailBuild(w)
  <2>1. JobsTyped'
    BY <1>7, <1>8 DEF FailBuild, worker
  <2>2. RecordsTyped'
    BY <1>1, <1>8 DEF FailBuild, worker, TypeInv, RecordsTyped
  <2>. QED  BY <1>8, <2>1, <2>2, Untouched DEF FailBuild, worker, TypeInv
<1>9. CASE Send(w)
  <2>1. CASE UNCHANGED out
    BY <1>4, <1>9, <2>1, Untouched DEF Send, worker, history, TypeInv
  <2>2. CASE FrameRoom /\ out' = Append(out, Chunk(job[w].cc, job[w].n))
             /\ job' = [job EXCEPT ![w].step = "written"]
    <3>. DEFINE f == Chunk(job[w].cc, job[w].n)
    <3>1. f \in Frames /\ f.n <= edits[f.cc]
      <4>1. f.n = job[w].n /\ f.cc = job[w].cc /\ job[w].step = "built"
        BY <1>9 DEF Chunk, Send
      <4>. QED  BY <1>0, <1>1, <4>1, Framed
    <3>2. out' = Append(out, f) /\ Len(out) < OutCap /\ Made(out, edits)
      BY <2>2 DEF FrameRoom, TypeInv, LineTyped
    <3>. HIDE DEF f
    <3>3. Append(out, f) \in Seq(Frames) /\ Len(Append(out, f)) = Len(out) + 1 /\ Len(out) \in Nat
      BY <1>0, <3>1, Appended
    <3>4. Made(Append(out, f), edits)
      BY <1>0, <3>1, <3>2, MadeMore
    <3>5. Len(Append(out, f)) <= OutCap
      BY <1>0, <3>2, <3>3
    <3>6. LineTyped'
      BY <1>9, <3>2, <3>3, <3>4, <3>5 DEF Send, worker, TypeInv, LineTyped
    <3>7. JobsTyped'
      <4>. DEFINE j == [job[w] EXCEPT !.step = "written"]
      <4>1. j \in Jobs /\ j.step = "written"
        BY <1>0 DEF Jobs
      <4>2. job' = [job EXCEPT ![w] = j] /\ UNCHANGED edits
        BY <1>0, <1>9, <2>2 DEF Send, worker
      <4>. HIDE DEF j
      <4>. QED  BY <1>2, <4>1, <4>2
    <3>. QED  BY <1>9, <3>6, <3>7, Untouched DEF Send, worker, history, TypeInv
  <2>. QED  BY <1>9, <2>1, <2>2 DEF Send
<1>10. CASE Report(w)
  <2>1. JobsTyped'
    BY <1>7, <1>10 DEF Report, worker
  <2>2. RecordsTyped'
    BY <1>1, <1>10 DEF Report, worker, TypeInv, RecordsTyped
  <2>3. PlacesTyped'
    BY <1>1, <1>10 DEF Report, worker, TypeInv, PlacesTyped
  <2>. QED  BY <1>10, <2>1, <2>2, <2>3, Untouched DEF Report, worker, TypeInv
<1>. QED  BY <1>3, <1>5, <1>6, <1>8, <1>9, <1>10 DEF Works

\* The type invariant is inductive.
LEMMA TypeStep == ASSUME TypeInv, [Next]_vars PROVE TypeInv'
<1>1. CASE UNCHANGED vars
  BY <1>1, Untouched DEF vars, TypeInv
<1>. QED  BY <1>1, TypeClient, TypeWorld, TypeReader, TypeWorkers DEF Next

\* Every variable holds what the code keeps in it: the frame queue and the
\* backlog stay within their sizes, and nothing tells of a change nobody made.
THEOREM TypeAlways == Spec => []TypeOK
<1>1. Spec => []TypeInv
  BY TypeInit, TypeStep, PTL DEF Spec
<1>. QED  BY <1>1, TypesHold, PTL

-----------------------------------------------------------------------------
(* One Want alone never overfills the backlog.                             *)

\* Only the reader leaves chunks out.
LEMMA RefusedByReader ==
  ASSUME Next PROVE UNCHANGED refused \/ Read
<1>1. Client \/ Receive => UNCHANGED refused
  BY DEF Client, Move, Refresh, Receive, server
<1>2. World \/ (\E e \in posting : Post(e)) => UNCHANGED refused
  BY DEF World, Edit, HubEdit, Post, server
<1>3. Hub \/ Pump \/ Reconfigure \/ (\E at \in Owned : SwitchDim(at)) => UNCHANGED refused
  BY DEF Hub, Pump, Reconfigure, SwitchDim, server
<1>4. ReaderEnds \/ CloseSession => UNCHANGED refused
  BY DEF ReaderEnds, CloseSession, server
<1>5. (\E w \in Workers : Works(w)) => UNCHANGED refused
  BY DEF Works, Take, Finish, Build, FailBuild, Send, Report, worker
<1>. QED  BY <1>1, <1>2, <1>3, <1>4, <1>5 DEF Next

\* Up to the spare room, what is left of earlier Wants costs the next one no
\* chunk, whatever the radius, the gate and the order of the window
\* (attach.go:393-397): a chunk newly left out was held back by the gate.
THEOREM DropsAlways == Spec => DropsOnlyInBursts
<1>. DEFINE Drops == \A cc \in refused' \ refused :
                        view'.known /\ Len(backlog) <= Spare => \E gate \in Gates : cc \notin gate
<1>1. ASSUME TypeInv, [Next]_vars PROVE Drops
  <2>1. CASE UNCHANGED refused
    BY <2>1
  <2>2. CASE Read
    <3>. DEFINE m == Head(toServer)
    <3>1. m \in Messages
      BY <1>1, <2>2, Popped DEF Read, TypeInv, ClientTyped
    <3>2. CASE ReadWant(m)
      <4>1. \E gate \in Gates : \E over \in SUBSET Chunks :
            /\ refused' = over \cup (((Around(m.cc, Radius) \cap Owned) \ gate) \ Kept(m.cc, sent))
            /\ Len(backlog) <= Spare => over = {}
        BY <1>1, <3>1, <3>2, WantRead
      <4>. QED  BY <4>1
    <3>3. CASE ReadConfigured
      BY <3>3 DEF ReadConfigured
    <3>. QED  BY <2>2, <3>2, <3>3 DEF Read
  <2>3. CASE UNCHANGED vars
    BY <2>3 DEF vars
  <2>. QED  BY <1>1, <2>1, <2>2, <2>3, RefusedByReader
<1>2. Spec => []TypeInv
  BY TypeInit, TypeStep, PTL DEF Spec
<1>3. TypeInv /\ [Next]_vars => [Drops]_vars
  BY <1>1
<1>. QED  BY <1>2, <1>3, PTL DEF Spec, DropsOnlyInBursts

-----------------------------------------------------------------------------
(* The line of frames, and what a step does to it.                         *)

\* M is L with frame f behind its place k; M is L without its first frame.
Inserts(L, M, k, f) ==
    /\ L \in Seq(Frames) /\ M \in Seq(Frames) /\ f \in Frames
    /\ k \in 0 .. Len(L) /\ Len(M) = Len(L) + 1
    /\ \A i \in 1 .. k : M[i] = L[i]
    /\ M[k + 1] = f
    /\ \A i \in (k + 1) .. Len(L) : M[i + 1] = L[i]
Takes(L, M) ==
    /\ L \in Seq(Frames) /\ M \in Seq(Frames)
    /\ Len(L) >= 1 /\ Len(M) = Len(L) - 1
    /\ \A i \in 1 .. Len(M) : M[i] = L[i + 1]

\* Where the frames of the longer line come from.
LEMMA Inserted ==
  ASSUME NEW L, NEW M, NEW k, NEW f, Inserts(L, M, k, f)
  PROVE  /\ Len(L) \in Nat /\ Len(M) = Len(L) + 1 /\ k \in 0 .. Len(L)
         /\ \A i \in 1 .. Len(M) :
               \/ i \in 1 .. k /\ i \in 1 .. Len(L) /\ M[i] = L[i]
               \/ i = k + 1 /\ M[i] = f
               \/ i \in (k + 2) .. Len(M) /\ i - 1 \in (k + 1) .. Len(L) /\ M[i] = L[i - 1]
         /\ \A i \in 1 .. Len(L) :
               \/ i \in 1 .. k /\ i \in 1 .. Len(M) /\ M[i] = L[i]
               \/ i \in (k + 1) .. Len(L) /\ i + 1 \in (k + 2) .. Len(M) /\ M[i + 1] = L[i]
<1>1. /\ Len(L) \in Nat /\ Len(M) = Len(L) + 1 /\ k \in 0 .. Len(L)
      /\ \A i \in 1 .. k : M[i] = L[i]
      /\ M[k + 1] = f
      /\ \A i \in (k + 1) .. Len(L) : M[i + 1] = L[i]
  BY DEF Inserts
<1>2. ASSUME NEW i \in (k + 2) .. Len(M)
      PROVE  i - 1 \in (k + 1) .. Len(L) /\ M[i] = L[i - 1]
  <2>1. i - 1 \in (k + 1) .. Len(L) /\ (i - 1) + 1 = i
    BY <1>1
  <2>2. M[(i - 1) + 1] = L[i - 1]
    BY <1>1, <2>1
  <2>. QED  BY <2>1, <2>2
<1>3. \A i \in 1 .. Len(M) : i \in 1 .. k \/ i = k + 1 \/ i \in (k + 2) .. Len(M)
  BY <1>1
<1>4. \A i \in 1 .. k : i \in 1 .. Len(L) /\ i \in 1 .. Len(M)
  BY <1>1
<1>5. \A i \in 1 .. Len(L) : i \in 1 .. k \/ (i \in (k + 1) .. Len(L) /\ i + 1 \in (k + 2) .. Len(M))
  BY <1>1
<1>. QED  BY <1>1, <1>2, <1>3, <1>4, <1>5

\* Where the frames of the shorter line come from.
LEMMA Taken ==
  ASSUME NEW L, NEW M, Takes(L, M)
  PROVE  /\ Len(L) \in Nat /\ Len(L) >= 1 /\ Len(M) = Len(L) - 1
         /\ \A i \in 1 .. Len(M) : i + 1 \in 2 .. Len(L) /\ M[i] = L[i + 1]
         /\ \A i \in 1 .. Len(L) : i = 1 \/ (i \in 2 .. Len(L) /\ i - 1 \in 1 .. Len(M) /\ M[i - 1] = L[i])
<1>1. /\ Len(L) \in Nat /\ Len(L) >= 1 /\ Len(M) = Len(L) - 1
      /\ \A i \in 1 .. Len(M) : M[i] = L[i + 1]
  BY DEF Takes
<1>2. ASSUME NEW i \in 1 .. Len(L), i # 1
      PROVE  i \in 2 .. Len(L) /\ i - 1 \in 1 .. Len(M) /\ M[i - 1] = L[i]
  <2>1. i \in 2 .. Len(L) /\ i - 1 \in 1 .. Len(M) /\ (i - 1) + 1 = i
    BY <1>1, <1>2
  <2>2. M[i - 1] = L[(i - 1) + 1]
    BY <1>1, <2>1
  <2>. QED  BY <2>1, <2>2
<1>3. \A i \in 1 .. Len(M) : i + 1 \in 2 .. Len(L)
  BY <1>1
<1>. QED  BY <1>1, <1>2, <1>3

\* Two queues read as one.
LEMMA Joined ==
  ASSUME NEW a \in Seq(Frames), NEW b \in Seq(Frames)
  PROVE  /\ a \o b \in Seq(Frames) /\ Len(a) \in Nat /\ Len(b) \in Nat
         /\ Len(a \o b) = Len(a) + Len(b)
         /\ \A i \in 1 .. Len(a) : (a \o b)[i] = a[i]
         /\ \A i \in 1 .. Len(b) : (a \o b)[Len(a) + i] = b[i]
         /\ \A i \in (Len(a) + 1) .. (Len(a) + Len(b)) : (a \o b)[i] = b[i - Len(a)]
<1>1. /\ a \o b \in Seq(Frames) /\ Len(a) \in Nat /\ Len(b) \in Nat
      /\ Len(a \o b) = Len(a) + Len(b)
      /\ \A i \in 1 .. Len(a) + Len(b) :
            (a \o b)[i] = IF i <= Len(a) THEN a[i] ELSE b[i - Len(a)]
  BY ConcatProperties
<1>. DEFINE s == a \o b
<1>. HIDE DEF s
<1>2. \A i \in 1 .. Len(a) : s[i] = a[i]
  BY <1>1 DEF s
<1>3. \A i \in (Len(a) + 1) .. (Len(a) + Len(b)) : s[i] = b[i - Len(a)]
  BY <1>1 DEF s
<1>4. ASSUME NEW i \in 1 .. Len(b) PROVE s[Len(a) + i] = b[i]
  <2>1. Len(a) + i \in (Len(a) + 1) .. (Len(a) + Len(b)) /\ (Len(a) + i) - Len(a) = i
    BY <1>1
  <2>. QED  BY <1>3, <2>1
<1>. QED  BY <1>1, <1>2, <1>3, <1>4 DEF s

\* A frame put at the end of the session's queue is the last of the line.
LEMMA FeedGrows ==
  ASSUME NEW a \in Seq(Frames), NEW b \in Seq(Frames), NEW f \in Frames
  PROVE  Inserts(a \o b, a \o Append(b, f), Len(a \o b), f)
<1>. DEFINE c == Append(b, f)
            L == a \o b
            M == a \o c
<1>1. /\ c \in Seq(Frames) /\ Len(c) = Len(b) + 1 /\ c[Len(b) + 1] = f
      /\ \A i \in 1 .. Len(b) : c[i] = b[i]
  BY Appended
<1>. HIDE DEF c
<1>2. /\ L \in Seq(Frames) /\ Len(a) \in Nat /\ Len(b) \in Nat /\ Len(L) = Len(a) + Len(b)
      /\ \A i \in 1 .. Len(a) : L[i] = a[i]
      /\ \A i \in (Len(a) + 1) .. (Len(a) + Len(b)) : L[i] = b[i - Len(a)]
  BY Joined
<1>3. /\ M \in Seq(Frames) /\ Len(M) = Len(a) + Len(c)
      /\ \A i \in 1 .. Len(a) : M[i] = a[i]
      /\ \A i \in (Len(a) + 1) .. (Len(a) + Len(c)) : M[i] = c[i - Len(a)]
  BY <1>1, Joined
<1>. HIDE DEF L, M
<1>4. ASSUME NEW i \in 1 .. Len(L) PROVE M[i] = L[i]
  <2>1. CASE i <= Len(a)
    BY <1>2, <1>3, <2>1
  <2>2. CASE i > Len(a)
    <3>1. /\ i \in (Len(a) + 1) .. (Len(a) + Len(b)) /\ i \in (Len(a) + 1) .. (Len(a) + Len(c))
          /\ i - Len(a) \in 1 .. Len(b)
      BY <1>1, <1>2, <2>2
    <3>. QED  BY <1>1, <1>2, <1>3, <3>1
  <2>. QED  BY <1>2, <2>1, <2>2
<1>5. Len(M) = Len(L) + 1 /\ M[Len(L) + 1] = f
  <2>1. /\ Len(L) + 1 \in (Len(a) + 1) .. (Len(a) + Len(c)) /\ (Len(L) + 1) - Len(a) = Len(b) + 1
        /\ Len(a) + Len(c) = Len(L) + 1
    BY <1>1, <1>2
  <2>. QED  BY <1>1, <1>3, <2>1
<1>6. Inserts(L, M, Len(L), f)
  BY <1>2, <1>3, <1>4, <1>5 DEF Inserts
<1>. QED  BY <1>6 DEF L, M, c

\* A frame put at the end of the frame queue slips in before what the
\* session's queue has yet to add.
LEMMA OutGrows ==
  ASSUME NEW a \in Seq(Frames), NEW b \in Seq(Frames), NEW f \in Frames
  PROVE  Inserts(a \o b, Append(a, f) \o b, Len(a), f)
<1>. DEFINE c == Append(a, f)
            L == a \o b
            M == c \o b
<1>1. /\ c \in Seq(Frames) /\ Len(c) = Len(a) + 1 /\ c[Len(a) + 1] = f
      /\ \A i \in 1 .. Len(a) : c[i] = a[i]
  BY Appended
<1>. HIDE DEF c
<1>2. /\ L \in Seq(Frames) /\ Len(a) \in Nat /\ Len(b) \in Nat /\ Len(L) = Len(a) + Len(b)
      /\ \A i \in 1 .. Len(a) : L[i] = a[i]
      /\ \A i \in (Len(a) + 1) .. (Len(a) + Len(b)) : L[i] = b[i - Len(a)]
  BY Joined
<1>3. /\ M \in Seq(Frames) /\ Len(M) = Len(c) + Len(b)
      /\ \A i \in 1 .. Len(c) : M[i] = c[i]
      /\ \A i \in (Len(c) + 1) .. (Len(c) + Len(b)) : M[i] = b[i - Len(c)]
  BY <1>1, Joined
<1>. HIDE DEF L, M
<1>4. \A i \in 1 .. Len(a) : M[i] = L[i]
  BY <1>1, <1>2, <1>3
<1>5. M[Len(a) + 1] = f /\ Len(M) = Len(L) + 1
  BY <1>1, <1>2, <1>3
<1>6. ASSUME NEW i \in (Len(a) + 1) .. Len(L) PROVE M[i + 1] = L[i]
  <2>1. i + 1 \in (Len(c) + 1) .. (Len(c) + Len(b)) /\ (i + 1) - Len(c) = i - Len(a)
    BY <1>1, <1>2
  <2>2. i \in (Len(a) + 1) .. (Len(a) + Len(b))
    BY <1>2
  <2>. QED  BY <1>2, <1>3, <2>1, <2>2
<1>7. Len(a) \in 0 .. Len(L)
  BY <1>2
<1>8. Inserts(L, M, Len(a), f)
  BY <1>2, <1>3, <1>4, <1>5, <1>6, <1>7 DEF Inserts
<1>. QED  BY <1>8 DEF L, M, c

\* A frame that passes from the session's queue to the frame queue keeps its
\* place in the line.
LEMMA FramePasses ==
  ASSUME NEW a \in Seq(Frames), NEW b \in Seq(Frames), b # <<>>
  PROVE  Append(a, Head(b)) \o Tail(b) = a \o b
<1>. DEFINE c == Append(a, Head(b))
            t == Tail(b)
            L == a \o b
            M == c \o t
<1>1. /\ Head(b) = b[1] /\ Head(b) \in Frames /\ t \in Seq(Frames) /\ Len(b) \in Nat /\ Len(b) >= 1
      /\ Len(t) = Len(b) - 1 /\ \A i \in 1 .. (Len(b) - 1) : t[i] = b[i + 1]
  BY Popped
<1>2. /\ c \in Seq(Frames) /\ Len(c) = Len(a) + 1 /\ c[Len(a) + 1] = b[1] /\ Len(a) \in Nat
      /\ \A i \in 1 .. Len(a) : c[i] = a[i]
  BY <1>1, Appended
<1>. HIDE DEF c, t
<1>3. /\ L \in Seq(Frames) /\ Len(L) = Len(a) + Len(b)
      /\ \A i \in 1 .. Len(a) : L[i] = a[i]
      /\ \A i \in (Len(a) + 1) .. (Len(a) + Len(b)) : L[i] = b[i - Len(a)]
  BY Joined
<1>4. /\ M \in Seq(Frames) /\ Len(M) = Len(c) + Len(t)
      /\ \A i \in 1 .. Len(c) : M[i] = c[i]
      /\ \A i \in (Len(c) + 1) .. (Len(c) + Len(t)) : M[i] = t[i - Len(c)]
  BY <1>1, <1>2, Joined
<1>. HIDE DEF L, M
<1>5. Len(M) = Len(L)
  BY <1>1, <1>2, <1>3, <1>4
<1>6. ASSUME NEW i \in 1 .. Len(M) PROVE M[i] = L[i]
  <2>1. CASE i <= Len(a)
    BY <1>2, <1>3, <1>4, <2>1
  <2>2. CASE i = Len(a) + 1
    <3>1. i \in 1 .. Len(c) /\ i \in (Len(a) + 1) .. (Len(a) + Len(b)) /\ i - Len(a) = 1
      BY <1>1, <1>2, <2>2
    <3>. QED  BY <1>2, <1>3, <1>4, <2>2, <3>1
  <2>3. CASE i > Len(a) + 1
    <3>1. /\ i \in (Len(c) + 1) .. (Len(c) + Len(t)) /\ i \in (Len(a) + 1) .. (Len(a) + Len(b))
          /\ i - Len(c) \in 1 .. (Len(b) - 1) /\ (i - Len(c)) + 1 = i - Len(a)
      BY <1>1, <1>2, <1>4, <2>3
    <3>2. \A j \in 1 .. (Len(b) - 1) : j + 1 = i - Len(a) => t[j] = b[i - Len(a)]
      BY <1>1
    <3>3. t[i - Len(c)] = b[i - Len(a)]
      BY <3>1, <3>2
    <3>. QED  BY <1>3, <1>4, <3>1, <3>3
  <2>. QED  BY <1>2, <1>4, <2>1, <2>2, <2>3
<1>7. M = L
  BY <1>3, <1>4, <1>5, <1>6, SeqEqual
<1>. QED  BY <1>7 DEF L, M, c, t

\* The client takes the first frame of the line.
LEMMA FrameTaken ==
  ASSUME NEW a \in Seq(Frames), NEW b \in Seq(Frames), a # <<>>
  PROVE  Takes(a \o b, Tail(a) \o b) /\ (a \o b)[1] = Head(a)
<1>. DEFINE t == Tail(a)
            L == a \o b
            M == t \o b
<1>1. /\ Head(a) = a[1] /\ t \in Seq(Frames) /\ Len(a) \in Nat /\ Len(a) >= 1
      /\ Len(t) = Len(a) - 1 /\ \A i \in 1 .. (Len(a) - 1) : t[i] = a[i + 1]
  BY Popped
<1>. HIDE DEF t
<1>2. /\ L \in Seq(Frames) /\ Len(L) = Len(a) + Len(b) /\ Len(b) \in Nat
      /\ \A i \in 1 .. Len(a) : L[i] = a[i]
      /\ \A i \in (Len(a) + 1) .. (Len(a) + Len(b)) : L[i] = b[i - Len(a)]
  BY Joined
<1>3. /\ M \in Seq(Frames) /\ Len(M) = Len(t) + Len(b)
      /\ \A i \in 1 .. Len(t) : M[i] = t[i]
      /\ \A i \in (Len(t) + 1) .. (Len(t) + Len(b)) : M[i] = b[i - Len(t)]
  BY <1>1, Joined
<1>. HIDE DEF L, M
<1>4. Len(L) >= 1 /\ Len(M) = Len(L) - 1 /\ L[1] = Head(a)
  BY <1>1, <1>2, <1>3
<1>5. ASSUME NEW i \in 1 .. Len(M) PROVE M[i] = L[i + 1]
  <2>1. CASE i <= Len(t)
    BY <1>1, <1>2, <1>3, <2>1
  <2>2. CASE i > Len(t)
    <3>1. /\ i \in (Len(t) + 1) .. (Len(t) + Len(b)) /\ i + 1 \in (Len(a) + 1) .. (Len(a) + Len(b))
          /\ (i + 1) - Len(a) = i - Len(t)
      BY <1>1, <1>2, <1>3, <2>2
    <3>. QED  BY <1>2, <1>3, <3>1
  <2>. QED  BY <1>1, <1>3, <2>1, <2>2
<1>6. Takes(L, M)
  BY <1>2, <1>3, <1>4, <1>5 DEF Takes
<1>. QED  BY <1>4, <1>6 DEF L, M, t

\* What a step of a session that is not over does to the line.
LEMMA Lines ==
  ASSUME TypeInv
  PROVE  /\ Line \in Seq(Frames) /\ Len(Line) \in Nat /\ Len(out) \in 0 .. Len(Line)
         /\ UNCHANGED <<out, feed>> => Line' = Line
         /\ \A f \in Frames : feed' = Append(feed, f) /\ UNCHANGED out =>
               Inserts(Line, Line', Len(Line), f)
         /\ \A f \in Frames : out' = Append(out, f) /\ UNCHANGED feed =>
               Inserts(Line, Line', Len(out), f)
         /\ Receive => Takes(Line, Line') /\ Line[1] = Head(out)
         /\ Pump /\ ~closing.done => Line' = Line
<1>1. out \in Seq(Frames) /\ feed \in Seq(Frames)
  BY DEF TypeInv, LineTyped
<1>2. Line \in Seq(Frames) /\ Len(Line) = Len(out) + Len(feed) /\ Len(out) \in Nat /\ Len(feed) \in Nat
  BY <1>1, Joined DEF Line
<1>3. UNCHANGED <<out, feed>> => Line' = Line
  BY DEF Line
<1>4. ASSUME NEW f \in Frames, feed' = Append(feed, f), UNCHANGED out
      PROVE  Inserts(Line, Line', Len(Line), f)
  BY <1>1, <1>4, FeedGrows DEF Line
<1>5. ASSUME NEW f \in Frames, out' = Append(out, f), UNCHANGED feed
      PROVE  Inserts(Line, Line', Len(out), f)
  BY <1>1, <1>5, OutGrows DEF Line
<1>6. ASSUME Receive PROVE Takes(Line, Line') /\ Line[1] = Head(out)
  <2>1. out # <<>> /\ out' = Tail(out) /\ feed' = feed
    BY <1>6 DEF Receive
  <2>. QED  BY <1>1, <2>1, FrameTaken DEF Line
<1>7. ASSUME Pump, ~closing.done PROVE Line' = Line
  <2>1. feed # <<>> /\ out' = Append(out, Head(feed)) /\ feed' = Tail(feed)
    BY <1>7 DEF Pump
  <2>. QED  BY <1>1, <2>1, FramePasses DEF Line
<1>. QED  BY <1>2, <1>3, <1>4, <1>5, <1>6, <1>7

-----------------------------------------------------------------------------
(* Where the line leads the client.                                        *)

\* What holds of a frame where the client is in dimension p, and where it is
\* behind it.
Fits(f, p, S) ==
    /\ f.kind = "respawn" => f.cc[1] # p
    /\ f.kind = "block" => f.cc[1] = p \/ <<p, f.cc[2]>> \in S
Behind(f, p) == IF Placing(f) THEN f.cc[1] ELSE p

\* More chunks left stale do no harm.
LEMMA LeadsMore ==
  ASSUME NEW D, NEW L, NEW d, NEW e, NEW S, NEW R, S \subseteq R, Leads(D, L, d, e, S)
  PROVE  Leads(D, L, d, e, R)
BY DEF Leads

\* A frame at the end of the line.
LEMMA LeadsOn ==
  ASSUME NEW L, NEW M, NEW f, Inserts(L, M, Len(L), f), NEW S,
         NEW D \in Paths(Len(L)), NEW d, NEW e, Leads(D, L, d, e, S), Fits(f, e, S)
  PROVE  \E E \in Paths(Len(M)) : Leads(E, M, d, Behind(f, e), S)
<1>. DEFINE n == Len(L)
            E == [i \in 0 .. Len(M) |-> IF i <= n THEN D[i] ELSE Behind(f, e)]
<1>1. /\ n \in Nat /\ Len(M) = n + 1 /\ M[n + 1] = f /\ f \in Frames
      /\ \A i \in 1 .. n : M[i] = L[i]
  BY DEF Inserts
<1>2. D[0] = d /\ D[n] = e /\ \A i \in 0 .. n : D[i] \in Dims
  BY <1>1 DEF Leads, Paths
<1>3. Behind(f, e) \in Dims
  BY <1>1, <1>2 DEF Behind, Frames, Chunks
<1>4. E \in Paths(Len(M))
  BY <1>1, <1>2, <1>3 DEF Paths
<1>5. E[0] = d /\ E[Len(M)] = Behind(f, e) /\ E[n] = e /\ \A i \in 0 .. n : E[i] = D[i]
  BY <1>1, <1>2
<1>. HIDE DEF E
<1>6. ASSUME NEW i \in 1 .. Len(M)
      PROVE  E[i] = Behind(M[i], E[i - 1]) /\ Fits(M[i], E[i - 1], S)
  <2>1. CASE i <= n
    <3>1. i \in 1 .. n /\ i \in 0 .. n /\ i - 1 \in 0 .. n
      BY <1>1, <2>1
    <3>. QED  BY <1>1, <1>5, <3>1 DEF Leads, Behind, Fits
  <2>2. CASE i = n + 1
    <3>1. i - 1 = n /\ i = Len(M)
      BY <1>1, <2>2
    <3>. QED  BY <1>1, <1>5, <2>2, <3>1
  <2>. QED  BY <1>1, <2>1, <2>2
<1>7. Leads(E, M, d, Behind(f, e), S)
  BY <1>5, <1>6 DEF Leads, Behind, Fits
<1>. QED  BY <1>4, <1>7

\* A frame that takes the client nowhere, anywhere in the line.
LEMMA LeadsThrough ==
  ASSUME NEW L, NEW M, NEW k, NEW f, Inserts(L, M, k, f), f.kind \in {"chunk", "config"},
         NEW S, NEW D \in Paths(Len(L)), NEW d, NEW e, Leads(D, L, d, e, S)
  PROVE  \E E \in Paths(Len(M)) : Leads(E, M, d, e, S)
<1>. DEFINE n == Len(L)
            E == [i \in 0 .. Len(M) |-> IF i <= k THEN D[i] ELSE D[i - 1]]
<1>1. /\ n \in Nat /\ Len(M) = n + 1 /\ k \in 0 .. n /\ M[k + 1] = f
      /\ \A i \in 1 .. k : M[i] = L[i]
      /\ \A i \in (k + 1) .. n : M[i + 1] = L[i]
  BY DEF Inserts
<1>2. D[0] = d /\ D[n] = e /\ \A i \in 0 .. n : D[i] \in Dims
  BY <1>1 DEF Leads, Paths
<1>3. E \in Paths(Len(M))
  <2>1. ASSUME NEW i \in 0 .. Len(M) PROVE E[i] \in Dims
    <3>1. i <= k => i \in 0 .. n
      BY <1>1
    <3>2. ~(i <= k) => i - 1 \in 0 .. n
      BY <1>1
    <3>. QED  BY <1>2, <3>1, <3>2
  <2>. QED  BY <2>1 DEF Paths
<1>4. /\ \A i \in 0 .. k : E[i] = D[i]
      /\ \A i \in (k + 1) .. (n + 1) : E[i] = D[i - 1]
  BY <1>1
<1>. HIDE DEF E
<1>5. E[0] = d /\ E[Len(M)] = e
  <2>1. 0 \in 0 .. k /\ n + 1 \in (k + 1) .. (n + 1) /\ (n + 1) - 1 = n
    BY <1>1
  <2>. QED  BY <1>1, <1>2, <1>4, <2>1
<1>6. \A i \in 1 .. n : D[i] = Behind(L[i], D[i - 1]) /\ Fits(L[i], D[i - 1], S)
  BY DEF Leads, Behind, Fits
<1>7. ASSUME NEW i \in 1 .. Len(M)
      PROVE  E[i] = Behind(M[i], E[i - 1]) /\ Fits(M[i], E[i - 1], S)
  <2>1. CASE i <= k
    <3>1. i \in 1 .. n /\ i \in 1 .. k /\ i \in 0 .. k /\ i - 1 \in 0 .. k
      BY <1>1, <2>1
    <3>. QED  BY <1>1, <1>4, <1>6, <3>1
  <2>2. CASE i = k + 1
    <3>1. i \in (k + 1) .. (n + 1) /\ i - 1 = k /\ k \in 0 .. k
      BY <1>1, <2>2
    <3>2. E[i] = D[k] /\ E[i - 1] = D[k]
      BY <1>4, <3>1
    <3>3. Behind(f, D[k]) = D[k] /\ Fits(f, D[k], S)
      BY DEF Behind, Fits, Placing
    <3>. QED  BY <1>1, <2>2, <3>2, <3>3
  <2>3. CASE i > k + 1
    <3>1. /\ i \in (k + 1) .. (n + 1) /\ i - 1 \in (k + 1) .. (n + 1) /\ i - 1 \in 1 .. n
          /\ ~(i \in 1 .. k)
      BY <1>1, <2>3
    <3>2. M[i] = L[i - 1]
      BY <1>1, <2>3, <3>1, Inserted
    <3>3. E[i] = D[i - 1] /\ E[i - 1] = D[(i - 1) - 1]
      BY <1>4, <3>1
    <3>. QED  BY <1>6, <3>1, <3>2, <3>3
  <2>. QED  BY <1>1, <2>1, <2>2, <2>3
<1>8. Leads(E, M, d, e, S)
  BY <1>5, <1>7 DEF Leads, Behind, Fits
<1>. QED  BY <1>3, <1>8

\* A rejoin in a line of chunks.
LEMMA LeadsBack ==
  ASSUME NEW L, NEW M, NEW k, NEW f, Inserts(L, M, k, f), f.kind = "rejoin",
         Only(L, {"chunk"}), NEW S, NEW d \in Dims
  PROVE  \E E \in Paths(Len(M)) : Leads(E, M, d, f.cc[1], S)
<1>. DEFINE n == Len(L)
            E == [i \in 0 .. Len(M) |-> IF i <= k THEN d ELSE f.cc[1]]
<1>1. /\ n \in Nat /\ Len(M) = n + 1 /\ k \in 0 .. n /\ M[k + 1] = f /\ f \in Frames
      /\ \A i \in 1 .. k : M[i] = L[i]
      /\ \A i \in (k + 1) .. n : M[i + 1] = L[i]
  BY DEF Inserts
<1>2. f.cc[1] \in Dims
  BY <1>1 DEF Frames, Chunks
<1>3. E \in Paths(Len(M))
  BY <1>2 DEF Paths
<1>4. /\ \A i \in 0 .. k : E[i] = d
      /\ \A i \in (k + 1) .. (n + 1) : E[i] = f.cc[1]
  BY <1>1
<1>. HIDE DEF E
<1>5. E[0] = d /\ E[Len(M)] = f.cc[1]
  BY <1>1, <1>4
<1>6. \A i \in 1 .. n : L[i].kind = "chunk"
  BY DEF Only
<1>7. ASSUME NEW i \in 1 .. Len(M)
      PROVE  E[i] = Behind(M[i], E[i - 1]) /\ Fits(M[i], E[i - 1], S)
  <2>1. CASE i <= k
    <3>1. i \in 1 .. n /\ i \in 1 .. k /\ i \in 0 .. k /\ i - 1 \in 0 .. k
      BY <1>1, <2>1
    <3>2. M[i].kind = "chunk" /\ E[i] = E[i - 1]
      BY <1>1, <1>4, <1>6, <3>1
    <3>. QED  BY <3>2 DEF Behind, Fits, Placing
  <2>2. CASE i = k + 1
    <3>1. i \in (k + 1) .. (n + 1)
      BY <1>1, <2>2
    <3>2. M[i] = f /\ E[i] = f.cc[1]
      BY <1>1, <1>4, <2>2, <3>1
    <3>. QED  BY <3>2 DEF Behind, Fits, Placing
  <2>3. CASE i > k + 1
    <3>1. /\ i \in (k + 1) .. (n + 1) /\ i - 1 \in (k + 1) .. (n + 1) /\ i - 1 \in 1 .. n
          /\ ~(i \in 1 .. k) /\ i # k + 1
      BY <1>1, <2>3
    <3>2. M[i] = L[i - 1] /\ E[i] = E[i - 1]
      <4>1. M[i] = L[i - 1]
        BY <3>1, Inserted
      <4>. QED  BY <1>4, <3>1, <4>1
    <3>3. M[i].kind = "chunk"
      BY <1>6, <3>1, <3>2
    <3>. QED  BY <3>2, <3>3 DEF Behind, Fits, Placing
  <2>. QED  BY <1>1, <2>1, <2>2, <2>3
<1>8. Leads(E, M, d, f.cc[1], S)
  BY <1>5, <1>7 DEF Leads, Behind, Fits
<1>. QED  BY <1>3, <1>8

\* The line behind its first frame.
LEMMA LeadsFrom ==
  ASSUME NEW L, NEW M, Takes(L, M), NEW S,
         NEW D \in Paths(Len(L)), NEW d, NEW e, Leads(D, L, d, e, S)
  PROVE  /\ Fits(L[1], d, S)
         /\ \E E \in Paths(Len(M)) : Leads(E, M, Behind(L[1], d), e, S)
<1>. DEFINE n == Len(L)
            E == [i \in 0 .. Len(M) |-> D[i + 1]]
<1>1. n \in Nat /\ n >= 1 /\ Len(M) = n - 1 /\ \A i \in 1 .. (n - 1) : M[i] = L[i + 1]
  BY DEF Takes
<1>2. D[0] = d /\ D[n] = e /\ \A i \in 0 .. n : D[i] \in Dims
  BY <1>1 DEF Leads, Paths
<1>3. \A i \in 1 .. n : D[i] = Behind(L[i], D[i - 1]) /\ Fits(L[i], D[i - 1], S)
  BY DEF Leads, Behind, Fits
<1>4. Fits(L[1], d, S) /\ D[1] = Behind(L[1], d)
  <2>1. 1 \in 1 .. n /\ 1 - 1 = 0
    BY <1>1
  <2>. QED  BY <1>2, <1>3, <2>1
<1>5. E \in Paths(Len(M))
  BY <1>1, <1>2 DEF Paths
<1>6. \A i \in 0 .. (n - 1) : E[i] = D[i + 1]
  BY <1>1
<1>. HIDE DEF E
<1>7. E[0] = Behind(L[1], d) /\ E[Len(M)] = e
  <2>1. 0 \in 0 .. (n - 1) /\ n - 1 \in 0 .. (n - 1) /\ (n - 1) + 1 = n /\ 0 + 1 = 1
    BY <1>1
  <2>. QED  BY <1>1, <1>2, <1>4, <1>6, <2>1
<1>8. ASSUME NEW i \in 1 .. Len(M)
      PROVE  E[i] = Behind(M[i], E[i - 1]) /\ Fits(M[i], E[i - 1], S)
  <2>1. /\ i \in 0 .. (n - 1) /\ i - 1 \in 0 .. (n - 1) /\ i + 1 \in 1 .. n
        /\ (i + 1) - 1 = i /\ (i - 1) + 1 = i /\ i \in 1 .. (n - 1)
    BY <1>1
  <2>2. E[i] = D[i + 1] /\ E[i - 1] = D[i] /\ M[i] = L[i + 1]
    BY <1>1, <1>6, <2>1
  <2>3. D[i + 1] = Behind(L[i + 1], D[i]) /\ Fits(L[i + 1], D[i], S)
    BY <1>3, <2>1
  <2>. QED  BY <2>2, <2>3
<1>9. Leads(E, M, Behind(L[1], d), e, S)
  BY <1>7, <1>8 DEF Leads, Behind, Fits
<1>. QED  BY <1>4, <1>5, <1>9

\* A broadcast puts its update at the end of the line, or leaves the chunk
\* stale.  An update that is not to the last change leaves it stale too,
\* unless that of the last is yet to come to the hub; so does, for the chunk
\* at its place, one to another dimension than the session's.
LEMMA BroadcastLine ==
  ASSUME TypeInv, NEW e \in Events, e.kind = "block", Broadcast(e), UNCHANGED out
  PROVE  /\ e \in Frames /\ stale \subseteq stale'
         /\ \/ Line' = Line /\ UNCHANGED feed /\ e.cc \in stale'
            \/ /\ Inserts(Line, Line', Len(Line), e) /\ feed' = Append(feed, e) /\ player.in
               /\ e.cc[1] = player.session[1] \/ <<player.session[1], e.cc[2]>> \in stale'
               /\ \/ ~(e.n < edits[e.cc]) \/ e.cc \in stale'
                  \/ Block(e.cc, edits[e.cc]) \in posting \cup Range(hubQueue)
<1>1. e \in Frames
  BY Broadcasts
<1>2. PICK sends \in BOOLEAN :
               /\ feed' = IF sends THEN Append(feed, e) ELSE feed
               /\ stale' = stale \cup Hidden(e, sends)
               /\ sends => player.in
  BY Broadcasts
<1>3. CASE ~sends
  <2>1. e.cc \in Hidden(e, sends)
    BY <1>3 DEF Hidden
  <2>2. UNCHANGED feed
    BY <1>2, <1>3
  <2>. QED  BY <1>1, <1>2, <2>1, <2>2, Lines
<1>4. CASE sends
  <2>1. feed' = Append(feed, e) /\ player.in
    BY <1>2, <1>4
  <2>2. Inserts(Line, Line', Len(Line), e)
    BY <1>1, <2>1, Lines
  <2>3. e.cc \in Chunks /\ player.session \in Chunks
    BY <1>1 DEF Frames, TypeInv, PlacesTyped
  <2>4. <<player.session[1], e.cc[2]>> \in Chunks
    BY <2>3 DEF Chunks
  <2>5. e.cc[1] = player.session[1] \/ <<player.session[1], e.cc[2]>> \in Hidden(e, sends)
    <3>1. <<player.session[1], e.cc[2]>> = e.cc => e.cc[1] = player.session[1]
      BY <2>3 DEF Chunks
    <3>. QED  BY <1>4, <2>4, <3>1 DEF Hidden
  <2>6. \/ ~(e.n < edits[e.cc]) \/ e.cc \in Hidden(e, sends)
        \/ Block(e.cc, edits[e.cc]) \in posting \cup Range(hubQueue)
    BY <1>4 DEF Hidden
  <2>. QED  BY <1>1, <1>2, <2>1, <2>2, <2>5, <2>6
<1>. QED  BY <1>3, <1>4

\* Steps that leave alone where the client is led.
LEMMA SwitchesSteady ==
  ASSUME Switches, Line' = Line, client.at[1]' = client.at[1],
         player.session[1]' = player.session[1], stale \subseteq stale'
  PROVE  Switches'
<1>1. PICK D \in Paths(Len(Line)) : Leads(D, Line, client.at[1], player.session[1], stale)
  BY DEF Switches
<1>2. Leads(D, Line, client.at[1], player.session[1], stale')
  BY <1>1, LeadsMore
<1>. QED  BY <1>1, <1>2 DEF Switches

\* An update sent to the session.
LEMMA SwitchesTold ==
  ASSUME TypeInv, Switches, NEW e \in Events, e.kind = "block", Broadcast(e),
         UNCHANGED <<out, client, player>>
  PROVE  Switches'
<1>1. e \in Frames /\ stale \subseteq stale'
  BY BroadcastLine
<1>2. CASE Line' = Line
  BY <1>1, <1>2, SwitchesSteady
<1>3. CASE /\ Inserts(Line, Line', Len(Line), e)
           /\ e.cc[1] = player.session[1] \/ <<player.session[1], e.cc[2]>> \in stale'
  <2>. DEFINE d == client.at[1]
              p == player.session[1]
  <2>1. PICK D \in Paths(Len(Line)) : Leads(D, Line, d, p, stale)
    BY DEF Switches
  <2>2. Leads(D, Line, d, p, stale')
    BY <1>1, <2>1, LeadsMore
  <2>3. Fits(e, p, stale') /\ Behind(e, p) = p
    BY <1>3 DEF Fits, Behind, Placing
  <2>4. \E E \in Paths(Len(Line')) : Leads(E, Line', d, p, stale')
    <3>. HIDE DEF d, p
    <3>. QED  BY <1>3, <2>1, <2>2, <2>3, LeadsOn
  <2>. QED  BY <2>4 DEF Switches
<1>. QED  BY <1>2, <1>3, BroadcastLine

\* Where the client is led stays right.
LEMMA SwitchesStep ==
  ASSUME TypeInv, Switches, Staged, Next, ~closing.done
  PROVE  Switches'
<1>. DEFINE d == client.at[1]
            p == player.session[1]
<1>0. PICK D \in Paths(Len(Line)) : Leads(D, Line, d, p, stale)
  BY DEF Switches
<1>1. /\ client \in [at : Chunks, configuring : BOOLEAN] /\ d \in Dims
      /\ player \in [in : BOOLEAN, at : Chunks, session : Chunks]
      /\ out \in Seq(Frames) /\ feed \in Seq(Frames)
      /\ hubQueue \in Seq(Events) /\ toServer \in Seq(Messages) /\ Owned \subseteq Chunks
      /\ Busy \subseteq Chunks
  BY StreamAssumption DEF TypeInv, PlacesTyped, LineTyped, WorldTyped, ClientTyped, Chunks
<1>2. CASE Client
  <2>1. UNCHANGED <<out, feed, player, stale>> /\ client.at[1]' = client.at[1]
    <3>1. UNCHANGED <<out, feed, player, stale>>
      BY <1>2 DEF Client, Move, Refresh, server, history
    <3>2. ASSUME NEW x \in Xs, Move(x) PROVE client.at[1]' = client.at[1]
      <4>1. client' = [client EXCEPT !.at = <<client.at[1], x>>]
        BY <3>2 DEF Move
      <4>2. client'.at = <<client.at[1], x>>
        BY <1>1, <4>1
      <4>. QED  BY <4>2
    <3>3. Refresh => client.at[1]' = client.at[1]
      BY DEF Refresh
    <3>. QED  BY <1>2, <3>1, <3>2, <3>3 DEF Client
  <2>. QED  BY <2>1, Lines, SwitchesSteady
<1>3. CASE Receive
  <2>. DEFINE f == Head(out)
  <2>1. Takes(Line, Line') /\ Line[1] = f
    BY <1>3, Lines
  <2>2. \E E \in Paths(Len(Line')) : Leads(E, Line', Behind(f, d), p, stale)
    <3>. HIDE DEF d, p, f
    <3>. QED  BY <1>0, <2>1, LeadsFrom
  <2>3. client.at[1]' = Behind(f, d)
    BY <1>1, <1>3 DEF Receive, Behind, Placing
  <2>4. UNCHANGED <<player, stale>>
    BY <1>3 DEF Receive, server, history
  <2>. QED  BY <2>2, <2>3, <2>4 DEF Switches
<1>4. ASSUME NEW cc \in Busy, Edit(cc) PROVE Switches'
  <2>1. UNCHANGED <<out, feed, player, stale, client>>
    BY <1>4 DEF Edit, server, history
  <2>. QED  BY <2>1, Lines, SwitchesSteady
<1>5. ASSUME NEW cc \in Busy, HubEdit(cc) PROVE Switches'
  <2>. DEFINE e == Block(cc, edits[cc] + 1)
  <2>1. Broadcast(e) /\ UNCHANGED <<out, client, player>> /\ edits[cc] < MaxEdits
    BY <1>5 DEF HubEdit, server, NewState
  <2>2. edits[cc] + 1 \in Edited
    BY <1>1, <2>1, NextEdit
  <2>3. e \in Events /\ e.kind = "block"
    BY <1>1, <2>2, Framed DEF Block
  <2>. HIDE DEF e
  <2>. QED  BY <2>1, <2>3, SwitchesTold
<1>6. ASSUME NEW e \in posting, Post(e) PROVE Switches'
  <2>1. UNCHANGED <<out, feed, player, stale, client>>
    BY <1>6 DEF Post, server, history
  <2>. QED  BY <2>1, Lines, SwitchesSteady
<1>7. CASE Hub
  <2>. DEFINE e == Head(hubQueue)
  <2>1. e \in Events
    BY <1>1, <1>7, Popped DEF Hub
  <2>2. CASE e.kind = "block"
    <3>1. Broadcast(e) /\ UNCHANGED <<out, client, player>>
      BY <1>7, <2>2 DEF Hub
    <3>. QED  BY <2>1, <2>2, <3>1, SwitchesTold
  <2>3. CASE e.kind # "block"
    <3>1. UNCHANGED <<out, feed, stale, client>> /\ player'.session = player.session
      <4>1. e.kind \in {"move", "dim", "join"}
        BY <2>1, <2>3 DEF Events
      <4>2. CASE e.kind = "move"
        BY <1>1, <1>7, <4>2 DEF Hub
      <4>3. CASE e.kind = "dim"
        BY <1>1, <1>7, <4>3 DEF Hub
      <4>4. CASE e.kind = "join"
        BY <1>1, <1>7, <4>4 DEF Hub
      <4>. QED  BY <4>1, <4>2, <4>3, <4>4
    <3>. QED  BY <3>1, Lines, SwitchesSteady
  <2>. QED  BY <2>2, <2>3
<1>8. CASE Pump
  <2>1. Line' = Line /\ UNCHANGED <<client, player>> /\ stale \subseteq stale'
    BY <1>8, Lines DEF Pump, server
  <2>. QED  BY <2>1, SwitchesSteady
<1>9. CASE Reconfigure
  <2>. DEFINE f == Placed("config", player.at)
  <2>1. f \in Frames /\ f.kind = "config"
    BY <1>1, Framed DEF Placed
  <2>2. feed' = Append(feed, f) /\ UNCHANGED <<out, client, stale>> /\ player'.session = player.session
    BY <1>1, <1>9 DEF Reconfigure, history
  <2>3. Inserts(Line, Line', Len(Line), f)
    BY <2>1, <2>2, Lines
  <2>4. \E E \in Paths(Len(Line')) : Leads(E, Line', d, p, stale)
    <3>. HIDE DEF d, p, f
    <3>. QED  BY <1>0, <2>1, <2>3, LeadsThrough
  <2>. QED  BY <2>2, <2>4 DEF Switches
<1>10. ASSUME NEW at \in Owned, SwitchDim(at) PROVE Switches'
  <2>. DEFINE f == Placed("respawn", at)
  <2>1. f \in Frames /\ f.kind = "respawn" /\ f.cc = at
    BY <1>1, Framed DEF Placed
  <2>2. /\ feed' = Append(feed, f) /\ UNCHANGED <<out, client, stale>> /\ player'.session = at
        /\ at[1] # p
    BY <1>1, <1>10 DEF SwitchDim, history
  <2>3. Inserts(Line, Line', Len(Line), f)
    BY <2>1, <2>2, Lines
  <2>4. Fits(f, p, stale) /\ Behind(f, p) = at[1]
    BY <2>1, <2>2 DEF Fits, Behind, Placing
  <2>5. \E E \in Paths(Len(Line')) : Leads(E, Line', d, at[1], stale)
    <3>. HIDE DEF d, p, f
    <3>. QED  BY <1>0, <2>3, <2>4, LeadsOn
  <2>. QED  BY <2>2, <2>5 DEF Switches
<1>11. CASE Read
  <2>. DEFINE m == Head(toServer)
  <2>1. CASE ReadWant(m)
    <3>1. UNCHANGED <<out, feed, client, player, stale>>
      BY <1>11, <2>1, WantDoes DEF Read, history
    <3>. QED  BY <3>1, Lines, SwitchesSteady
  <2>2. CASE m.kind = "configured" /\ ReadConfigured
    <3>. DEFINE f == Placed("rejoin", player.at)
    <3>1. f \in Frames /\ f.kind = "rejoin" /\ f.cc = player.at
      BY <1>1, Framed DEF Placed
    <3>2. out' = Append(out, f) /\ UNCHANGED <<feed, client, stale>> /\ player'.session = player.at
      BY <1>1, <1>11, <2>2 DEF Read, ReadConfigured, history
    <3>3. Inserts(Line, Line', Len(out), f)
      BY <3>1, <3>2, Lines
    <3>4. Asks
      BY <1>1, <1>11, <2>2, Popped DEF Read, Asks, Holds
    <3>5. Only(Line, {"chunk"})
      BY <3>4 DEF Staged, Answering
    <3>6. \E E \in Paths(Len(Line')) : Leads(E, Line', d, f.cc[1], stale)
      <4>. HIDE DEF d, f
      <4>. QED  BY <1>1, <3>1, <3>3, <3>5, LeadsBack
    <3>. QED  BY <3>1, <3>2, <3>6 DEF Switches
  <2>. QED  BY <1>11, <2>1, <2>2 DEF Read
<1>12. CASE ReaderEnds \/ CloseSession
  <2>1. UNCHANGED <<out, feed, player, stale, client>>
    BY <1>12 DEF ReaderEnds, CloseSession, server, history
  <2>. QED  BY <2>1, Lines, SwitchesSteady
<1>13. ASSUME NEW w \in Workers, Works(w) PROVE Switches'
  <2>1. UNCHANGED <<feed, client, player, stale>>
    BY <1>13 DEF Works, Take, Finish, Build, FailBuild, Send, Report, worker, history
  <2>2. CASE UNCHANGED out
    BY <2>1, <2>2, Lines, SwitchesSteady
  <2>3. CASE Send(w) /\ out' = Append(out, Chunk(job[w].cc, job[w].n))
    <3>. DEFINE f == Chunk(job[w].cc, job[w].n)
    <3>1. f \in Frames /\ f.kind = "chunk"
      <4>1. job[w].cc \in Chunks /\ job[w].n \in Edited
        BY DEF TypeInv, JobsTyped, Jobs
      <4>. QED  BY <4>1, Framed DEF Chunk
    <3>2. Inserts(Line, Line', Len(out), f)
      BY <2>1, <2>3, <3>1, Lines
    <3>3. \E E \in Paths(Len(Line')) : Leads(E, Line', d, p, stale)
      <4>. HIDE DEF d, p, f
      <4>. QED  BY <1>0, <3>1, <3>2, LeadsThrough
    <3>. QED  BY <2>1, <3>3 DEF Switches
  <2>. QED  BY <1>13, <2>2, <2>3 DEF Works, Take, Finish, Build, FailBuild, Send, Report
<1>. QED  BY <1>2, <1>3, <1>4, <1>5, <1>6, <1>7, <1>8, <1>9, <1>10, <1>11, <1>12, <1>13
          DEF Next, World

-----------------------------------------------------------------------------
(* Where the client is, and how far a reconfiguration has come.            *)

\* The last Want of the client, said or read, is from where it is.
LEMMA LocatedStep ==
  ASSUME TypeInv, Located, Next
  PROVE  Located'
<1>0. /\ toServer \in Seq(Messages) /\ out \in Seq(Frames)
      /\ client \in [at : Chunks, configuring : BOOLEAN]
      /\ view \in [known : BOOLEAN, at : Chunks, sent : SUBSET Chunks]
      /\ Home \in Chunks
  BY StreamAssumption DEF TypeInv, PlacesTyped, LineTyped, ClientTyped
<1>1. ASSUME NEW m \in Messages, toServer' = Append(toServer, m),
             m.kind # "configured", m.cc = client'.at
      PROVE  Located'
  <2>1. /\ Len(toServer) \in Nat /\ Len(toServer') = Len(toServer) + 1
        /\ toServer'[Len(toServer) + 1] = m
    BY <1>0, <1>1, Appended
  <2>2. Len(toServer) + 1 \in 1 .. Len(toServer') /\ (Len(toServer) + 1) + 1 > Len(toServer')
    BY <2>1
  <2>3. \A j \in ((Len(toServer) + 1) + 1) .. Len(toServer') : FALSE
    BY <2>1
  <2>. QED  BY <1>1, <2>1, <2>2, <2>3 DEF Located
<1>2. ASSUME NEW m \in Messages, toServer' = Append(toServer, m),
             m.kind = "configured", client'.at = client.at, view'.at = view.at
      PROVE  Located'
  <2>1. /\ Len(toServer) \in Nat /\ Len(toServer') = Len(toServer) + 1
        /\ toServer'[Len(toServer) + 1] = m
        /\ \A i \in 1 .. Len(toServer) : toServer'[i] = toServer[i]
    BY <1>0, <1>2, Appended
  <2>2. \A i \in 1 .. Len(toServer') : i \in 1 .. Len(toServer) \/ i = Len(toServer) + 1
    BY <2>1
  <2>3. CASE Only(toServer, {"configured"}) /\ client.at = view.at
    <3>1. Only(toServer', {"configured"})
      BY <1>2, <2>1, <2>2, <2>3 DEF Only
    <3>. QED  BY <1>2, <2>3, <3>1 DEF Located
  <2>4. ASSUME NEW i \in 1 .. Len(toServer), toServer[i].kind # "configured",
               toServer[i].cc = client.at,
               \A j \in (i + 1) .. Len(toServer) : toServer[j].kind = "configured"
        PROVE  Located'
    <3>1. i \in 1 .. Len(toServer') /\ toServer'[i] = toServer[i]
      BY <2>1
    <3>2. ASSUME NEW j \in (i + 1) .. Len(toServer') PROVE toServer'[j].kind = "configured"
      <4>1. j \in (i + 1) .. Len(toServer) \/ j = Len(toServer) + 1
        BY <2>1
      <4>2. j \in (i + 1) .. Len(toServer) => j \in 1 .. Len(toServer)
        BY <2>1
      <4>. QED  BY <1>2, <2>1, <2>4, <4>1, <4>2
    <3>. QED  BY <1>2, <2>4, <3>1, <3>2 DEF Located
  <2>. QED  BY <2>3, <2>4 DEF Located
<1>3. ASSUME UNCHANGED toServer, client'.at = client.at, view'.at = view.at PROVE Located'
  BY <1>3 DEF Located
<1>4. CASE Client
  <2>1. ASSUME NEW x \in Xs, Move(x) PROVE Located'
    <3>. DEFINE at == <<client.at[1], x>>
    <3>1. at \in Chunks
      BY <1>0 DEF Chunks
    <3>. HIDE DEF at
    <3>2. client' = [client EXCEPT !.at = at] /\ toServer' = Append(toServer, Want("entered", at))
      BY <2>1 DEF Move, at
    <3>3. /\ client'.at = at /\ Want("entered", at) \in Messages
          /\ Want("entered", at).kind = "entered" /\ Want("entered", at).cc = at
      BY <1>0, <3>1, <3>2, Framed DEF Want
    <3>. QED  BY <1>1, <3>2, <3>3
  <2>2. CASE Refresh
    <3>1. /\ Want("refresh", client.at) \in Messages /\ client' = client
          /\ Want("refresh", client.at).kind = "refresh" /\ Want("refresh", client.at).cc = client.at
      BY <1>0, <2>2, Framed DEF Want, Refresh
    <3>. QED  BY <1>1, <2>2, <3>1 DEF Refresh
  <2>. QED  BY <1>4, <2>1, <2>2 DEF Client
<1>5. CASE Receive
  <2>. DEFINE f == Head(out)
  <2>1. f \in Frames /\ UNCHANGED view
    BY <1>0, <1>5, Popped DEF Receive, server
  <2>2. f.cc \in Chunks
    BY <2>1 DEF Frames
  <2>3. CASE f.kind = "config"
    <3>1. /\ client'.at = client.at /\ toServer' = Append(toServer, Want("configured", Home))
          /\ Want("configured", Home) \in Messages /\ Want("configured", Home).kind = "configured"
      BY <1>0, <1>5, <2>3, Framed DEF Receive, Want
    <3>. QED  BY <1>2, <2>1, <3>1
  <2>4. CASE f.kind \in {"respawn", "rejoin"}
    <3>1. client'.at = f.cc /\ toServer' = Append(toServer, Want("want", f.cc))
      BY <1>0, <1>5, <2>4 DEF Receive
    <3>2. /\ Want("want", f.cc) \in Messages /\ Want("want", f.cc).kind = "want"
          /\ Want("want", f.cc).cc = f.cc
      BY <2>2, Framed DEF Want
    <3>. QED  BY <1>1, <3>1, <3>2
  <2>5. CASE f.kind \notin {"config", "respawn", "rejoin"}
    BY <1>3, <1>5, <2>1, <2>5 DEF Receive
  <2>. QED  BY <2>3, <2>4, <2>5
<1>6. CASE Read
  <2>. DEFINE m == Head(toServer)
  <2>1. /\ m = toServer[1] /\ toServer' = Tail(toServer) /\ Len(toServer) \in Nat /\ Len(toServer) >= 1
        /\ Len(toServer') = Len(toServer) - 1
        /\ \A i \in 1 .. (Len(toServer) - 1) : toServer'[i] = toServer[i + 1]
        /\ UNCHANGED client
    BY <1>0, <1>6, Popped DEF Read
  <2>2. /\ m.kind # "configured" => view'.at = m.cc
        /\ m.kind = "configured" => view'.at = view.at
    <3>1. ReadWant(m) => view'.at = m.cc
      BY WantDoes
    <3>2. ReadConfigured => view'.at = view.at
      BY <1>0 DEF ReadConfigured, ViewReset
    <3>. QED  BY <1>6, <3>1, <3>2 DEF Read
  <2>. HIDE DEF m
  <2>3. CASE Only(toServer, {"configured"}) /\ client.at = view.at
    <3>1. m.kind = "configured"
      BY <2>1, <2>3 DEF Only
    <3>2. Only(toServer', {"configured"})
      BY <2>1, <2>3 DEF Only
    <3>. QED  BY <2>1, <2>2, <2>3, <3>1, <3>2 DEF Located
  <2>4. ASSUME NEW i \in 1 .. Len(toServer), toServer[i].kind # "configured",
               toServer[i].cc = client.at,
               \A j \in (i + 1) .. Len(toServer) : toServer[j].kind = "configured"
        PROVE  Located'
    <3>1. CASE i = 1
      <4>1. Only(toServer', {"configured"})
        BY <2>1, <2>4, <3>1 DEF Only
      <4>. QED  BY <2>1, <2>2, <2>4, <3>1, <4>1 DEF Located
    <3>2. CASE i > 1
      <4>1. /\ i - 1 \in 1 .. Len(toServer') /\ (i - 1) + 1 = i
            /\ i - 1 \in 1 .. (Len(toServer) - 1)
        BY <2>1, <3>2
      <4>2. toServer'[i - 1] = toServer[i]
        <5>1. toServer'[i - 1] = toServer[(i - 1) + 1]
          BY <2>1, <4>1
        <5>. QED  BY <4>1, <5>1
      <4>3. \A j \in ((i - 1) + 1) .. Len(toServer') : toServer'[j].kind = "configured"
        BY <2>1, <2>4
      <4>. QED  BY <2>1, <2>4, <4>1, <4>2, <4>3 DEF Located
    <3>. QED  BY <3>1, <3>2
  <2>. QED  BY <2>3, <2>4 DEF Located
<1>7. ASSUME World \/ (\E e \in posting : Post(e)) \/ Hub \/ Pump \/ Reconfigure
                   \/ (\E at \in Owned : SwitchDim(at)) \/ ReaderEnds \/ CloseSession
      PROVE  Located'
  <2>1. UNCHANGED <<toServer, client, view>>
    BY <1>7 DEF World, Edit, HubEdit, Post, Hub, Pump, Reconfigure, SwitchDim, ReaderEnds,
                CloseSession, server
  <2>. QED  BY <1>3, <2>1
<1>8. ASSUME NEW w \in Workers, Works(w) PROVE Located'
  <2>1. UNCHANGED <<toServer, client>>
    BY <1>8 DEF Works, Take, Finish, Build, FailBuild, Send, Report, worker
  <2>2. view'.at = view.at
    BY <1>0, <1>8 DEF Works, Take, Finish, Build, FailBuild, Send, Report
  <2>. QED  BY <1>3, <2>1, <2>2
<1>. QED  BY <1>4, <1>5, <1>6, <1>7, <1>8 DEF Next

\* The hub's queue without its first event, and with one that is no join.
LEMMA JoinsLess ==
  ASSUME hubQueue \in Seq(Events), hubQueue # <<>>, hubQueue' = Tail(hubQueue)
  PROVE  /\ Joins' => Joins
         /\ OneJoin(hubQueue) => OneJoin(hubQueue')
         /\ OneJoin(hubQueue) /\ Head(hubQueue).kind = "join" => ~Joins'
<1>. SUFFICES ASSUME NEW q \in Seq(Events), NEW r, q = hubQueue, r = hubQueue', q # <<>>, r = Tail(q)
              PROVE  /\ Holds(r, "join") => Holds(q, "join")
                     /\ OneJoin(q) => OneJoin(r)
                     /\ OneJoin(q) /\ Head(q).kind = "join" => ~Holds(r, "join")
  BY DEF Joins
<1>1. /\ Head(q) = q[1] /\ Len(q) \in Nat /\ Len(q) >= 1 /\ Len(r) = Len(q) - 1
      /\ \A i \in 1 .. (Len(q) - 1) : r[i] = q[i + 1]
  BY Popped
<1>2. \A i \in 1 .. Len(r) : i + 1 \in 1 .. Len(q) /\ i + 1 # 1 /\ r[i] = q[i + 1]
  BY <1>1
<1>3. 1 \in 1 .. Len(q)
  BY <1>1
<1>4. OneJoin(q) => OneJoin(r)
  <2>1. ASSUME OneJoin(q), NEW i \in 1 .. Len(r), NEW j \in 1 .. Len(r),
               r[i].kind = "join", r[j].kind = "join"
        PROVE  i = j
    <3>1. i + 1 = j + 1
      BY <1>2, <2>1 DEF OneJoin
    <3>. QED  BY <1>1, <3>1
  <2>. QED  BY <2>1 DEF OneJoin
<1>. QED  BY <1>1, <1>2, <1>3, <1>4 DEF Holds, OneJoin

LEMMA JoinsMore ==
  ASSUME hubQueue \in Seq(Events), NEW e \in Events, hubQueue' = Append(hubQueue, e)
  PROVE  /\ e.kind # "join" => (Joins' => Joins) /\ (OneJoin(hubQueue) => OneJoin(hubQueue'))
         /\ ~Joins => OneJoin(hubQueue')
<1>. SUFFICES ASSUME NEW q \in Seq(Events), NEW r, q = hubQueue, r = hubQueue', r = Append(q, e)
              PROVE  /\ e.kind # "join" => /\ Holds(r, "join") => Holds(q, "join")
                                           /\ OneJoin(q) => OneJoin(r)
                     /\ ~Holds(q, "join") => OneJoin(r)
  BY DEF Joins
<1>1. /\ Len(q) \in Nat /\ Len(r) = Len(q) + 1 /\ r[Len(q) + 1] = e
      /\ \A i \in 1 .. Len(q) : r[i] = q[i]
  BY Appended
<1>2. \A i \in 1 .. Len(r) : i = Len(q) + 1 \/ i \in 1 .. Len(q)
  BY <1>1
<1>. QED  BY <1>1, <1>2 DEF Holds, OneJoin

\* Steps that leave the stages alone.
LEMMA StagedSteady ==
  ASSUME Staged, Line' = Line, UNCHANGED toServer, player'.in = player.in,
         client'.configuring = client.configuring, Joins' => Joins,
         OneJoin(hubQueue) => OneJoin(hubQueue')
  PROVE  Staged'
<1>1. Asks' <=> Asks
  BY DEF Asks, Holds
<1>2. Rejoins' <=> Rejoins
  BY DEF Rejoins, Holds
<1>3. Leaving' /\ Returning'
  BY <1>1 DEF Staged, Leaving, Returning
<1>4. Answering' /\ Joining' /\ Away'
  BY <1>1, <1>2 DEF Staged, Answering, Joining, Away, Only
<1>. QED  BY <1>3, <1>4 DEF Staged

\* A chunk, wherever it goes on the line.
LEMMA StagedChunk ==
  ASSUME Staged, NEW k, NEW f, f.kind = "chunk", Inserts(Line, Line', k, f),
         UNCHANGED toServer, player'.in = player.in,
         client'.configuring = client.configuring, UNCHANGED hubQueue
  PROVE  Staged'
<1>. SUFFICES ASSUME NEW L, NEW M, L = Line, M = Line' PROVE Staged'
  OBVIOUS
<1>1. Inserts(L, M, k, f)
  OBVIOUS
<1>2. (Asks' <=> Asks) /\ (Joins' <=> Joins)
  BY DEF Asks, Joins, Holds
<1>3. Leaving'
  <2>1. ASSUME NEW i \in 1 .. Len(M), M[i].kind = "config"
        PROVE  /\ ~player.in /\ ~Asks /\ ~Joins
               /\ \A j \in (i + 1) .. Len(M) : M[j].kind = "chunk"
    <3>1. PICK h \in 1 .. Len(L) : /\ L[h].kind = "config"
                                   /\ \/ h = i /\ i <= k
                                      \/ h = i - 1 /\ i > k + 1
      <4>1. \/ i \in 1 .. k /\ i \in 1 .. Len(L) /\ M[i] = L[i]
            \/ i = k + 1 /\ M[i] = f
            \/ i \in (k + 2) .. Len(M) /\ i - 1 \in (k + 1) .. Len(L) /\ M[i] = L[i - 1]
        BY <1>1, Inserted
      <4>2. i - 1 \in (k + 1) .. Len(L) => i - 1 \in 1 .. Len(L)
        BY <1>1, Inserted
      <4>3. (i \in 1 .. k => i <= k) /\ (i \in (k + 2) .. Len(M) => i > k + 1)
        BY <1>1, Inserted
      <4>. QED  BY <2>1, <4>1, <4>2, <4>3
    <3>2. /\ ~player.in /\ ~Asks /\ ~Joins
          /\ \A j \in (h + 1) .. Len(L) : L[j].kind = "chunk"
      BY <3>1 DEF Staged, Leaving
    <3>3. ASSUME NEW j \in (i + 1) .. Len(M) PROVE M[j].kind = "chunk"
      <4>1. j \in 1 .. Len(M)
        BY <1>1, Inserted
      <4>2. \/ j \in 1 .. k /\ j \in 1 .. Len(L) /\ M[j] = L[j]
            \/ j = k + 1 /\ M[j] = f
            \/ j \in (k + 2) .. Len(M) /\ j - 1 \in (k + 1) .. Len(L) /\ M[j] = L[j - 1]
        BY <1>1, <4>1, Inserted
      <4>3. j \in 1 .. k /\ j \in 1 .. Len(L) => j \in (h + 1) .. Len(L)
        BY <1>1, <3>1, Inserted
      <4>4. j \in (k + 2) .. Len(M) /\ j - 1 \in (k + 1) .. Len(L) => j - 1 \in (h + 1) .. Len(L)
        BY <1>1, <3>1, Inserted
      <4>. QED  BY <3>2, <4>2, <4>3, <4>4
    <3>. QED  BY <3>2, <3>3
  <2>2. /\ (~player.in <=> ~player'.in)
    OBVIOUS
  <2>. QED  BY <1>2, <2>1, <2>2 DEF Leaving
<1>4. ASSUME NEW K, "chunk" \in K, Only(L, K) PROVE Only(M, K)
  <2>1. ASSUME NEW i \in 1 .. Len(M) PROVE M[i].kind \in K
    <3>1. \/ i \in 1 .. k /\ i \in 1 .. Len(L) /\ M[i] = L[i]
          \/ i = k + 1 /\ M[i] = f
          \/ i \in (k + 2) .. Len(M) /\ i - 1 \in (k + 1) .. Len(L) /\ M[i] = L[i - 1]
      BY <1>1, Inserted
    <3>2. i - 1 \in (k + 1) .. Len(L) => i - 1 \in 1 .. Len(L)
      BY <1>1, Inserted
    <3>. QED  BY <1>4, <3>1, <3>2 DEF Only
  <2>. QED  BY <2>1 DEF Only
<1>5. Answering'
  BY <1>2, <1>4 DEF Staged, Answering
<1>6. Joining'
  BY <1>2, <1>4 DEF Staged, Joining
<1>7. Returning'
  <2>1. ASSUME NEW i \in 1 .. Len(M), M[i].kind = "rejoin"
        PROVE  /\ client.configuring /\ toServer = <<>>
               /\ \A j \in 1 .. (i - 1) : M[j].kind = "chunk"
    <3>1. PICK h \in 1 .. Len(L) : /\ L[h].kind = "rejoin"
                                   /\ \/ h = i /\ i <= k
                                      \/ h = i - 1 /\ i > k + 1
      <4>1. \/ i \in 1 .. k /\ i \in 1 .. Len(L) /\ M[i] = L[i]
            \/ i = k + 1 /\ M[i] = f
            \/ i \in (k + 2) .. Len(M) /\ i - 1 \in (k + 1) .. Len(L) /\ M[i] = L[i - 1]
        BY <1>1, Inserted
      <4>2. i - 1 \in (k + 1) .. Len(L) => i - 1 \in 1 .. Len(L)
        BY <1>1, Inserted
      <4>3. (i \in 1 .. k => i <= k) /\ (i \in (k + 2) .. Len(M) => i > k + 1)
        BY <1>1, Inserted
      <4>. QED  BY <2>1, <4>1, <4>2, <4>3
    <3>2. /\ client.configuring /\ toServer = <<>>
          /\ \A j \in 1 .. (h - 1) : L[j].kind = "chunk"
      BY <3>1 DEF Staged, Returning
    <3>3. ASSUME NEW j \in 1 .. (i - 1) PROVE M[j].kind = "chunk"
      <4>1. j \in 1 .. Len(M)
        BY <1>1, Inserted
      <4>2. \/ j \in 1 .. k /\ j \in 1 .. Len(L) /\ M[j] = L[j]
            \/ j = k + 1 /\ M[j] = f
            \/ j \in (k + 2) .. Len(M) /\ j - 1 \in (k + 1) .. Len(L) /\ M[j] = L[j - 1]
        BY <1>1, <4>1, Inserted
      <4>3. j \in 1 .. k /\ j \in 1 .. Len(L) => j \in 1 .. (h - 1)
        BY <1>1, <3>1, Inserted
      <4>4. j \in (k + 2) .. Len(M) /\ j - 1 \in (k + 1) .. Len(L) => j - 1 \in 1 .. (h - 1)
        BY <1>1, <3>1, Inserted
      <4>. QED  BY <3>2, <4>2, <4>3, <4>4
    <3>. QED  BY <3>2, <3>3
  <2>. QED  BY <2>1 DEF Returning
<1>8. Away'
  <2>1. Rejoins => Rejoins'
    BY <1>1, Inserted DEF Rejoins, Holds
  <2>. QED  BY <1>2, <2>1 DEF Staged, Away
<1>. QED  BY <1>3, <1>5, <1>6, <1>7, <1>8 DEF Staged

\* The client takes a frame of chunks or of blocks.
LEMMA StagedContent ==
  ASSUME Staged, NEW f, f.kind \in {"chunk", "block"}, Takes(Line, Line'), Line[1] = f,
         UNCHANGED toServer, player'.in = player.in,
         client'.configuring = client.configuring, UNCHANGED hubQueue
  PROVE  Staged'
<1>. SUFFICES ASSUME NEW L, NEW M, L = Line, M = Line' PROVE Staged'
  OBVIOUS
<1>1. Takes(L, M) /\ L[1] = f
  OBVIOUS
<1>2. (Asks' <=> Asks) /\ (Joins' <=> Joins)
  BY DEF Asks, Joins, Holds
<1>3. Leaving'
  <2>1. ASSUME NEW i \in 1 .. Len(M), M[i].kind = "config"
        PROVE  /\ ~player.in /\ ~Asks /\ ~Joins
               /\ \A j \in (i + 1) .. Len(M) : M[j].kind = "chunk"
    <3>1. i + 1 \in 1 .. Len(L) /\ L[i + 1].kind = "config"
      BY <1>1, <2>1, Taken
    <3>2. /\ ~player.in /\ ~Asks /\ ~Joins
          /\ \A j \in ((i + 1) + 1) .. Len(L) : L[j].kind = "chunk"
      BY <3>1 DEF Staged, Leaving
    <3>3. ASSUME NEW j \in (i + 1) .. Len(M) PROVE M[j].kind = "chunk"
      <4>1. j \in 1 .. Len(M) /\ j + 1 \in ((i + 1) + 1) .. Len(L)
        BY <1>1, Taken
      <4>. QED  BY <1>1, <3>2, <4>1, Taken
    <3>. QED  BY <3>2, <3>3
  <2>. QED  BY <1>2, <2>1 DEF Leaving
<1>4. ASSUME NEW K, Only(L, K) PROVE Only(M, K)
  <2>1. ASSUME NEW i \in 1 .. Len(M) PROVE M[i].kind \in K
    <3>1. i + 1 \in 1 .. Len(L) /\ M[i] = L[i + 1]
      BY <1>1, Taken
    <3>. QED  BY <1>4, <3>1 DEF Only
  <2>. QED  BY <2>1 DEF Only
<1>5. Answering'
  BY <1>2, <1>4 DEF Staged, Answering
<1>6. Joining'
  BY <1>2, <1>4 DEF Staged, Joining
<1>7. Returning'
  <2>1. ASSUME NEW i \in 1 .. Len(M), M[i].kind = "rejoin"
        PROVE  /\ client.configuring /\ toServer = <<>>
               /\ \A j \in 1 .. (i - 1) : M[j].kind = "chunk"
    <3>1. i + 1 \in 1 .. Len(L) /\ L[i + 1].kind = "rejoin" /\ (i + 1) - 1 = i
      BY <1>1, <2>1, Taken
    <3>2. /\ client.configuring /\ toServer = <<>>
          /\ \A j \in 1 .. i : L[j].kind = "chunk"
      BY <3>1 DEF Staged, Returning
    <3>3. ASSUME NEW j \in 1 .. (i - 1) PROVE M[j].kind = "chunk"
      <4>1. j \in 1 .. Len(M) /\ j + 1 \in 1 .. i
        BY <1>1, Taken
      <4>. QED  BY <1>1, <3>2, <4>1, Taken
    <3>. QED  BY <3>2, <3>3
  <2>. QED  BY <2>1 DEF Returning
<1>8. Away'
  <2>1. ASSUME Rejoins PROVE Rejoins'
    <3>1. PICK i \in 1 .. Len(L) : L[i].kind = "rejoin"
      BY <2>1 DEF Rejoins, Holds
    <3>2. i # 1
      BY <1>1, <3>1
    <3>3. i - 1 \in 1 .. Len(M) /\ M[i - 1] = L[i]
      BY <1>1, <3>2, Taken
    <3>. QED  BY <3>1, <3>3 DEF Rejoins, Holds
  <2>. QED  BY <1>2, <2>1 DEF Staged, Away
<1>. QED  BY <1>3, <1>5, <1>6, <1>7, <1>8 DEF Staged

\* A frame at the end of the line, of a player the hub has in the game: there
\* is no reconfiguration under way but the one this frame may start.
LEMMA StagedEnd ==
  ASSUME Staged, player.in, NEW f, f.kind \in {"block", "respawn", "config"},
         Inserts(Line, Line', Len(Line), f), f.kind # "config" => player'.in = player.in,
         f.kind = "config" => ~player'.in,
         UNCHANGED toServer, client'.configuring = client.configuring, Joins' => Joins
  PROVE  Staged'
<1>. SUFFICES ASSUME NEW L, NEW M, L = Line, M = Line' PROVE Staged'
  OBVIOUS
<1>1. Inserts(L, M, Len(L), f)
  OBVIOUS
<1>2. ~Asks /\ ~Joins /\ ~Asks' /\ ~Joins'
  BY DEF Staged, Answering, Joining, Asks, Holds
<1>3. \A i \in 1 .. Len(L) : L[i].kind # "config"
  BY DEF Staged, Leaving
<1>4. /\ Len(L) \in Nat /\ Len(M) = Len(L) + 1 /\ M[Len(L) + 1] = f
      /\ \A i \in 1 .. Len(L) : M[i] = L[i]
  BY <1>1 DEF Inserts
<1>5. \A i \in 1 .. Len(M) : i \in 1 .. Len(L) \/ i = Len(L) + 1
  BY <1>4
<1>6. Leaving'
  <2>1. ASSUME NEW i \in 1 .. Len(M), M[i].kind = "config"
        PROVE  ~player'.in /\ \A j \in (i + 1) .. Len(M) : M[j].kind = "chunk"
    <3>1. i = Len(L) + 1 /\ f.kind = "config"
      BY <1>3, <1>4, <1>5, <2>1
    <3>2. \A j \in (i + 1) .. Len(M) : FALSE
      BY <1>4, <3>1
    <3>. QED  BY <3>1, <3>2
  <2>. QED  BY <1>2, <2>1 DEF Leaving
<1>7. Returning'
  <2>1. ASSUME NEW i \in 1 .. Len(M), M[i].kind = "rejoin"
        PROVE  /\ client.configuring /\ toServer = <<>>
               /\ \A j \in 1 .. (i - 1) : M[j].kind = "chunk"
    <3>1. i \in 1 .. Len(L) /\ L[i].kind = "rejoin"
      BY <1>4, <1>5, <2>1
    <3>2. /\ client.configuring /\ toServer = <<>>
          /\ \A j \in 1 .. (i - 1) : L[j].kind = "chunk"
      BY <3>1 DEF Staged, Returning
    <3>3. \A j \in 1 .. (i - 1) : j \in 1 .. Len(L)
      BY <1>4, <3>1
    <3>. QED  BY <1>4, <3>2, <3>3
  <2>. QED  BY <2>1 DEF Returning
<1>8. Away'
  <2>1. Rejoins => Rejoins'
    <3>1. \A i \in 1 .. Len(L) : i \in 1 .. Len(M)
      BY <1>4
    <3>. QED  BY <1>4, <3>1 DEF Rejoins, Holds
  <2>. QED  BY <1>2, <2>1 DEF Staged, Away
<1>. QED  BY <1>2, <1>6, <1>7, <1>8 DEF Staged, Answering, Joining

\* The client wants chunks.
LEMMA StagedWant ==
  ASSUME TypeInv, Staged, ~client.configuring, client'.configuring = client.configuring,
         NEW m \in Messages, m.kind # "configured", toServer' = Append(toServer, m),
         Line' = Line, UNCHANGED <<hubQueue, player>>
  PROVE  Staged'
<1>1. /\ Len(toServer) \in Nat /\ Len(toServer') = Len(toServer) + 1
      /\ toServer'[Len(toServer) + 1] = m
      /\ \A i \in 1 .. Len(toServer) : toServer'[i] = toServer[i]
  BY Appended DEF TypeInv, ClientTyped
<1>2. \A i \in 1 .. Len(toServer') : i \in 1 .. Len(toServer) \/ i = Len(toServer) + 1
  BY <1>1
<1>3. ~Asks
  BY DEF Staged, Answering
<1>4. ~Asks' /\ (Joins' <=> Joins)
  BY <1>1, <1>2, <1>3 DEF Asks, Joins, Holds
<1>5. Leaving'
  BY <1>3, <1>4 DEF Staged, Leaving
<1>6. Joining'
  BY <1>4 DEF Staged, Joining
<1>7. \A i \in 1 .. Len(Line) : Line[i].kind # "rejoin"
  BY DEF Staged, Returning
<1>8. Returning'
  BY <1>7 DEF Returning
<1>. QED  BY <1>4, <1>5, <1>6, <1>8 DEF Staged, Answering, Away

\* The client takes a frame that leads it elsewhere or to its configuration.
LEMMA StagedPlaced ==
  ASSUME TypeInv, Staged, Receive, Head(out).kind \in {"config", "respawn", "rejoin"}
  PROVE  Staged'
<1>. DEFINE f == Head(out)
<1>. SUFFICES ASSUME NEW L, NEW M, L = Line, M = Line' PROVE Staged'
  OBVIOUS
<1>1. Takes(L, M) /\ L[1] = f
  BY Lines
<1>2. /\ UNCHANGED <<hubQueue, player>> /\ (Joins' <=> Joins)
      /\ out \in Seq(Frames) /\ toServer \in Seq(Messages)
      /\ client \in [at : Chunks, configuring : BOOLEAN]
  BY DEF Receive, server, Joins, Holds, TypeInv, LineTyped, ClientTyped, PlacesTyped
<1>3. f \in Frames
  BY <1>2, Popped DEF Receive
<1>4. f.cc \in Chunks /\ Home \in Chunks
  BY <1>3, StreamAssumption DEF Frames
<1>5. /\ Len(L) \in Nat /\ Len(L) >= 1 /\ Len(M) = Len(L) - 1
      /\ \A i \in 1 .. Len(M) : i + 1 \in 2 .. Len(L) /\ M[i] = L[i + 1]
  BY <1>1, Taken
<1>6. \A i \in 2 .. Len(L) : i \in 1 .. Len(L) /\ 1 \in 1 .. (i - 1)
  BY <1>5
<1>7. 1 \in 1 .. Len(L)
  BY <1>5
<1>8. ~Asks
  <2>1. f.kind # "chunk"
    OBVIOUS
  <2>. QED  BY <1>1, <1>7, <2>1 DEF Staged, Answering, Only
\* None of the frames behind is a rejoin, for it would be behind chunks only.
<1>9. \A i \in 1 .. Len(M) : M[i].kind # "rejoin"
  <2>1. \A i \in 2 .. Len(L) : L[i].kind # "rejoin"
    BY <1>1, <1>6 DEF Staged, Returning
  <2>. QED  BY <1>5, <2>1
<1>10. Returning'
  BY <1>9 DEF Returning
<1>11. ASSUME NEW m \in Messages, toServer' = Append(toServer, m)
       PROVE  /\ Len(toServer) \in Nat /\ Len(toServer') = Len(toServer) + 1
              /\ toServer'[Len(toServer) + 1] = m
              /\ \A i \in 1 .. Len(toServer) : toServer'[i] = toServer[i] /\ toServer[i].kind # "configured"
              /\ Len(toServer') - 1 = Len(toServer)
              /\ Asks' <=> m.kind = "configured"
  <2>1. /\ Len(toServer) \in Nat /\ Len(toServer') = Len(toServer) + 1
        /\ toServer'[Len(toServer) + 1] = m
        /\ \A i \in 1 .. Len(toServer) : toServer'[i] = toServer[i]
    BY <1>2, <1>11, Appended
  <2>2. \A i \in 1 .. Len(toServer) : toServer[i].kind # "configured"
    BY <1>8 DEF Asks, Holds
  <2>3. \A i \in 1 .. Len(toServer') : i \in 1 .. Len(toServer) \/ i = Len(toServer) + 1
    BY <2>1
  <2>4. Len(toServer) + 1 \in 1 .. Len(toServer') /\ Len(toServer') - 1 = Len(toServer)
    BY <2>1
  <2>5. Asks' <=> m.kind = "configured"
    BY <2>1, <2>2, <2>3, <2>4 DEF Asks, Holds
  <2>. QED  BY <2>1, <2>2, <2>4, <2>5
<1>12. ASSUME NEW K, Only(L, K) PROVE Only(M, K)
  <2>1. ASSUME NEW i \in 1 .. Len(M) PROVE M[i].kind \in K
    <3>1. i + 1 \in 1 .. Len(L) /\ M[i] = L[i + 1]
      BY <1>5, <1>6
    <3>. QED  BY <1>12, <3>1 DEF Only
  <2>. QED  BY <2>1 DEF Only
<1>13. CASE f.kind = "config"
  <2>. DEFINE m == Want("configured", Home)
  <2>1. /\ m \in Messages /\ m.kind = "configured" /\ toServer' = Append(toServer, m)
        /\ client'.configuring
    BY <1>2, <1>4, <1>13, Framed DEF Receive, Want
  <2>2. /\ ~player.in /\ ~Joins
        /\ \A j \in 2 .. Len(L) : L[j].kind = "chunk"
    BY <1>1, <1>7, <1>13 DEF Staged, Leaving
  <2>3. \A i \in 1 .. Len(M) : M[i].kind = "chunk"
    BY <1>5, <2>2
  <2>4. /\ Asks' /\ \A i \in 1 .. (Len(toServer') - 1) : toServer'[i].kind # "configured"
    BY <1>11, <2>1
  <2>5. Leaving'
    BY <2>3 DEF Leaving
  <2>6. Answering'
    BY <1>2, <2>1, <2>2, <2>3, <2>4 DEF Answering, Only
  <2>. QED  BY <1>2, <1>10, <2>2, <2>4, <2>5, <2>6 DEF Staged, Joining, Away
<1>14. CASE f.kind \in {"respawn", "rejoin"}
  <2>. DEFINE m == Want("want", f.cc)
  <2>1. m \in Messages /\ m.kind = "want" /\ toServer' = Append(toServer, m)
    BY <1>2, <1>4, <1>14, Framed DEF Receive, Want
  <2>2. ~Asks'
    BY <1>11, <2>1
  <2>3. Leaving'
    <3>1. ASSUME NEW i \in 1 .. Len(M), M[i].kind = "config"
          PROVE  /\ ~player.in /\ ~Joins
                 /\ \A j \in (i + 1) .. Len(M) : M[j].kind = "chunk"
      <4>1. i + 1 \in 1 .. Len(L) /\ L[i + 1].kind = "config"
        BY <1>5, <1>6, <3>1
      <4>2. /\ ~player.in /\ ~Joins
            /\ \A j \in ((i + 1) + 1) .. Len(L) : L[j].kind = "chunk"
        BY <4>1 DEF Staged, Leaving
      <4>3. \A j \in (i + 1) .. Len(M) : j \in 1 .. Len(M) /\ j + 1 \in ((i + 1) + 1) .. Len(L)
        BY <1>5
      <4>. QED  BY <1>5, <4>2, <4>3
    <3>. QED  BY <1>2, <2>2, <3>1 DEF Leaving
  <2>4. Joining'
    BY <1>2, <1>12 DEF Staged, Joining
  <2>5. Away'
    <3>1. CASE f.kind = "rejoin"
      <4>1. ~client'.configuring
        BY <1>2, <3>1 DEF Receive
      <4>. QED  BY <4>1 DEF Away
    <3>2. CASE f.kind = "respawn"
      <4>1. client'.configuring = client.configuring
        BY <1>2, <3>2 DEF Receive
      <4>2. ~Rejoins
        <5>1. \A i \in 1 .. Len(L) : i = 1 \/ i \in 2 .. Len(L)
          BY <1>5
        <5>2. \A i \in 2 .. Len(L) : L[i].kind # "rejoin"
          BY <1>1, <1>6 DEF Staged, Returning
        <5>. QED  BY <1>1, <3>2, <5>1, <5>2 DEF Rejoins, Holds
      <4>. QED  BY <1>8, <4>1, <4>2 DEF Staged, Away
    <3>. QED  BY <1>14, <3>1, <3>2
  <2>. QED  BY <1>10, <2>2, <2>3, <2>4, <2>5 DEF Staged, Answering
<1>. QED  BY <1>13, <1>14

\* The reader takes a Want, or the client's answer to its configuration.
LEMMA StagedRead ==
  ASSUME TypeInv, Staged, Read
  PROVE  Staged'
<1>. DEFINE m == Head(toServer)
<1>1. /\ toServer \in Seq(Messages) /\ hubQueue \in Seq(Events) /\ out \in Seq(Frames)
      /\ player \in [in : BOOLEAN, at : Chunks, session : Chunks]
  BY DEF TypeInv, ClientTyped, WorldTyped, LineTyped, PlacesTyped
<1>2. /\ m = toServer[1] /\ m \in Messages /\ Len(toServer) \in Nat /\ Len(toServer) >= 1
      /\ Len(toServer') = Len(toServer) - 1
      /\ \A i \in 1 .. (Len(toServer) - 1) : toServer'[i] = toServer[i + 1]
      /\ toServer # <<>> /\ UNCHANGED <<client, feed>>
  BY <1>1, Popped DEF Read
<1>3. \A i \in 1 .. Len(Line) : Line[i].kind # "rejoin"
  BY <1>2 DEF Staged, Returning
<1>4. m.cc \in Chunks
  BY <1>2 DEF Messages
<1>. HIDE DEF m
<1>5. CASE m.kind # "configured" /\ ReadWant(m)
  <2>1. UNCHANGED <<out, player>>
    BY <1>5, WantDoes
  <2>2. Line' = Line
    BY <1>2, <2>1, Lines
  <2>3. (Joins' => Joins) /\ (OneJoin(hubQueue) => OneJoin(hubQueue'))
    <3>1. CASE UNCHANGED hubQueue
      BY <3>1 DEF Joins, Holds
    <3>2. CASE hubQueue' = Append(hubQueue, Placed("move", m.cc))
      <4>1. Placed("move", m.cc) \in Events /\ Placed("move", m.cc).kind # "join"
        BY <1>4, Framed DEF Placed
      <4>. QED  BY <1>1, <3>2, <4>1, JoinsMore
    <3>. QED  BY <1>5, <3>1, <3>2, WantDoes
  <2>4. \A i \in 1 .. Len(toServer') : i + 1 \in 1 .. Len(toServer) /\ toServer'[i] = toServer[i + 1]
    BY <1>2
  <2>5. Asks' => Asks
    BY <2>4 DEF Asks, Holds
  <2>6. Asks => Asks'
    <3>1. ASSUME NEW i \in 1 .. Len(toServer), toServer[i].kind = "configured" PROVE Asks'
      <4>1. i # 1
        BY <1>2, <1>5, <3>1
      <4>2. i - 1 \in 1 .. Len(toServer') /\ (i - 1) + 1 = i
        BY <1>2, <4>1
      <4>3. toServer'[i - 1] = toServer[i]
        <5>1. toServer'[i - 1] = toServer[(i - 1) + 1]
          BY <2>4, <4>2
        <5>. QED  BY <4>2, <5>1
      <4>. QED  BY <3>1, <4>2, <4>3 DEF Asks, Holds
    <3>. QED  BY <3>1 DEF Asks, Holds
  <2>7. Leaving' /\ Returning'
    BY <1>3, <2>1, <2>2, <2>3, <2>5 DEF Staged, Leaving, Returning
  <2>8. Answering'
    <3>1. ASSUME Asks', NEW i \in 1 .. (Len(toServer') - 1) PROVE toServer'[i].kind # "configured"
      <4>1. i \in 1 .. Len(toServer') /\ i + 1 \in 1 .. (Len(toServer) - 1)
        BY <1>2
      <4>. QED  BY <2>4, <2>5, <3>1, <4>1 DEF Staged, Answering
    <3>. QED  BY <1>2, <2>1, <2>2, <2>3, <2>5, <3>1 DEF Staged, Answering, Only
  <2>9. Joining'
    BY <2>1, <2>2, <2>3 DEF Staged, Joining, Only
  <2>10. Away'
    BY <1>2, <2>2, <2>6 DEF Staged, Away, Rejoins, Holds
  <2>. QED  BY <2>7, <2>8, <2>9, <2>10 DEF Staged
<1>6. CASE m.kind = "configured" /\ ReadConfigured
  <2>. DEFINE f == Placed("rejoin", player.at)
              e == Placed("join", player.at)
  <2>1. f \in Frames /\ f.kind = "rejoin" /\ e \in Events
    BY <1>1, Framed DEF Placed
  <2>2. /\ out' = Append(out, f) /\ hubQueue' = Append(hubQueue, e)
        /\ player' = [player EXCEPT !.session = player.at]
    BY <1>6 DEF ReadConfigured
  <2>3. player'.in = player.in
    BY <1>1, <2>2
  <2>. HIDE DEF f, e
  <2>4. Inserts(Line, Line', Len(out), f)
    BY <1>2, <2>1, <2>2, Lines
  <2>5. Asks
    <3>1. 1 \in 1 .. Len(toServer)
      BY <1>2
    <3>. QED  BY <1>2, <1>6, <3>1 DEF Asks, Holds
  <2>6. /\ ~player.in /\ ~Joins /\ client.configuring /\ \A i \in 1 .. Len(Line) : Line[i].kind = "chunk"
        /\ \A i \in 1 .. (Len(toServer) - 1) : toServer[i].kind # "configured"
    BY <2>5 DEF Staged, Answering, Only
  <2>7. toServer' = <<>>
    <3>1. ~(1 \in 1 .. (Len(toServer) - 1))
      BY <1>2, <1>6, <2>6
    <3>2. Len(toServer') = 0
      BY <1>2, <3>1
    <3>3. toServer' \in Seq(Messages)
      BY <1>1, <1>2, Popped DEF Read
    <3>. QED  BY <3>2, <3>3
  <2>8. ~Asks'
    BY <2>7 DEF Asks, Holds
  <2>9. OneJoin(hubQueue')
    BY <1>1, <2>1, <2>2, <2>6, JoinsMore
  <2>. SUFFICES ASSUME NEW L, NEW M, L = Line, M = Line' PROVE Staged'
    OBVIOUS
  <2>10. ASSUME NEW i \in 1 .. Len(M)
         PROVE  (i # Len(out) + 1 => M[i].kind = "chunk") /\ (i = Len(out) + 1 => M[i] = f)
    <3>1. \/ i \in 1 .. Len(out) /\ i \in 1 .. Len(L) /\ M[i] = L[i]
          \/ i = Len(out) + 1 /\ M[i] = f
          \/ i \in (Len(out) + 2) .. Len(M) /\ i - 1 \in (Len(out) + 1) .. Len(L) /\ M[i] = L[i - 1]
      BY <2>4, Inserted
    <3>2. Len(out) \in 0 .. Len(L) /\ Len(L) \in Nat
      BY <2>4, Inserted
    <3>3. i - 1 \in (Len(out) + 1) .. Len(L) => i - 1 \in 1 .. Len(L)
      BY <3>2
    <3>4. (i \in 1 .. Len(out) \/ i \in (Len(out) + 2) .. Len(M)) => i # Len(out) + 1
      BY <3>2
    <3>. QED  BY <2>6, <3>1, <3>3, <3>4
  <2>11. Len(out) + 1 \in 1 .. Len(M)
    BY <2>4, Inserted
  <2>12. Leaving'
    BY <2>1, <2>10 DEF Leaving
  <2>13. Joining'
    <3>1. Only(M, {"chunk", "rejoin"})
      BY <2>1, <2>10 DEF Only
    <3>. QED  BY <2>3, <2>6, <2>9, <3>1 DEF Joining
  <2>14. Returning'
    <3>1. ASSUME NEW i \in 1 .. Len(M), M[i].kind = "rejoin", NEW j \in 1 .. (i - 1)
          PROVE  M[j].kind = "chunk"
      <4>1. i = Len(out) + 1
        BY <2>10, <3>1
      <4>2. j \in 1 .. Len(M) /\ j # Len(out) + 1
        BY <2>11, <4>1
      <4>. QED  BY <2>10, <4>2
    <3>. QED  BY <1>2, <2>6, <2>7, <3>1 DEF Returning
  <2>15. Away'
    BY <2>1, <2>10, <2>11 DEF Away, Rejoins, Holds
  <2>. QED  BY <2>8, <2>12, <2>13, <2>14, <2>15 DEF Staged, Answering
<1>. QED  BY <1>5, <1>6 DEF Read, m

\* A reconfiguration stays in one place at a time.
LEMMA StagedStep ==
  ASSUME TypeInv, Staged, Next, ~closing.done
  PROVE  Staged'
<1>1. /\ client \in [at : Chunks, configuring : BOOLEAN]
      /\ player \in [in : BOOLEAN, at : Chunks, session : Chunks]
      /\ out \in Seq(Frames) /\ hubQueue \in Seq(Events) /\ toServer \in Seq(Messages)
      /\ Owned \subseteq Chunks /\ Busy \subseteq Chunks
  BY StreamAssumption DEF TypeInv, PlacesTyped, LineTyped, WorldTyped, ClientTyped
<1>2. UNCHANGED hubQueue => (Joins' => Joins) /\ (OneJoin(hubQueue) => OneJoin(hubQueue'))
  BY DEF Joins, Holds
<1>3. CASE Client
  <2>1. ASSUME NEW x \in Xs, Move(x) PROVE Staged'
    <3>. DEFINE at == <<client.at[1], x>>
                m == Want("entered", at)
    <3>1. at \in Chunks
      BY <1>1 DEF Chunks
    <3>2. m \in Messages /\ m.kind # "configured"
      BY <3>1, Framed DEF Want
    <3>3. /\ client' = [client EXCEPT !.at = at] /\ toServer' = Append(toServer, m)
          /\ UNCHANGED <<hubQueue, player, out, feed>> /\ ~client.configuring
      BY <2>1 DEF Move, server
    <3>. HIDE DEF at, m
    <3>4. client'.configuring = client.configuring /\ Line' = Line
      BY <1>1, <3>3, Lines
    <3>. QED  BY <3>2, <3>3, <3>4, StagedWant
  <2>2. CASE Refresh
    <3>. DEFINE m == Want("refresh", client.at)
    <3>1. m \in Messages /\ m.kind # "configured"
      BY <1>1, Framed DEF Want
    <3>2. /\ UNCHANGED client /\ toServer' = Append(toServer, m)
          /\ UNCHANGED <<hubQueue, player, out, feed>> /\ ~client.configuring
      BY <2>2 DEF Refresh, server
    <3>. HIDE DEF m
    <3>. QED  BY <3>1, <3>2, Lines, StagedWant
  <2>. QED  BY <1>3, <2>1, <2>2 DEF Client
<1>4. CASE Receive
  <2>. DEFINE f == Head(out)
  <2>1. f \in Frames
    BY <1>1, <1>4, Popped DEF Receive
  <2>2. CASE f.kind \in {"chunk", "block"}
    <3>1. UNCHANGED <<client, toServer, hubQueue, player>>
      BY <1>4, <2>2 DEF Receive, server
    <3>. QED  BY <1>4, <2>2, <3>1, Lines, StagedContent
  <2>3. CASE f.kind \in {"config", "respawn", "rejoin"}
    BY <1>4, <2>3, StagedPlaced
  <2>. QED  BY <2>1, <2>2, <2>3 DEF Frames
<1>5. ASSUME NEW e \in Events, e.kind = "block", Broadcast(e), UNCHANGED <<out, client, toServer, player>>,
             Joins' => Joins, OneJoin(hubQueue) => OneJoin(hubQueue')
      PROVE  Staged'
  <2>1. CASE Line' = Line
    BY <1>5, <2>1, StagedSteady
  <2>2. CASE Inserts(Line, Line', Len(Line), e) /\ player.in
    BY <1>5, <2>2, StagedEnd
  <2>. QED  BY <1>5, <2>1, <2>2, BroadcastLine
<1>6. ASSUME NEW cc \in Busy, Edit(cc) PROVE Staged'
  BY <1>2, <1>6, Lines, StagedSteady DEF Edit, server
<1>7. ASSUME NEW cc \in Busy, HubEdit(cc) PROVE Staged'
  <2>. DEFINE e == Block(cc, edits[cc] + 1)
  <2>1. Broadcast(e) /\ UNCHANGED <<out, client, toServer, player, hubQueue>> /\ edits[cc] < MaxEdits
    BY <1>7 DEF HubEdit, server, NewState
  <2>2. edits[cc] + 1 \in Edited
    BY <1>1, <2>1, NextEdit
  <2>3. e \in Events /\ e.kind = "block"
    BY <1>1, <2>2, Framed DEF Block
  <2>. HIDE DEF e
  <2>. QED  BY <1>2, <1>5, <2>1, <2>3
<1>8. ASSUME NEW e \in posting, Post(e) PROVE Staged'
  <2>1. e \in Events /\ e.kind = "block"
    BY DEF TypeInv, WorldTyped, Frames, Events
  <2>2. hubQueue' = Append(hubQueue, e) /\ UNCHANGED <<out, feed, toServer, client, player>>
    BY <1>8 DEF Post, server
  <2>3. (Joins' => Joins) /\ (OneJoin(hubQueue) => OneJoin(hubQueue'))
    BY <1>1, <2>1, <2>2, JoinsMore
  <2>. QED  BY <2>2, <2>3, Lines, StagedSteady
<1>9. CASE Hub
  <2>. DEFINE e == Head(hubQueue)
  <2>0. /\ hubQueue # <<>> /\ hubQueue' = Tail(hubQueue) /\ e \in Events
        /\ UNCHANGED <<out, toServer, client>>
    BY <1>1, <1>9, Popped DEF Hub
  <2>1. e.kind \in {"block", "move", "dim", "join"}
    BY <2>0 DEF Events
  <2>2. /\ (Joins' => Joins) /\ (OneJoin(hubQueue) => OneJoin(hubQueue'))
        /\ (OneJoin(hubQueue) /\ e.kind = "join" => ~Joins')
    BY <1>1, <2>0, JoinsLess
  <2>3. CASE e.kind = "block"
    <3>1. Broadcast(e) /\ UNCHANGED player
      BY <1>9, <2>3 DEF Hub
    <3>. QED  BY <1>5, <2>0, <2>2, <2>3, <3>1
  <2>4. CASE e.kind \in {"move", "dim"}
    <3>1. UNCHANGED feed /\ player'.in = player.in
      <4>1. CASE e.kind = "move"
        BY <1>1, <1>9, <4>1 DEF Hub
      <4>2. CASE e.kind = "dim"
        BY <1>1, <1>9, <4>2 DEF Hub
      <4>. QED  BY <2>4, <4>1, <4>2
    <3>. QED  BY <2>0, <2>2, <3>1, Lines, StagedSteady
  <2>5. CASE e.kind = "join"
    <3>1. UNCHANGED feed /\ player'.in
      BY <1>1, <1>9, <2>5 DEF Hub
    <3>2. Line' = Line
      BY <2>0, <3>1, Lines
    <3>3. Joins
      BY <1>1, <2>0, <2>5, Popped DEF Joins, Holds
    <3>4. /\ ~player.in /\ OneJoin(hubQueue) /\ ~Asks
          /\ \A i \in 1 .. Len(Line) : Line[i].kind \in {"chunk", "rejoin"}
      BY <3>3 DEF Staged, Joining, Answering, Only
    <3>5. ~Joins' /\ ~Asks' /\ (Rejoins' <=> Rejoins)
      BY <2>0, <2>2, <2>5, <3>2, <3>4 DEF Asks, Rejoins, Holds
    <3>6. Leaving'
      BY <3>2, <3>4 DEF Leaving
    <3>7. Returning' /\ Away'
      BY <2>0, <3>2, <3>4, <3>5 DEF Staged, Returning, Away
    <3>. QED  BY <3>5, <3>6, <3>7 DEF Staged, Answering, Joining
  <2>. QED  BY <2>1, <2>3, <2>4, <2>5
<1>10. CASE Pump
  <2>1. UNCHANGED <<toServer, player, client, hubQueue>>
    BY <1>10 DEF Pump, server
  <2>. QED  BY <1>2, <1>10, <2>1, Lines, StagedSteady
<1>11. CASE Reconfigure
  <2>. SUFFICES ASSUME NEW f, f = Placed("config", player.at) PROVE Staged'
    OBVIOUS
  <2>1. f \in Frames /\ f.kind = "config"
    BY <1>1, Framed DEF Placed
  <2>2. /\ feed' = Append(feed, f) /\ UNCHANGED <<out, client, toServer, hubQueue>>
        /\ player' = [player EXCEPT !.in = FALSE] /\ player.in
    BY <1>11 DEF Reconfigure
  <2>3. Inserts(Line, Line', Len(Line), f)
    BY <2>1, <2>2, Lines
  <2>4. UNCHANGED toServer /\ client'.configuring = client.configuring /\ (Joins' => Joins)
    BY <1>2, <2>2
  <2>5. player'.in = FALSE
    BY <1>1, <2>2
  <2>. QED  BY <2>1, <2>2, <2>3, <2>4, <2>5, StagedEnd
<1>12. ASSUME NEW at \in Owned, SwitchDim(at) PROVE Staged'
  <2>. DEFINE f == Placed("respawn", at)
              e == Placed("dim", at)
  <2>1. f \in Frames /\ f.kind = "respawn" /\ e \in Events /\ e.kind = "dim"
    BY <1>1, Framed DEF Placed
  <2>2. /\ feed' = Append(feed, f) /\ UNCHANGED <<out, client, toServer>> /\ player.in
        /\ hubQueue' = Append(hubQueue, e) /\ player'.in = player.in
    BY <1>1, <1>12 DEF SwitchDim
  <2>. HIDE DEF f, e
  <2>3. Joins' => Joins
    BY <1>1, <2>1, <2>2, JoinsMore
  <2>. QED  BY <2>1, <2>2, <2>3, Lines, StagedEnd
<1>13. CASE ReaderEnds \/ CloseSession
  BY <1>2, <1>13, Lines, StagedSteady DEF ReaderEnds, CloseSession, server
<1>14. ASSUME NEW w \in Workers, Works(w) PROVE Staged'
  <2>1. UNCHANGED <<feed, client, player, toServer, hubQueue>>
    BY <1>14 DEF Works, Take, Finish, Build, FailBuild, Send, Report, worker
  <2>2. CASE UNCHANGED out
    BY <1>2, <2>1, <2>2, Lines, StagedSteady
  <2>3. CASE Send(w) /\ out' = Append(out, Chunk(job[w].cc, job[w].n))
    <3>. DEFINE f == Chunk(job[w].cc, job[w].n)
    <3>1. f \in Frames /\ f.kind = "chunk"
      <4>1. job[w].cc \in Chunks /\ job[w].n \in Edited
        BY DEF TypeInv, JobsTyped, Jobs
      <4>. QED  BY <4>1, Framed DEF Chunk
    <3>. HIDE DEF f
    <3>2. Inserts(Line, Line', Len(out), f)
      BY <2>1, <2>3, <3>1, Lines DEF f
    <3>. QED  BY <2>1, <3>1, <3>2, StagedChunk
  <2>. QED  BY <1>14, <2>2, <2>3 DEF Works, Take, Finish, Build, FailBuild, Send, Report
<1>. QED  BY <1>3, <1>4, <1>6, <1>7, <1>8, <1>9, <1>10, <1>11, <1>12, <1>13, <1>14, StagedRead
          DEF Next, World

-----------------------------------------------------------------------------
(* The records of the reader and of the hub.                               *)

\* A session that is not over: what a step does to the line.
LEMMA LineStep ==
  ASSUME TypeInv, Next, ~closing.done
  PROVE  \/ Line' = Line
         \/ Receive /\ Takes(Line, Line')
         \/ Read /\ ReadConfigured
         \/ \E f \in Frames : \E k \in 0 .. Len(Line) : f.kind # "rejoin" /\ Inserts(Line, Line', k, f)
<1>1. /\ player \in [in : BOOLEAN, at : Chunks, session : Chunks]
      /\ hubQueue \in Seq(Events) /\ Owned \subseteq Chunks /\ Busy \subseteq Chunks
      /\ Len(Line) \in 0 .. Len(Line)
  BY StreamAssumption, Lines DEF TypeInv, PlacesTyped, WorldTyped
<1>. DEFINE Longer == \E f \in Frames : \E k \in 0 .. Len(Line) :
                         f.kind # "rejoin" /\ Inserts(Line, Line', k, f)
<1>2. ASSUME NEW e \in Events, e.kind = "block", Broadcast(e), UNCHANGED out
      PROVE  Line' = Line \/ Longer
  BY <1>1, <1>2, BroadcastLine
<1>3. CASE Client \/ (\E e \in posting : Post(e)) \/ ReaderEnds \/ CloseSession
  BY <1>3, Lines DEF Client, Move, Refresh, Post, ReaderEnds, CloseSession, server
<1>4. CASE Receive
  BY <1>4, Lines
<1>5. ASSUME NEW cc \in Busy, Edit(cc) \/ HubEdit(cc) PROVE Line' = Line \/ Longer
  <2>1. CASE Edit(cc)
    BY <2>1, Lines DEF Edit, server
  <2>2. CASE HubEdit(cc)
    <3>1. Broadcast(Block(cc, edits[cc] + 1)) /\ UNCHANGED out /\ edits[cc] < MaxEdits
      BY <2>2 DEF HubEdit, server, NewState
    <3>2. edits[cc] + 1 \in Edited
      BY <1>1, <3>1, NextEdit
    <3>3. Block(cc, edits[cc] + 1) \in Events /\ Block(cc, edits[cc] + 1).kind = "block"
      BY <1>1, <3>2, Framed DEF Block
    <3>. QED  BY <1>2, <3>1, <3>3
  <2>. QED  BY <1>5, <2>1, <2>2
<1>6. CASE Hub
  <2>1. Head(hubQueue) \in Events
    BY <1>1, <1>6, Popped DEF Hub
  <2>2. CASE Head(hubQueue).kind = "block"
    BY <1>2, <1>6, <2>1, <2>2 DEF Hub
  <2>3. CASE Head(hubQueue).kind # "block"
    <3>1. UNCHANGED <<out, feed>>
      BY <1>6, <2>1, <2>3 DEF Hub, Events
    <3>. QED  BY <3>1, Lines
  <2>. QED  BY <2>2, <2>3
<1>7. CASE Pump
  BY <1>7, Lines
<1>8. CASE Reconfigure
  <2>1. Placed("config", player.at) \in Frames /\ Placed("config", player.at).kind # "rejoin"
    BY <1>1, Framed DEF Placed
  <2>2. Inserts(Line, Line', Len(Line), Placed("config", player.at))
    BY <1>8, <2>1, Lines DEF Reconfigure
  <2>. QED  BY <1>1, <2>1, <2>2
<1>9. ASSUME NEW at \in Owned, SwitchDim(at) PROVE Longer
  <2>1. Placed("respawn", at) \in Frames /\ Placed("respawn", at).kind # "rejoin"
    BY <1>1, Framed DEF Placed
  <2>2. Inserts(Line, Line', Len(Line), Placed("respawn", at))
    BY <1>9, <2>1, Lines DEF SwitchDim
  <2>. QED  BY <1>1, <2>1, <2>2
<1>10. CASE Read
  <2>1. ReadWant(Head(toServer)) => UNCHANGED <<out, feed>>
    BY <1>10, WantDoes DEF Read
  <2>. QED  BY <1>10, <2>1, Lines DEF Read
<1>11. ASSUME NEW w \in Workers, Works(w) PROVE Line' = Line \/ Longer
  <2>1. UNCHANGED feed
    BY <1>11 DEF Works, Take, Finish, Build, FailBuild, Send, Report, worker
  <2>2. CASE UNCHANGED out
    BY <2>1, <2>2, Lines
  <2>3. CASE out' = Append(out, Chunk(job[w].cc, job[w].n))
    <3>1. job[w].cc \in Chunks /\ job[w].n \in Edited
      BY DEF TypeInv, JobsTyped, Jobs
    <3>2. Chunk(job[w].cc, job[w].n) \in Frames /\ Chunk(job[w].cc, job[w].n).kind # "rejoin"
      BY <3>1, Framed DEF Chunk
    <3>. QED  BY <2>1, <2>3, <3>2, Lines
  <2>. QED  BY <1>11, <2>2, <2>3 DEF Works, Take, Finish, Build, FailBuild, Send, Report
<1>. QED  BY <1>3, <1>4, <1>5, <1>6, <1>7, <1>8, <1>9, <1>10, <1>11 DEF Next, World

\* A longer line carries what it carried, a shorter one all but the first.
LEMMA Carried ==
  ASSUME NEW L, NEW M, NEW k, NEW f, Inserts(L, M, k, f)
  PROVE  /\ \A cc : Carries(L, cc) => Carries(M, cc)
         /\ \A cc : f.kind = "chunk" /\ f.cc = cc => Carries(M, cc)
         /\ Sends(L) => Sends(M)
         /\ \A i : Holds(L, i) => Holds(M, i)
         /\ \A i : Holds(M, i) => Holds(L, i) \/ f.kind = i
<1>1. \A i \in 1 .. Len(L) : \E j \in 1 .. Len(M) : M[j] = L[i]
  <2>1. ASSUME NEW i \in 1 .. Len(L) PROVE \E j \in 1 .. Len(M) : M[j] = L[i]
    <3>1. \/ i \in 1 .. Len(M) /\ M[i] = L[i]
          \/ i + 1 \in (k + 2) .. Len(M) /\ M[i + 1] = L[i]
      BY Inserted
    <3>2. i + 1 \in (k + 2) .. Len(M) => i + 1 \in 1 .. Len(M)
      BY Inserted
    <3>. QED  BY <3>1, <3>2
  <2>. QED  BY <2>1
<1>2. \A j \in 1 .. Len(M) : M[j] = f \/ \E i \in 1 .. Len(L) : M[j] = L[i]
  <2>1. ASSUME NEW j \in 1 .. Len(M) PROVE M[j] = f \/ \E i \in 1 .. Len(L) : M[j] = L[i]
    <3>1. \/ j \in 1 .. Len(L) /\ M[j] = L[j]
          \/ M[j] = f
          \/ j - 1 \in (k + 1) .. Len(L) /\ M[j] = L[j - 1]
      BY Inserted
    <3>2. j - 1 \in (k + 1) .. Len(L) => j - 1 \in 1 .. Len(L)
      BY Inserted
    <3>. QED  BY <3>1, <3>2
  <2>. QED  BY <2>1
<1>3. k + 1 \in 1 .. Len(M) /\ M[k + 1] = f
  BY DEF Inserts
<1>4. \A cc : Carries(L, cc) => Carries(M, cc)
  BY <1>1 DEF Carries
<1>5. \A cc : f.kind = "chunk" /\ f.cc = cc => Carries(M, cc)
  BY <1>3 DEF Carries
<1>6. Sends(L) => Sends(M)
  BY <1>1 DEF Sends
<1>7. \A i : (Holds(L, i) => Holds(M, i)) /\ (Holds(M, i) => Holds(L, i) \/ f.kind = i)
  BY <1>1, <1>2 DEF Holds
<1>. QED  BY <1>4, <1>5, <1>6, <1>7

LEMMA CarriedOn ==
  ASSUME NEW L, NEW M, Takes(L, M)
  PROVE  /\ \A cc : Carries(L, cc) => Carries(M, cc) \/ (L[1].kind = "chunk" /\ L[1].cc = cc)
         /\ Sends(L) => Sends(M) \/ L[1].kind \in {"config", "respawn"}
         /\ \A i : Holds(M, i) => Holds(L, i)
<1>1. \A i \in 1 .. Len(L) : i = 1 \/ \E j \in 1 .. Len(M) : M[j] = L[i]
  BY Taken
<1>2. \A j \in 1 .. Len(M) : \E i \in 1 .. Len(L) : M[j] = L[i]
  <2>1. ASSUME NEW j \in 1 .. Len(M) PROVE \E i \in 1 .. Len(L) : M[j] = L[i]
    <3>1. j + 1 \in 2 .. Len(L) /\ M[j] = L[j + 1] /\ Len(L) \in Nat
      BY Taken
    <3>2. j + 1 \in 1 .. Len(L)
      BY <3>1
    <3>. QED  BY <3>1, <3>2
  <2>. QED  BY <2>1
<1>3. \A cc : Carries(L, cc) => Carries(M, cc) \/ (L[1].kind = "chunk" /\ L[1].cc = cc)
  BY <1>1 DEF Carries
<1>4. Sends(L) => Sends(M) \/ L[1].kind \in {"config", "respawn"}
  BY <1>1 DEF Sends
<1>5. \A i : Holds(M, i) => Holds(L, i)
  BY <1>2 DEF Holds
<1>. QED  BY <1>3, <1>4, <1>5

\* Only a client let back puts a rejoin in the line.
LEMMA RejoinsFewer ==
  ASSUME TypeInv, Next, ~closing.done
  PROVE  (Rejoins' => Rejoins) \/ (Read /\ ReadConfigured)
<1>. SUFFICES ASSUME NEW L, NEW M, L = Line, M = Line', ~(Read /\ ReadConfigured)
              PROVE  Holds(M, "rejoin") => Holds(L, "rejoin")
  BY DEF Rejoins
<1>1. \/ M = L
      \/ Takes(L, M)
      \/ \E f \in Frames : \E k \in 0 .. Len(L) : f.kind # "rejoin" /\ Inserts(L, M, k, f)
  BY LineStep
<1>. QED  BY <1>1, Carried, CarriedOn

\* Only the reader and its workers touch the records.
LEMMA RecordSteps ==
  ASSUME Next
  PROVE  \/ Read \/ \E w \in Workers : Works(w)
         \/ UNCHANGED <<sent, view, job, backlog, failed, late>>
<1>1. Client \/ Receive => UNCHANGED <<sent, view, job, backlog, failed, late>>
  BY DEF Client, Move, Refresh, Receive, server, history
<1>2. World \/ (\E e \in posting : Post(e)) => UNCHANGED <<sent, view, job, backlog, failed, late>>
  BY DEF World, Edit, HubEdit, Post, server, history
<1>3. Hub \/ Pump \/ Reconfigure \/ (\E at \in Owned : SwitchDim(at))
        => UNCHANGED <<sent, view, job, backlog, failed, late>>
  BY DEF Hub, Pump, Reconfigure, SwitchDim, server, history
<1>4. ReaderEnds \/ CloseSession => UNCHANGED <<sent, view, job, backlog, failed, late>>
  BY DEF ReaderEnds, CloseSession, server, history
<1>. QED  BY <1>1, <1>2, <1>3, <1>4 DEF Next

\* Only the client's own steps touch what it holds and where it is, and the
\* reader's what it has said.
LEMMA ClientSteps ==
  ASSUME Next
  PROVE  \/ Client \/ Receive
         \/ Read /\ UNCHANGED <<held, client>>
         \/ UNCHANGED <<held, client, toServer>>
<1>1. World \/ (\E e \in posting : Post(e)) => UNCHANGED <<held, client, toServer>>
  BY DEF World, Edit, HubEdit, Post
<1>2. Hub \/ Pump \/ Reconfigure \/ (\E at \in Owned : SwitchDim(at))
        => UNCHANGED <<held, client, toServer>>
  BY DEF Hub, Pump, Reconfigure, SwitchDim
<1>3. ReaderEnds \/ CloseSession => UNCHANGED <<held, client, toServer>>
  BY DEF ReaderEnds, CloseSession
<1>4. (\E w \in Workers : Works(w)) => UNCHANGED <<held, client, toServer>>
  BY DEF Works, Take, Finish, Build, FailBuild, Send, Report, worker
<1>5. Read => UNCHANGED <<held, client>>
  BY DEF Read
<1>. QED  BY <1>1, <1>2, <1>3, <1>4, <1>5 DEF Next

\* What the steps of a worker do to its job, and that they leave the others'
\* alone.
LEMMA Worked ==
  ASSUME TypeInv, NEW w \in Workers
  PROVE  /\ Works(w) => \A u \in Workers : u # w => job'[u] = job[u]
         /\ Take(w) => /\ job'[w].step = "taken" /\ job'[w].cc = Head(backlog)
                       /\ job'[w].forgotten = (Head(backlog) \notin sent)
         /\ Finish(w) => job'[w].step = "gone"
         /\ Build(w) => /\ job'[w].step = "built" /\ job'[w].cc = job[w].cc
                        /\ job'[w].n = edits[job[w].cc] /\ job'[w].forgotten = job[w].forgotten
         /\ FailBuild(w) \/ Report(w) => job'[w].step = "idle"
         /\ Send(w) /\ ~closing.done =>
               /\ job'[w].step = "written" /\ job'[w].cc = job[w].cc
               /\ job'[w].n = job[w].n /\ job'[w].forgotten = job[w].forgotten
               /\ out' = Append(out, Chunk(job[w].cc, job[w].n))
<1>1. job \in [Workers -> Jobs] /\ job[w] \in Jobs
  BY DEF TypeInv, JobsTyped
<1>2. ASSUME Works(w), NEW u \in Workers, u # w PROVE job'[u] = job[u]
  BY <1>1, <1>2 DEF Works, Take, Finish, Build, FailBuild, Send, Report
<1>3. ASSUME Take(w)
      PROVE  /\ job'[w].step = "taken" /\ job'[w].cc = Head(backlog)
             /\ job'[w].forgotten = (Head(backlog) \notin sent)
  <2>. DEFINE j == [step |-> "taken", cc |-> Head(backlog), n |-> 0,
                    forgotten |-> Head(backlog) \notin sent]
  <2>1. job'[w] = j
    BY <1>1, <1>3 DEF Take
  <2>. QED  BY <2>1
<1>4. Finish(w) => job'[w].step = "gone"
  BY <1>1 DEF Finish, Jobs
<1>5. Build(w) => /\ job'[w].step = "built" /\ job'[w].cc = job[w].cc
                  /\ job'[w].n = edits[job[w].cc] /\ job'[w].forgotten = job[w].forgotten
  BY <1>1 DEF Build, Jobs
<1>6. FailBuild(w) \/ Report(w) => job'[w].step = "idle"
  BY <1>1 DEF FailBuild, Report, Idle
<1>7. Send(w) /\ ~closing.done =>
         /\ job'[w].step = "written" /\ job'[w].cc = job[w].cc
         /\ job'[w].n = job[w].n /\ job'[w].forgotten = job[w].forgotten
         /\ out' = Append(out, Chunk(job[w].cc, job[w].n))
  BY <1>1 DEF Send, Jobs
<1>. QED  BY <1>2, <1>3, <1>4, <1>5, <1>6, <1>7

\* What forgetting all chunks but those of S does to the jobs.
LEMMA Forgot ==
  ASSUME TypeInv, NEW S, job' = Forgetting(S), NEW w \in Workers
  PROVE  /\ job'[w].step = job[w].step /\ job'[w].cc = job[w].cc /\ job'[w].n = job[w].n
         /\ job[w].forgotten => job'[w].forgotten
         /\ AtWork(w) /\ job[w].cc \notin S => job'[w].forgotten
<1>1. job[w] \in Jobs
  BY DEF TypeInv, JobsTyped
<1>2. job'[w] = IF job[w].step \notin {"idle", "gone"} /\ job[w].cc \notin S
                THEN [job[w] EXCEPT !.forgotten = TRUE] ELSE job[w]
  BY DEF Forgetting
<1>3. CASE job[w].step \notin {"idle", "gone"} /\ job[w].cc \notin S
  <2>1. job'[w] = [job[w] EXCEPT !.forgotten = TRUE]
    BY <1>2, <1>3
  <2>. QED  BY <1>1, <2>1 DEF Jobs
<1>4. CASE ~(job[w].step \notin {"idle", "gone"} /\ job[w].cc \notin S)
  <2>1. job'[w] = job[w]
    BY <1>2, <1>4
  <2>. QED  BY <1>1, <1>4, <2>1 DEF Jobs, AtWork
<1>. QED  BY <1>3, <1>4

\* Both records stay within the window of the last Want, and empty while the
\* client is on its way back.
LEMMA RecordsStep ==
  ASSUME TypeInv, Staged, RecordsNear, Cleared, Next, ~closing.done
  PROVE  RecordsNear' /\ Cleared'
<1>0. /\ view \in [known : BOOLEAN, at : Chunks, sent : SUBSET Chunks]
      /\ toServer \in Seq(Messages) /\ backlog \in Seq(Chunks)
      /\ job \in [Workers -> Jobs] /\ sent \subseteq Chunks
      /\ Radius \in Int /\ Margin \in Int /\ Margin >= 0
  BY StreamAssumption DEF TypeInv, PlacesTyped, ClientTyped, RecordsTyped, JobsTyped
<1>1. ASSUME UNCHANGED <<sent, view, job, late>>, Rejoins' => Rejoins
      PROVE  RecordsNear' /\ Cleared'
  BY <1>1 DEF RecordsNear, Cleared, Near, AtWork
<1>2. ASSUME NEW w \in Workers, Works(w) PROVE RecordsNear' /\ Cleared'
  <2>1. Rejoins' => Rejoins
    <3>1. ~Read \/ ~ReadConfigured
      <4>1. UNCHANGED toServer
        BY <1>2 DEF Works, Take, Finish, Build, FailBuild, Send, Report, worker
      <4>2. Read => Len(toServer') # Len(toServer)
        BY <1>0, Popped DEF Read
      <4>. QED  BY <4>1, <4>2
    <3>. QED  BY <3>1, RejoinsFewer
  <2>2. UNCHANGED sent /\ view'.at = view.at
    BY <1>0, <1>2 DEF Works, Take, Finish, Build, FailBuild, Send, Report, worker
  <2>3. \A u \in Workers : u # w => job'[u] = job[u]
    BY <1>2, Worked
  <2>4. \/ AtWork(w) /\ job'[w].cc = job[w].cc /\ job'[w].forgotten = job[w].forgotten
        \/ Take(w) /\ job'[w].cc = Head(backlog) /\ job'[w].forgotten = (Head(backlog) \notin sent)
        \/ job'[w].step \in {"idle", "gone"}
    <3>1. Build(w) \/ Send(w) => AtWork(w)
      BY DEF Build, Send, AtWork
    <3>. QED  BY <1>2, <3>1, Worked DEF Works
  <2>5. \/ UNCHANGED <<view, late>>
        \/ /\ AtWork(w) /\ view'.sent = view.sent \cup {job[w].cc}
           /\ late \subseteq late' /\ (job[w].forgotten => job[w].cc \in late')
    <3>1. Report(w) => /\ AtWork(w) /\ view'.sent = view.sent \cup {job[w].cc}
                       /\ late \subseteq late' /\ (job[w].forgotten => job[w].cc \in late')
      BY <1>0 DEF Report, AtWork
    <3>2. Take(w) \/ Finish(w) \/ Build(w) \/ FailBuild(w) \/ Send(w) => UNCHANGED <<view, late>>
      BY DEF Take, Finish, Build, FailBuild, Send, history
    <3>. QED  BY <1>2, <3>1, <3>2 DEF Works
  <2>6. ASSUME NEW u \in Workers, AtWork(u)' PROVE Near(job'[u].cc) \/ job'[u].forgotten
    <3>1. CASE u # w
      <4>1. AtWork(u) /\ job'[u] = job[u]
        BY <2>3, <2>6, <3>1 DEF AtWork
      <4>. QED  BY <4>1 DEF RecordsNear
    <3>2. CASE u = w
      <4>1. job'[w].step \notin {"idle", "gone"}
        BY <2>6, <3>2 DEF AtWork
      <4>. QED  BY <2>4, <3>2, <4>1 DEF RecordsNear
    <3>. QED  BY <3>1, <3>2
  <2>7. RecordsNear'
    <3>1. \A cc : Near(cc)' <=> Near(cc)
      BY <2>2 DEF Near
    <3>2. \A cc \in view'.sent : Near(cc) \/ cc \in late'
      BY <2>5 DEF RecordsNear
    <3>. QED  BY <2>2, <2>6, <3>1, <3>2 DEF RecordsNear
  <2>8. Cleared'
    <3>1. SUFFICES ASSUME Rejoins
                   PROVE  /\ sent' = {} /\ view'.sent \subseteq late'
                          /\ \A u \in Workers : AtWork(u)' => job'[u].forgotten
      BY <2>1 DEF Cleared
    <3>2. sent = {} /\ view.sent \subseteq late /\ \A u \in Workers : AtWork(u) => job[u].forgotten
      BY <3>1 DEF Cleared
    <3>3. view'.sent \subseteq late'
      BY <2>5, <3>2
    <3>4. ASSUME NEW u \in Workers, AtWork(u)' PROVE job'[u].forgotten
      <4>1. CASE u # w
        BY <2>3, <3>2, <3>4, <4>1 DEF AtWork
      <4>2. CASE u = w
        <5>1. job'[w].step \notin {"idle", "gone"}
          BY <3>4, <4>2 DEF AtWork
        <5>. QED  BY <2>4, <3>2, <4>2, <5>1
      <4>. QED  BY <4>1, <4>2
    <3>. QED  BY <2>2, <3>2, <3>3, <3>4
  <2>. QED  BY <2>7, <2>8
<1>3. CASE Read
  <2>. DEFINE m == Head(toServer)
  <2>1. m \in Messages /\ toServer # <<>> /\ UNCHANGED late
    BY <1>0, <1>3, Popped DEF Read, history
  <2>2. CASE ReadWant(m)
    <3>1. ~Rejoins'
      <4>1. Line' = Line
        BY <1>3, <2>2, WantDoes, Lines DEF Read
      <4>2. ~Rejoins
        <5>1. ~(\E i \in 1 .. Len(Line) : Line[i].kind = "rejoin")
          BY <2>1 DEF Staged, Returning
        <5>. QED  BY <5>1 DEF Rejoins, Holds
      <4>. QED  BY <4>1, <4>2 DEF Rejoins
    <3>2. view'.at = m.cc /\ view'.sent = Kept(m.cc, view.sent) /\ job' = Forgetting(Kept(m.cc, Chunks))
      BY <2>2, WantDoes
    <3>3. PICK fit \in Seq(Chunks) :
             /\ \A i \in 1 .. Len(fit) : fit[i] \in Around(m.cc, Radius)
             /\ sent' \subseteq Kept(m.cc, sent) \cup Range(fit)
      BY <2>1, <2>2, WantRead
    <3>4. \A cc \in Range(fit) : Within(cc, m.cc, Radius + Margin)
      <4>1. DOMAIN fit = 1 .. Len(fit)
        OBVIOUS
      <4>2. ASSUME NEW cc \in Around(m.cc, Radius) PROVE Within(cc, m.cc, Radius + Margin)
        <5>1. cc[2] \in Int /\ m.cc[2] \in Int
          BY <2>1, StreamAssumption DEF Around, Messages, Chunks
        <5>2. cc[1] = m.cc[1] /\ Dist(cc[2], m.cc[2]) <= Radius
          BY DEF Around, Within
        <5>3. Dist(cc[2], m.cc[2]) \in Nat
          BY <5>1, Distances
        <5>4. Dist(cc[2], m.cc[2]) <= Radius + Margin
          BY <1>0, <5>2, <5>3
        <5>. QED  BY <5>2, <5>4 DEF Within
      <4>. QED  BY <3>3, <4>1, <4>2 DEF Range
    <3>5. \A cc \in sent' \cup view'.sent : Within(cc, m.cc, Radius + Margin)
      BY <3>2, <3>3, <3>4 DEF Kept
    <3>6. ASSUME NEW w \in Workers, AtWork(w)'
          PROVE  Within(job'[w].cc, m.cc, Radius + Margin) \/ job'[w].forgotten
      <4>1. /\ job'[w].step = job[w].step /\ job'[w].cc = job[w].cc
            /\ AtWork(w) /\ job[w].cc \notin Kept(m.cc, Chunks) => job'[w].forgotten
        <5>. HIDE DEF m
        <5>. QED  BY <3>2, Forgot
      <4>2. AtWork(w)
        BY <3>6, <4>1 DEF AtWork
      <4>. QED  BY <4>1, <4>2 DEF Kept
    <3>7. RecordsNear'
      <4>1. \A cc : Near(cc)' <=> Within(cc, m.cc, Radius + Margin)
        BY <3>2 DEF Near
      <4>. QED  BY <3>5, <3>6, <4>1 DEF RecordsNear
    <3>. QED  BY <3>1, <3>7 DEF Cleared
  <2>3. CASE ReadConfigured
    <3>1. sent' = {} /\ view'.sent = {} /\ job' = Forgetting({})
      BY <1>0, <2>3 DEF ReadConfigured, SentCleared, ViewReset
    <3>2. ASSUME NEW w \in Workers, AtWork(w)' PROVE job'[w].forgotten
      <4>1. /\ job'[w].step = job[w].step
            /\ AtWork(w) /\ job[w].cc \notin {} => job'[w].forgotten
        BY <3>1, Forgot
      <4>2. AtWork(w)
        BY <3>2, <4>1 DEF AtWork
      <4>. QED  BY <4>1, <4>2
    <3>. QED  BY <3>1, <3>2 DEF RecordsNear, Cleared
  <2>. QED  BY <1>3, <2>2, <2>3 DEF Read
<1>. QED  BY <1>1, <1>2, <1>3, RecordSteps, RejoinsFewer

\* The client holds chunks of its window only.
LEMMA HeldStep ==
  ASSUME TypeInv, HeldNear, Next
  PROVE  HeldNear'
<1>0. /\ held \in [Chunks -> Edited \cup {None, Foreign}] /\ out \in Seq(Frames)
      /\ client \in [at : Chunks, configuring : BOOLEAN]
  BY DEF TypeInv, ClientTyped, LineTyped, PlacesTyped
<1>1. ASSUME UNCHANGED <<held, client>> PROVE HeldNear'
  BY <1>1 DEF HeldNear
<1>2. ASSUME NEW x \in Xs, Move(x) PROVE HeldNear'
  <2>. DEFINE at == <<client.at[1], x>>
  <2>1. /\ client'.at = at
        /\ held' = [cc \in Chunks |-> IF Within(cc, at, Radius + ClientMargin) THEN held[cc] ELSE None]
    BY <1>0, <1>2 DEF Move
  <2>. QED  BY <2>1 DEF HeldNear
<1>3. CASE Receive
  <2>. DEFINE f == Head(out)
  <2>1. f \in Frames /\ held' = Shown(f)
    BY <1>0, <1>3, Popped DEF Receive
  <2>2. CASE f.kind = "chunk"
    <3>1. client'.at = client.at
      BY <1>3, <2>2 DEF Receive
    <3>2. held' = [held EXCEPT ![f.cc] =
                IF ~client.configuring /\ Within(f.cc, client.at, Radius + ClientMargin)
                THEN f.n ELSE @]
      BY <2>1, <2>2 DEF Shown
    <3>. QED  BY <1>0, <3>1, <3>2 DEF HeldNear
  <2>3. CASE f.kind = "block"
    <3>1. client'.at = client.at
      BY <1>3, <2>3 DEF Receive
    <3>2. held' = [cc \in Chunks |->
                IF cc # <<client.at[1], f.cc[2]>> \/ held[cc] = None THEN held[cc]
                ELSE IF cc = f.cc THEN f.n ELSE Foreign]
      BY <2>1, <2>3 DEF Shown
    <3>. QED  BY <3>1, <3>2 DEF HeldNear
  <2>4. CASE f.kind \notin {"chunk", "block"}
    <3>1. held' = [cc \in Chunks |-> None]
      BY <2>1, <2>4 DEF Shown
    <3>. QED  BY <3>1 DEF HeldNear
  <2>. QED  BY <2>2, <2>3, <2>4
<1>4. Refresh => UNCHANGED <<held, client>>
  BY DEF Refresh
<1>. QED  BY <1>1, <1>2, <1>3, <1>4, ClientSteps DEF Client

-----------------------------------------------------------------------------
(* No chunk of the records is lost on the way to the client.               *)

\* One more frame of the client's makes the records forget no less.
LEMMA ForgetsMore ==
  ASSUME NEW q \in Seq(Messages), NEW m \in Messages, NEW cc
  PROVE  /\ Forgets(q, cc) => Forgets(Append(q, m), cc)
         /\ m.kind = "configured" \/ ~Within(cc, m.cc, Radius + Margin) => Forgets(Append(q, m), cc)
<1>. DEFINE r == Append(q, m)
<1>1. /\ Len(q) \in Nat /\ Len(r) = Len(q) + 1 /\ r[Len(q) + 1] = m
      /\ \A i \in 1 .. Len(q) : r[i] = q[i]
  BY Appended
<1>. HIDE DEF r
<1>2. /\ Len(q) + 1 \in 1 .. Len(r)
      /\ \A i \in 1 .. Len(q) : i \in 1 .. Len(r)
  BY <1>1
<1>3. Forgets(q, cc) => Forgets(r, cc)
  BY <1>1, <1>2 DEF Forgets
<1>4. m.kind = "configured" \/ ~Within(cc, m.cc, Radius + Margin) => Forgets(r, cc)
  BY <1>1, <1>2 DEF Forgets
<1>. QED  BY <1>3, <1>4 DEF r

\* A chunk too far for the client is too far for the records.
LEMMA TooFar ==
  ASSUME NEW a \in Chunks, NEW b \in Chunks, ~Within(a, b, Radius + ClientMargin)
  PROVE  ~Within(a, b, Radius + Margin)
<1>1. Radius \in Nat /\ Margin \in Nat /\ ClientMargin \in Nat /\ Margin <= ClientMargin
  BY StreamAssumption
<1>2. Dist(a[2], b[2]) \in Nat
  <2>1. a[2] \in Int /\ b[2] \in Int
    BY StreamAssumption DEF Chunks
  <2>. QED  BY <2>1, Distances
<1>. QED  BY <1>1, <1>2 DEF Within

\* A chunk near the last Want read that is elsewhere than near the client
\* will be forgotten.
LEMMA FarForgotten ==
  ASSUME Located, NEW cc, Near(cc), ~Within(cc, client.at, Radius + Margin)
  PROVE  Forgets(toServer, cc)
BY DEF Located, Near, Forgets

\* The client takes a frame: a chunk of the records is given still.
LEMMA GivenReceive ==
  ASSUME TypeInv, Switches, Staged, Located, Receive, ~Rejoins,
         NEW cc \in Chunks, Near(cc), Given(cc)
  PROVE  Given(cc)'
<1>. DEFINE f == Head(out)
<1>0. /\ toServer \in Seq(Messages) /\ out \in Seq(Frames)
      /\ client \in [at : Chunks, configuring : BOOLEAN]
      /\ held \in [Chunks -> Edited \cup {None, Foreign}]
      /\ Home \in Chunks /\ out # <<>> /\ None \notin Edited /\ Foreign # None
  BY StreamAssumption DEF TypeInv, PlacesTyped, LineTyped, ClientTyped, Receive, None, Edited, Foreign
<1>1. f \in Frames /\ f.cc \in Chunks /\ f.n \in Edited
  <2>1. f \in Frames
    BY <1>0, Popped
  <2>. QED  BY <2>1 DEF Frames
<1>2. Takes(Line, Line') /\ Line[1] = f
  BY Lines
<1>3. /\ Len(Line) >= 1 /\ Len(Line) \in Nat
      /\ Carries(Line, cc) => Carries(Line', cc) \/ (f.kind = "chunk" /\ f.cc = cc)
      /\ Sends(Line) => Sends(Line') \/ f.kind \in {"config", "respawn"}
  BY <1>2, Taken, CarriedOn
<1>4. f.kind # "rejoin"
  <2>1. 1 \in 1 .. Len(Line)
    BY <1>3
  <2>. QED  BY <1>2, <2>1 DEF Rejoins, Holds
<1>5. held' = Shown(f)
  BY DEF Receive
<1>6. CASE f.kind = "config"
  <2>1. toServer' = Append(toServer, Want("configured", Home))
    BY <1>6 DEF Receive
  <2>2. Want("configured", Home) \in Messages /\ Want("configured", Home).kind = "configured"
    BY <1>0, Framed DEF Want
  <2>3. Forgets(toServer', cc)
    BY <1>0, <2>1, <2>2, ForgetsMore
  <2>. QED  BY <2>3 DEF Given
<1>7. CASE f.kind = "respawn"
  <2>1. toServer' = Append(toServer, Want("want", f.cc))
    BY <1>7 DEF Receive
  <2>2. Want("want", f.cc) \in Messages /\ Want("want", f.cc).cc = f.cc
    BY <1>1, Framed DEF Want
  <2>3. f.cc[1] # client.at[1]
    <3>1. PICK D \in Paths(Len(Line)) : Leads(D, Line, client.at[1], player.session[1], stale)
      BY DEF Switches
    <3>2. 1 \in 1 .. Len(Line) /\ 1 - 1 = 0
      BY <1>3
    <3>. QED  BY <1>2, <1>7, <3>1, <3>2 DEF Leads
  <2>4. Within(cc, f.cc, Radius + Margin) => ~Within(cc, client.at, Radius + Margin)
    BY <2>3 DEF Within
  <2>5. Forgets(toServer', cc)
    BY <1>0, <2>1, <2>2, <2>4, FarForgotten, ForgetsMore
  <2>. QED  BY <2>5 DEF Given
<1>8. CASE f.kind \notin {"config", "respawn"}
  <2>0. f.kind \in {"chunk", "block"}
    BY <1>1, <1>4, <1>8 DEF Frames
  <2>1. UNCHANGED toServer
    BY <1>4, <1>8 DEF Receive
  <2>2. ASSUME held[cc] # None PROVE held'[cc] # None
    <3>1. CASE f.kind = "chunk"
      <4>1. held' = [held EXCEPT ![f.cc] =
                IF ~client.configuring /\ Within(f.cc, client.at, Radius + ClientMargin)
                THEN f.n ELSE @]
        BY <1>5, <3>1 DEF Shown
      <4>. QED  BY <1>0, <1>1, <2>2, <4>1
    <3>2. CASE f.kind = "block"
      <4>1. held' = [c \in Chunks |->
                IF c # <<client.at[1], f.cc[2]>> \/ held[c] = None THEN held[c]
                ELSE IF c = f.cc THEN f.n ELSE Foreign]
        BY <1>5, <3>2 DEF Shown
      <4>. QED  BY <1>0, <1>1, <2>2, <4>1
    <3>. QED  BY <2>0, <3>1, <3>2
  <2>3. ASSUME f.kind = "chunk", f.cc = cc PROVE held'[cc] # None \/ Forgets(toServer, cc)
    <3>1. CASE client.configuring
      <4>1. Asks
        BY <3>1 DEF Staged, Away
      <4>. QED  BY <4>1 DEF Asks, Holds, Forgets
    <3>2. CASE ~Within(cc, client.at, Radius + ClientMargin)
      BY <1>0, <3>2, TooFar, FarForgotten
    <3>3. CASE ~client.configuring /\ Within(cc, client.at, Radius + ClientMargin)
      <4>1. held' = [held EXCEPT ![f.cc] =
                IF ~client.configuring /\ Within(f.cc, client.at, Radius + ClientMargin)
                THEN f.n ELSE @]
        BY <1>5, <2>3 DEF Shown
      <4>2. held'[cc] = f.n
        BY <1>0, <2>3, <3>3, <4>1
      <4>. QED  BY <1>0, <1>1, <4>2
    <3>. QED  BY <3>1, <3>2, <3>3
  <2>. QED  BY <1>3, <1>8, <2>1, <2>2, <2>3 DEF Given
<1>. QED  BY <1>6, <1>7, <1>8

\* A chunk of the records stays given, whatever the step, unless the reader
\* takes a frame of the client's or the client is let back.
LEMMA GivenStep ==
  ASSUME TypeInv, Switches, Staged, Located, Next, ~closing.done, ~Read,
         Receive => ~Rejoins, NEW cc \in Chunks, Near(cc), Given(cc)
  PROVE  Given(cc)'
<1>0. /\ toServer \in Seq(Messages) /\ client \in [at : Chunks, configuring : BOOLEAN]
      /\ held \in [Chunks -> Edited \cup {None, Foreign}]
  BY DEF TypeInv, PlacesTyped, ClientTyped
<1>1. CASE Receive
  BY <1>1, GivenReceive
<1>2. ASSUME ~Receive
      PROVE  (Carries(Line, cc) => Carries(Line', cc)) /\ (Sends(Line) => Sends(Line'))
  <2>. SUFFICES ASSUME NEW L, NEW M, L = Line, M = Line'
                PROVE  (Carries(L, cc) => Carries(M, cc)) /\ (Sends(L) => Sends(M))
    OBVIOUS
  <2>1. M = L \/ \E f \in Frames : \E k \in 0 .. Len(L) : Inserts(L, M, k, f)
    BY <1>2, LineStep
  <2>. QED  BY <2>1, Carried
<1>3. ASSUME NEW x \in Xs, Move(x), ~Receive PROVE Given(cc)'
  <2>. DEFINE at == <<client.at[1], x>>
  <2>1. at \in Chunks
    BY <1>0 DEF Chunks
  <2>. HIDE DEF at
  <2>2. /\ held' = [c \in Chunks |-> IF Within(c, at, Radius + ClientMargin) THEN held[c] ELSE None]
        /\ toServer' = Append(toServer, Want("entered", at))
    BY <1>3 DEF Move, at
  <2>3. Want("entered", at) \in Messages /\ Want("entered", at).cc = at
    BY <2>1, Framed DEF Want
  <2>4. Forgets(toServer, cc) => Forgets(toServer', cc)
    BY <1>0, <2>2, <2>3, ForgetsMore
  <2>5. held[cc] # None => held'[cc] # None \/ Forgets(toServer', cc)
    <3>1. CASE Within(cc, at, Radius + ClientMargin)
      BY <2>2, <3>1
    <3>2. CASE ~Within(cc, at, Radius + ClientMargin)
      BY <1>0, <2>1, <2>2, <2>3, <3>2, TooFar, ForgetsMore
    <3>. QED  BY <3>1, <3>2
  <2>. QED  BY <1>2, <1>3, <2>4, <2>5 DEF Given
<1>4. ASSUME Refresh, ~Receive PROVE Given(cc)'
  <2>1. UNCHANGED held /\ toServer' = Append(toServer, Want("refresh", client.at))
    BY <1>4 DEF Refresh
  <2>2. Want("refresh", client.at) \in Messages
    BY <1>0, Framed
  <2>3. Forgets(toServer, cc) => Forgets(toServer', cc)
    BY <1>0, <2>1, <2>2, ForgetsMore
  <2>. QED  BY <1>2, <1>4, <2>1, <2>3 DEF Given
<1>5. ASSUME UNCHANGED <<held, toServer>>, ~Receive PROVE Given(cc)'
  BY <1>2, <1>5 DEF Given
<1>. QED  BY <1>1, <1>3, <1>4, <1>5, ClientSteps DEF Client

\* The line of frames grows, and the client says and does nothing.
LEMMA GivenSteady ==
  ASSUME UNCHANGED <<held, toServer>>, NEW cc, Given(cc),
         Line' = Line \/ \E f \in Frames : \E k \in 0 .. Len(Line) : Inserts(Line, Line', k, f)
  PROVE  Given(cc)'
<1>1. (Carries(Line, cc) => Carries(Line', cc)) /\ (Sends(Line) => Sends(Line'))
  <2>. SUFFICES ASSUME NEW L, NEW M, L = Line, M = Line'
                PROVE  (Carries(L, cc) => Carries(M, cc)) /\ (Sends(L) => Sends(M))
    OBVIOUS
  <2>. QED  BY Carried
<1>. QED  BY <1>1 DEF Given

\* What the records name is given or on its way, whatever a worker does.
LEMMA ServedWorks ==
  ASSUME TypeInv, Served, ~closing.done, NEW w \in Workers, Works(w)
  PROVE  Served'
<1>0. /\ view \in [known : BOOLEAN, at : Chunks, sent : SUBSET Chunks]
      /\ backlog \in Seq(Chunks) /\ job \in [Workers -> Jobs] /\ sent \subseteq Chunks
  BY DEF TypeInv, PlacesTyped, RecordsTyped, JobsTyped
<1>1. UNCHANGED <<sent, held, toServer, feed>> /\ failed \subseteq failed'
  BY DEF Works, Take, Finish, Build, FailBuild, Send, Report, worker, history
<1>2. \/ Line' = Line
      \/ \E f \in Frames : \E k \in 0 .. Len(Line) : Inserts(Line, Line', k, f)
  <2>1. CASE UNCHANGED out
    BY <1>1, <2>1, Lines
  <2>2. CASE out' = Append(out, Chunk(job[w].cc, job[w].n))
    <3>1. job[w].cc \in Chunks /\ job[w].n \in Edited
      BY DEF TypeInv, JobsTyped, Jobs
    <3>2. Chunk(job[w].cc, job[w].n) \in Frames
      BY <3>1, Framed
    <3>. QED  BY <1>1, <2>2, <3>2, Lines
  <2>. QED  BY <2>1, <2>2 DEF Works, Take, Finish, Build, FailBuild, Send, Report
<1>3. \A cc : Given(cc) => Given(cc)'
  BY <1>1, <1>2, GivenSteady
<1>4. ASSUME Send(w), NEW c, c = job[w].cc PROVE Given(c)'
  <2>. DEFINE f == Chunk(c, job[w].n)
  <2>1. f.kind = "chunk" /\ f.cc = c
    BY DEF Chunk
  <2>2. f \in Frames
    <3>0. f = Chunk(job[w].cc, job[w].n)
      BY <1>4
    <3>1. job[w].cc \in Chunks /\ job[w].n \in Edited
      BY DEF TypeInv, JobsTyped, Jobs
    <3>. QED  BY <3>0, <3>1, Framed
  <2>3. out' = Append(out, f)
    BY <1>4, Worked
  <2>. HIDE DEF f
  <2>4. Inserts(Line, Line', Len(out), f)
    BY <1>1, <2>2, <2>3, Lines
  <2>5. ASSUME NEW L, NEW M, L = Line, M = Line' PROVE Carries(M, c)
    BY <2>1, <2>4, <2>5, Carried
  <2>. QED  BY <2>5 DEF Given
<1>5. \A u \in Workers : u # w => job'[u] = job[u]
  BY Worked
<1>6. ASSUME NEW cc, Coming(cc) PROVE Given(cc)' \/ Coming(cc)' \/ cc \in failed'
  <2>1. ASSUME NEW i \in 1 .. Len(backlog), backlog[i] = cc PROVE Coming(cc)'
    <3>1. CASE Take(w)
      <4>1. /\ backlog' = Tail(backlog) /\ backlog # <<>>
            /\ job'[w].step = "taken" /\ job'[w].cc = Head(backlog)
        BY <3>1, Worked DEF Take
      <4>2. /\ Head(backlog) = backlog[1] /\ Len(backlog) \in Nat
            /\ Len(backlog') = Len(backlog) - 1
            /\ \A j \in 1 .. (Len(backlog) - 1) : backlog'[j] = backlog[j + 1]
        BY <1>0, <4>1, Popped
      <4>3. CASE i = 1
        BY <2>1, <4>1, <4>2, <4>3 DEF Coming
      <4>4. CASE i # 1
        <5>1. i - 1 \in 1 .. Len(backlog') /\ i - 1 \in 1 .. (Len(backlog) - 1) /\ (i - 1) + 1 = i
          BY <4>2, <4>4
        <5>2. backlog'[i - 1] = backlog[(i - 1) + 1]
          BY <4>2, <5>1
        <5>. QED  BY <2>1, <5>1, <5>2 DEF Coming
      <4>. QED  BY <4>3, <4>4
    <3>2. CASE ~Take(w)
      <4>1. UNCHANGED backlog
        BY <3>2 DEF Works, Finish, Build, FailBuild, Send, Report
      <4>. QED  BY <2>1, <4>1 DEF Coming
    <3>. QED  BY <3>1, <3>2
  <2>2. ASSUME NEW u \in Workers, job[u].step \in {"taken", "built"}, job[u].cc = cc
        PROVE  Given(cc)' \/ Coming(cc)' \/ cc \in failed'
    <3>1. CASE u # w
      <4>1. job'[u] = job[u]
        BY <1>5, <3>1
      <4>. QED  BY <2>2, <4>1 DEF Coming
    <3>2. CASE u = w /\ Build(w)
      <4>1. job'[w].step = "built" /\ job'[w].cc = cc
        BY <2>2, <3>2, Worked
      <4>. QED  BY <4>1 DEF Coming
    <3>3. CASE u = w /\ FailBuild(w)
      BY <2>2, <3>3 DEF FailBuild
    <3>4. CASE u = w /\ Send(w)
      BY <1>4, <2>2, <3>4
    <3>5. ~Take(u) /\ ~Finish(u) /\ ~Report(u)
      BY <2>2 DEF Take, Finish, Report
    <3>. QED  BY <3>1, <3>2, <3>3, <3>4, <3>5 DEF Works
  <2>. QED  BY <1>6, <2>1, <2>2 DEF Coming
<1>7. \A cc \in sent' : Given(cc)' \/ Coming(cc)' \/ cc \in failed'
  BY <1>1, <1>3, <1>6 DEF Served
<1>8. \A cc \in view'.sent : Given(cc)' \/ cc \in late'
  <2>1. CASE Report(w)
    <3>1. /\ view'.sent = view.sent \cup {job[w].cc} /\ job[w].step = "written"
          /\ late \subseteq late' /\ (job[w].forgotten => job[w].cc \in late')
      BY <1>0, <2>1 DEF Report
    <3>2. ASSUME NEW cc \in Chunks, cc = job[w].cc PROVE Given(cc) \/ job[w].forgotten
      BY <3>1, <3>2 DEF Served
    <3>3. job[w].cc \in Chunks
      BY DEF TypeInv, JobsTyped, Jobs
    <3>4. \A cc \in view.sent : Given(cc)' \/ cc \in late'
      BY <1>3, <3>1 DEF Served
    <3>. QED  BY <1>3, <3>1, <3>2, <3>3, <3>4
  <2>2. CASE ~Report(w)
    <3>1. UNCHANGED <<view, late>>
      BY <2>2 DEF Works, Take, Finish, Build, FailBuild, Send, history
    <3>. QED  BY <1>3, <3>1 DEF Served
  <2>. QED  BY <2>1, <2>2
<1>9. ASSUME NEW u \in Workers, NEW cc \in Chunks, job'[u].step = "written", job'[u].cc = cc
      PROVE  Given(cc)' \/ job'[u].forgotten
  <2>1. CASE u # w
    <3>1. job'[u] = job[u]
      BY <1>5, <2>1
    <3>. QED  BY <1>3, <1>9, <3>1 DEF Served
  <2>2. CASE u = w
    <3>1. Send(w)
      BY <1>9, <2>2, Worked DEF Works
    <3>2. job'[w].cc = job[w].cc
      BY <3>1, Worked
    <3>. QED  BY <1>4, <1>9, <2>2, <3>1, <3>2
  <2>. QED  BY <2>1, <2>2
<1>. QED  BY <1>7, <1>8, <1>9 DEF Served

\* The reader takes a frame of the client's.
LEMMA ServedRead ==
  ASSUME TypeInv, Served, Read
  PROVE  Served'
<1>. DEFINE m == Head(toServer)
<1>0. /\ view \in [known : BOOLEAN, at : Chunks, sent : SUBSET Chunks]
      /\ toServer \in Seq(Messages) /\ backlog \in Seq(Chunks) /\ sent \subseteq Chunks
      /\ job \in [Workers -> Jobs]
  BY DEF TypeInv, PlacesTyped, ClientTyped, RecordsTyped, JobsTyped
<1>1. /\ m = toServer[1] /\ m \in Messages /\ toServer' = Tail(toServer)
      /\ Len(toServer) \in Nat /\ Len(toServer') = Len(toServer) - 1
      /\ \A i \in 1 .. (Len(toServer) - 1) : toServer'[i] = toServer[i + 1]
      /\ UNCHANGED <<held, failed, late, feed>>
  BY <1>0, Popped DEF Read, history
<1>2. CASE ReadConfigured
  <2>1. sent' = {} /\ view'.sent = {} /\ job' = Forgetting({})
    BY <1>0, <1>2 DEF ReadConfigured, SentCleared, ViewReset
  <2>2. ASSUME NEW w \in Workers, job'[w].step = "written" PROVE job'[w].forgotten
    <3>1. /\ job'[w].step = job[w].step
          /\ AtWork(w) /\ job[w].cc \notin {} => job'[w].forgotten
      BY <2>1, Forgot
    <3>. QED  BY <2>2, <3>1 DEF AtWork
  <2>. QED  BY <2>1, <2>2 DEF Served
<1>3. CASE m.kind # "configured" /\ ReadWant(m)
  <2>1. Line' = Line
    BY <1>1, <1>3, WantDoes, Lines
  <2>2. ASSUME NEW cc, Within(cc, m.cc, Radius + Margin), Given(cc) PROVE Given(cc)'
    <3>1. ASSUME NEW i \in 1 .. Len(toServer),
                 toServer[i].kind = "configured" \/ ~Within(cc, toServer[i].cc, Radius + Margin)
          PROVE  Forgets(toServer', cc)
      <4>1. i # 1
        BY <1>1, <1>3, <2>2, <3>1
      <4>2. i - 1 \in 1 .. Len(toServer') /\ i - 1 \in 1 .. (Len(toServer) - 1) /\ (i - 1) + 1 = i
        BY <1>1, <4>1
      <4>3. toServer'[i - 1] = toServer[(i - 1) + 1]
        BY <1>1, <4>2
      <4>. QED  BY <3>1, <4>2, <4>3 DEF Forgets
    <3>2. Forgets(toServer, cc) => Forgets(toServer', cc)
      <4>1. Forgets(toServer, cc) => \E i \in 1 .. Len(toServer) :
               toServer[i].kind = "configured" \/ ~Within(cc, toServer[i].cc, Radius + Margin)
        BY DEF Forgets
      <4>. QED  BY <3>1, <4>1
    <3>. QED  BY <1>1, <2>1, <2>2, <3>2 DEF Given
  <2>3. view'.sent = Kept(m.cc, view.sent) /\ job' = Forgetting(Kept(m.cc, Chunks))
    BY <1>3, WantDoes
  <2>4. PICK fit \in Seq(Chunks) :
           /\ backlog' = backlog \o fit
           /\ sent' \subseteq Kept(m.cc, sent) \cup Range(fit)
    BY <1>1, <1>3, WantRead
  <2>. HIDE DEF m
  <2>5. \A w \in Workers : /\ job'[w].step = job[w].step /\ job'[w].cc = job[w].cc
                           /\ job[w].forgotten => job'[w].forgotten
                           /\ AtWork(w) /\ job[w].cc \notin Kept(m.cc, Chunks) => job'[w].forgotten
    BY <2>3, Forgot
  <2>6. /\ \A i \in 1 .. Len(backlog) : i \in 1 .. Len(backlog') /\ backlog'[i] = backlog[i]
        /\ \A i \in 1 .. Len(fit) : Len(backlog) + i \in 1 .. Len(backlog')
                                    /\ backlog'[Len(backlog) + i] = fit[i]
    <3>1. /\ Len(backlog) \in Nat /\ Len(fit) \in Nat /\ Len(backlog') = Len(backlog) + Len(fit)
          /\ \A i \in 1 .. Len(backlog) + Len(fit) :
                backlog'[i] = IF i <= Len(backlog) THEN backlog[i] ELSE fit[i - Len(backlog)]
      BY <1>0, <2>4, ConcatProperties
    <3>2. ASSUME NEW i \in 1 .. Len(fit)
          PROVE  Len(backlog) + i \in 1 .. Len(backlog') /\ backlog'[Len(backlog) + i] = fit[i]
      <4>1. /\ Len(backlog) + i \in 1 .. Len(backlog') /\ ~(Len(backlog) + i <= Len(backlog))
            /\ (Len(backlog) + i) - Len(backlog) = i
        BY <3>1
      <4>. QED  BY <3>1, <4>1
    <3>3. \A i \in 1 .. Len(backlog) : i \in 1 .. Len(backlog') /\ backlog'[i] = backlog[i]
      BY <3>1
    <3>. QED  BY <3>2, <3>3
  <2>7. \A cc : Coming(cc) => Coming(cc)'
    BY <2>5, <2>6 DEF Coming
  <2>8. \A cc \in Range(fit) : Coming(cc)'
    <3>1. DOMAIN fit = 1 .. Len(fit)
      OBVIOUS
    <3>. QED  BY <2>6, <3>1 DEF Range, Coming
  <2>9. \A cc \in sent' : Given(cc)' \/ Coming(cc)' \/ cc \in failed'
    BY <1>1, <2>2, <2>4, <2>7, <2>8 DEF Served, Kept
  <2>10. \A cc \in view'.sent : Given(cc)' \/ cc \in late'
    BY <1>1, <2>2, <2>3 DEF Served, Kept
  <2>11. ASSUME NEW w \in Workers, NEW cc \in Chunks, job'[w].step = "written", job'[w].cc = cc
         PROVE  Given(cc)' \/ job'[w].forgotten
    <3>1. job[w].step = "written" /\ AtWork(w) /\ job[w].cc = cc
      BY <2>5, <2>11 DEF AtWork
    <3>2. Given(cc) \/ job[w].forgotten
      BY <3>1 DEF Served
    <3>3. ~job'[w].forgotten => Within(cc, m.cc, Radius + Margin)
      BY <2>5, <3>1 DEF Kept
    <3>. QED  BY <2>2, <2>5, <3>2, <3>3
  <2>. QED  BY <2>9, <2>10, <2>11 DEF Served
<1>. QED  BY <1>2, <1>3 DEF Read

\* What the records name is given or on its way, whatever the step.
LEMMA ServedStep ==
  ASSUME TypeInv, Switches, Staged, Located, RecordsNear, Cleared, Served, Next, ~closing.done
  PROVE  Served'
<1>1. ASSUME ~Read, UNCHANGED <<sent, view, job, backlog, failed, late>> PROVE Served'
  <2>1. CASE Rejoins
    BY <1>1, <2>1 DEF Cleared, Served, AtWork
  <2>2. CASE ~Rejoins
    <3>1. sent \subseteq Chunks /\ view.sent \subseteq Chunks /\ \A w \in Workers : job[w].cc \in Chunks
      BY DEF TypeInv, RecordsTyped, PlacesTyped, JobsTyped, Jobs
    <3>2. \A cc \in Chunks : Near(cc) /\ Given(cc) => Given(cc)'
      BY <1>1, <2>2, GivenStep
    <3>3. \A cc : Coming(cc)' <=> Coming(cc)
      BY <1>1 DEF Coming
    <3>4. \A cc \in sent' : Given(cc)' \/ Coming(cc)' \/ cc \in failed'
      BY <1>1, <3>1, <3>2, <3>3 DEF RecordsNear, Served
    <3>5. \A cc \in view'.sent : Given(cc)' \/ cc \in late'
      BY <1>1, <3>1, <3>2 DEF RecordsNear, Served
    <3>6. ASSUME NEW w \in Workers, NEW cc \in Chunks, job'[w].step = "written", job'[w].cc = cc
          PROVE  Given(cc)' \/ job'[w].forgotten
      <4>1. job'[w] = job[w]
        BY <1>1
      <4>2. Near(cc) \/ job[w].forgotten
        BY <3>6, <4>1 DEF RecordsNear, AtWork
      <4>3. Given(cc) \/ job[w].forgotten
        BY <3>6, <4>1 DEF Served
      <4>. QED  BY <3>2, <4>1, <4>2, <4>3
    <3>. QED  BY <3>4, <3>5, <3>6 DEF Served
  <2>. QED  BY <2>1, <2>2
<1>. QED  BY <1>1, ServedRead, ServedWorks, RecordSteps

-----------------------------------------------------------------------------
(* The last state of a block follows the older ones.                       *)

\* Between the changes of E with S settled and those of F with R: nothing a
\* chunk waits for is lost; frame e is what a chunk waits for, or nothing is.
Keeps(E, S, F, R) == \A c \in Chunks : c \in R \/ (F[c] = E[c] /\ (c \in S => c \in R))
Tells(e, E, S, F, R) == \A c \in Chunks :
    c \in R \/ e = Block(c, F[c]) \/ (F[c] = E[c] /\ (c \in S => c \in R))

\* A frame is still in a longer line, at its place or the next.
LEMMA LaterOn ==
  ASSUME NEW L, NEW M, NEW k, NEW f, Inserts(L, M, k, f), NEW i \in Int, i >= 1,
         NEW g, Later(g, L, i)
  PROVE  /\ Later(g, M, i)
         /\ i >= k + 1 => Later(g, M, i + 1)
<1>1. PICK j \in i .. Len(L) : L[j] = g
  BY DEF Later
<1>2. Len(L) \in Nat /\ Len(M) = Len(L) + 1 /\ k \in 0 .. Len(L) /\ j \in 1 .. Len(L)
  BY <1>1, Inserted
<1>3. CASE j \in 1 .. k /\ M[j] = L[j]
  <2>1. j \in i .. Len(M) /\ ~(i >= k + 1)
    BY <1>1, <1>2, <1>3
  <2>. QED  BY <1>1, <1>3, <2>1 DEF Later
<1>4. CASE j \in (k + 1) .. Len(L) /\ M[j + 1] = L[j]
  <2>1. j + 1 \in i .. Len(M) /\ j + 1 \in (i + 1) .. Len(M)
    BY <1>1, <1>2, <1>4
  <2>. QED  BY <1>1, <1>4, <2>1 DEF Later
<1>5. \/ j \in 1 .. k /\ M[j] = L[j]
      \/ j \in (k + 1) .. Len(L) /\ M[j + 1] = L[j]
  BY <1>2, Inserted
<1>. QED  BY <1>3, <1>4, <1>5

\* A frame at the end of the line is behind every other.
LEMMA LaterEnd ==
  ASSUME NEW L, NEW M, NEW f, Inserts(L, M, Len(L), f), NEW i \in Int, i <= Len(L) + 1
  PROVE  Later(f, M, i)
<1>1. Len(L) + 1 \in i .. Len(M) /\ M[Len(L) + 1] = f
  BY DEF Inserts
<1>. QED  BY <1>1 DEF Later

\* A frame is still in a shorter line, unless it was the first.
LEMMA LaterTaken ==
  ASSUME NEW L, NEW M, Takes(L, M), NEW i \in Int, i >= 1, NEW g, Later(g, L, i)
  PROVE  /\ i >= 2 => Later(g, M, i - 1)
         /\ L[1] = g \/ Later(g, M, 1)
<1>1. PICK j \in i .. Len(L) : L[j] = g
  BY DEF Later
<1>2. Len(L) \in Nat /\ Len(M) = Len(L) - 1 /\ j \in 1 .. Len(L)
  BY <1>1, Taken
<1>3. CASE j = 1
  BY <1>1, <1>2, <1>3
<1>4. CASE j # 1
  <2>1. M[j - 1] = L[j]
    BY <1>2, <1>4, Taken
  <2>2. j - 1 \in 1 .. Len(M) /\ (i >= 2 => j - 1 \in (i - 1) .. Len(M))
    BY <1>1, <1>2, <1>4
  <2>. QED  BY <1>1, <2>1, <2>2 DEF Later
<1>. QED  BY <1>3, <1>4

\* What is followed stays followed: in the same line, in a longer one, and
\* behind the frame that tells of a change.
LEMMA FollowedSame ==
  ASSUME NEW c \in Chunks, NEW n, NEW L, NEW i, NEW E, NEW S, NEW F, NEW R,
         Keeps(E, S, F, R), Followed(c, n, L, i, E, S)
  PROVE  Followed(c, n, L, i, F, R)
BY DEF Keeps, Followed

LEMMA FollowedOn ==
  ASSUME NEW c \in Chunks, NEW n, NEW i \in Int, i >= 1, NEW E, NEW S, NEW F, NEW R,
         NEW L, NEW M, NEW k, NEW f, Inserts(L, M, k, f),
         Keeps(E, S, F, R), Followed(c, n, L, i, E, S)
  PROVE  /\ Followed(c, n, M, i, F, R)
         /\ i >= k + 1 => Followed(c, n, M, i + 1, F, R)
<1>1. Followed(c, n, L, i, F, R)
  BY FollowedSame
<1>. DEFINE g == Block(c, F[c])
<1>2. /\ Later(g, L, i) => Later(g, M, i)
      /\ Later(g, L, i) /\ i >= k + 1 => Later(g, M, i + 1)
  <2>. HIDE DEF g
  <2>. QED  BY LaterOn
<1>. QED  BY <1>1, <1>2 DEF Followed

LEMMA FollowedTold ==
  ASSUME NEW c \in Chunks, NEW n, NEW i \in Int, i >= 1, NEW E, NEW S, NEW F, NEW R,
         NEW L, NEW M, NEW f, Inserts(L, M, Len(L), f), i <= Len(L) + 1,
         Tells(f, E, S, F, R), Followed(c, n, L, i, E, S)
  PROVE  Followed(c, n, M, i, F, R)
<1>. DEFINE g == Block(c, F[c])
<1>1. Later(g, L, i) => Later(g, M, i)
  <2>. HIDE DEF g
  <2>. QED  BY LaterOn
<1>2. Later(f, M, i)
  BY LaterEnd
<1>. QED  BY <1>1, <1>2 DEF Tells, Followed

\* So are all the states of a line.
LEMMA InOrderSame ==
  ASSUME NEW L \in Seq(Frames), NEW E, NEW S, NEW F, NEW R, Keeps(E, S, F, R), InOrder(L, E, S)
  PROVE  InOrder(L, F, R)
<1>1. \A i \in 1 .. Len(L) : L[i] \in Frames
  OBVIOUS
<1>2. \A i \in 1 .. Len(L) : L[i].cc \in Chunks
  BY <1>1 DEF Frames
<1>. QED  BY <1>2, FollowedSame DEF InOrder

LEMMA InOrderOn ==
  ASSUME NEW E, NEW S, NEW F, NEW R, NEW L, NEW M, NEW k, NEW f, Inserts(L, M, k, f),
         Keeps(E, S, F, R), InOrder(L, E, S),
         f.kind \in {"block", "chunk"} => Followed(f.cc, f.n, M, k + 2, F, R)
  PROVE  InOrder(M, F, R)
<1>1. Len(L) \in Nat /\ Len(M) = Len(L) + 1 /\ k \in 0 .. Len(L) /\ L \in Seq(Frames)
  BY DEF Inserts
<1>2. ASSUME NEW i \in 1 .. Len(L), L[i].kind \in {"block", "chunk"}
      PROVE  /\ Followed(L[i].cc, L[i].n, M, i + 1, F, R)
             /\ i >= k + 1 => Followed(L[i].cc, L[i].n, M, i + 2, F, R)
  <2>0. L[i] \in Frames
    BY <1>1
  <2>1. L[i].cc \in Chunks
    BY <2>0 DEF Frames
  <2>2. Followed(L[i].cc, L[i].n, L, i + 1, E, S)
    BY <1>2 DEF InOrder
  <2>3. i + 1 \in Int /\ i + 1 >= 1 /\ (i + 1) + 1 = i + 2 /\ (i >= k + 1 => i + 1 >= k + 1)
    BY <1>1
  <2>4. /\ Followed(L[i].cc, L[i].n, M, i + 1, F, R)
        /\ i + 1 >= k + 1 => Followed(L[i].cc, L[i].n, M, (i + 1) + 1, F, R)
    BY <2>1, <2>2, <2>3, FollowedOn
  <2>. QED  BY <2>3, <2>4
<1>3. ASSUME NEW i \in 1 .. Len(M), M[i].kind \in {"block", "chunk"}
      PROVE  Followed(M[i].cc, M[i].n, M, i + 1, F, R)
  <2>1. CASE i \in 1 .. Len(L) /\ M[i] = L[i]
    BY <1>2, <1>3, <2>1
  <2>2. CASE i = k + 1 /\ M[i] = f
    <3>1. (k + 1) + 1 = k + 2
      BY <1>1
    <3>. QED  BY <1>3, <2>2, <3>1
  <2>3. CASE i - 1 \in (k + 1) .. Len(L) /\ M[i] = L[i - 1]
    <3>1. i - 1 \in 1 .. Len(L) /\ i - 1 >= k + 1 /\ (i - 1) + 2 = i + 1
      BY <1>1, <2>3
    <3>2. Followed(L[i - 1].cc, L[i - 1].n, M, (i - 1) + 2, F, R)
      BY <1>2, <1>3, <2>3, <3>1
    <3>. QED  BY <2>3, <3>1, <3>2
  <2>. QED  BY <2>1, <2>2, <2>3, Inserted
<1>. QED  BY <1>3 DEF InOrder

LEMMA InOrderTold ==
  ASSUME NEW E, NEW S, NEW F, NEW R, NEW L, NEW M, NEW f, Inserts(L, M, Len(L), f),
         Tells(f, E, S, F, R), InOrder(L, E, S),
         f.kind \in {"block", "chunk"} => f.n = F[f.cc] \/ f.cc \in R
  PROVE  InOrder(M, F, R)
<1>1. /\ Len(L) \in Nat /\ Len(M) = Len(L) + 1 /\ L \in Seq(Frames)
      /\ \A i \in 1 .. Len(L) : M[i] = L[i]
      /\ M[Len(L) + 1] = f
  BY DEF Inserts
<1>2. ASSUME NEW i \in 1 .. Len(M), M[i].kind \in {"block", "chunk"}
      PROVE  Followed(M[i].cc, M[i].n, M, i + 1, F, R)
  <2>1. CASE i \in 1 .. Len(L)
    <3>0. L[i] \in Frames
      BY <1>1, <2>1
    <3>1. L[i].cc \in Chunks
      BY <3>0 DEF Frames
    <3>2. Followed(L[i].cc, L[i].n, L, i + 1, E, S)
      BY <1>1, <1>2, <2>1 DEF InOrder
    <3>3. i + 1 \in Int /\ i + 1 >= 1 /\ i + 1 <= Len(L) + 1
      BY <1>1, <2>1
    <3>4. Followed(L[i].cc, L[i].n, M, i + 1, F, R)
      BY <3>1, <3>2, <3>3, FollowedTold
    <3>. QED  BY <1>1, <2>1, <3>4
  <2>2. CASE i = Len(L) + 1
    <3>1. M[i] = f
      BY <1>1, <2>2
    <3>2. f.n = F[f.cc] \/ f.cc \in R
      BY <1>2, <3>1
    <3>. QED  BY <3>1, <3>2 DEF Followed
  <2>. QED  BY <1>1, <2>1, <2>2
<1>. QED  BY <1>2 DEF InOrder

LEMMA InOrderTaken ==
  ASSUME NEW E, NEW S, NEW L, NEW M, Takes(L, M), InOrder(L, E, S)
  PROVE  /\ InOrder(M, E, S)
         /\ L[1].kind \in {"block", "chunk"} => Followed(L[1].cc, L[1].n, M, 1, E, S)
<1>1. /\ Len(L) \in Nat /\ Len(L) >= 1 /\ Len(M) = Len(L) - 1
      /\ \A i \in 1 .. Len(M) : M[i] = L[i + 1]
  BY DEF Takes
<1>2. ASSUME NEW i \in 1 .. Len(L), L[i].kind \in {"block", "chunk"}
      PROVE  Followed(L[i].cc, L[i].n, M, i, E, S)
  <2>1. Followed(L[i].cc, L[i].n, L, i + 1, E, S)
    BY <1>2 DEF InOrder
  <2>2. i + 1 \in Int /\ i + 1 >= 1 /\ i + 1 >= 2 /\ (i + 1) - 1 = i
    BY <1>1
  <2>. DEFINE g == Block(L[i].cc, E[L[i].cc])
  <2>3. Later(g, L, i + 1) => Later(g, M, (i + 1) - 1)
    <3>. HIDE DEF g
    <3>. QED  BY <2>2, LaterTaken
  <2>. QED  BY <2>1, <2>2, <2>3 DEF Followed
<1>3. ASSUME NEW i \in 1 .. Len(M), M[i].kind \in {"block", "chunk"}
      PROVE  Followed(M[i].cc, M[i].n, M, i + 1, E, S)
  <2>1. i + 1 \in 1 .. Len(L) /\ M[i] = L[i + 1]
    BY <1>1
  <2>. QED  BY <1>2, <1>3, <2>1
<1>4. 1 \in 1 .. Len(L)
  BY <1>1
<1>. QED  BY <1>2, <1>3, <1>4 DEF InOrder

\* A queue with one more element, and without its first.
LEMMA RangeMore ==
  ASSUME NEW T, NEW q \in Seq(T), NEW e \in T
  PROVE  Range(Append(q, e)) = Range(q) \cup {e}
<1>. DEFINE r == Append(q, e)
<1>1. /\ r \in Seq(T) /\ Len(q) \in Nat /\ Len(r) = Len(q) + 1 /\ r[Len(q) + 1] = e
      /\ \A i \in 1 .. Len(q) : r[i] = q[i]
  BY Appended
<1>. HIDE DEF r
<1>2. DOMAIN q = 1 .. Len(q) /\ DOMAIN r = 1 .. Len(r)
  BY <1>1
<1>3. \A i \in 1 .. Len(r) : i \in 1 .. Len(q) \/ i = Len(q) + 1
  BY <1>1
<1>4. Len(q) + 1 \in 1 .. Len(r) /\ \A i \in 1 .. Len(q) : i \in 1 .. Len(r)
  BY <1>1
<1>. QED  BY <1>1, <1>2, <1>3, <1>4 DEF Range, r

LEMMA RangeLess ==
  ASSUME NEW T, NEW q \in Seq(T), q # <<>>
  PROVE  Range(q) \subseteq {Head(q)} \cup Range(Tail(q))
<1>. DEFINE t == Tail(q)
<1>1. /\ Head(q) = q[1] /\ t \in Seq(T) /\ Len(q) \in Nat /\ Len(q) >= 1
      /\ Len(t) = Len(q) - 1
      /\ \A i \in 1 .. (Len(q) - 1) : t[i] = q[i + 1]
  BY Popped
<1>. HIDE DEF t
<1>2. DOMAIN q = 1 .. Len(q) /\ DOMAIN t = 1 .. Len(t)
  BY <1>1
<1>3. ASSUME NEW i \in 1 .. Len(q), i # 1 PROVE q[i] \in Range(t)
  <2>1. i - 1 \in 1 .. (Len(q) - 1) /\ (i - 1) + 1 = i /\ i - 1 \in 1 .. Len(t)
    BY <1>1, <1>3
  <2>2. t[i - 1] = q[(i - 1) + 1]
    BY <1>1, <2>1
  <2>. QED  BY <1>2, <2>1, <2>2 DEF Range
<1>. QED  BY <1>1, <1>2, <1>3 DEF Range, t

\* Steps after which what was settled is.
LEMMA SettledSteady ==
  ASSUME UNCHANGED edits, stale \subseteq stale', posting \subseteq posting' \cup Range(hubQueue'),
         Range(hubQueue) \subseteq Range(hubQueue')
  PROVE  Keeps(edits, Settled, edits', Settled')
BY DEF Keeps, Settled

\* The hub takes the first of its events: only what that one tells of is no
\* longer settled.
LEMMA SettledHub ==
  ASSUME TypeInv, hubQueue # <<>>, hubQueue' = Tail(hubQueue), UNCHANGED <<edits, posting>>,
         stale \subseteq stale', NEW c \in Chunks, c \in Settled
  PROVE  c \in Settled' \/ Head(hubQueue) = Block(c, edits[c])
<1>1. Range(hubQueue) \subseteq {Head(hubQueue)} \cup Range(Tail(hubQueue))
  BY RangeLess DEF TypeInv, WorldTyped
<1>. QED  BY <1>1 DEF Settled

\* A job that is built was built before, or has just been.
BuiltBefore ==
    \A w \in Workers : job'[w].step = "built" =>
        \/ job[w].step = "built" /\ job'[w].cc = job[w].cc /\ job'[w].n = job[w].n
        \/ job'[w].n = edits'[job'[w].cc]

\* The line stays as it is.
LEMMA FreshSteady ==
  ASSUME TypeInv, Fresh, Line' = Line, UNCHANGED feed,
         Keeps(edits, Settled, edits', Settled'),
         \A c \in Chunks : held'[c] \in {None, held[c]}, BuiltBefore
  PROVE  Fresh'
<1>1. Line \in Seq(Frames) /\ \A w \in Workers : job[w].cc \in Chunks
  BY Lines DEF TypeInv, JobsTyped, Jobs
<1>. SUFFICES ASSUME NEW L, L = Line, NEW q, q = feed, NEW E, E = edits, NEW F, F = edits',
                     NEW S, S = Settled, NEW R, R = Settled'
              PROVE  /\ InOrder(L, F, R)
                     /\ \A w \in Workers : job'[w].step = "built" =>
                            Followed(job'[w].cc, job'[w].n, q, 1, F, R)
                     /\ \A c \in Chunks : held'[c] # None => Followed(c, held'[c], L, 1, F, R)
  BY DEF Fresh
<1>2. /\ InOrder(L, E, S) /\ Keeps(E, S, F, R)
      /\ \A w \in Workers : job[w].step = "built" => Followed(job[w].cc, job[w].n, q, 1, E, S)
      /\ \A c \in Chunks : held[c] # None => Followed(c, held[c], L, 1, E, S)
  BY DEF Fresh
<1>3. InOrder(L, F, R)
  BY <1>1, <1>2, InOrderSame
<1>4. ASSUME NEW w \in Workers, job'[w].step = "built"
      PROVE  Followed(job'[w].cc, job'[w].n, q, 1, F, R)
  <2>1. CASE job'[w].n = F[job'[w].cc]
    BY <2>1 DEF Followed
  <2>2. CASE job[w].step = "built" /\ job'[w].cc = job[w].cc /\ job'[w].n = job[w].n
    BY <1>1, <1>2, <2>2, FollowedSame
  <2>. QED  BY <1>4, <2>1, <2>2 DEF BuiltBefore
<1>5. ASSUME NEW c \in Chunks, held'[c] # None PROVE Followed(c, held'[c], L, 1, F, R)
  BY <1>2, <1>5, FollowedSame
<1>. QED  BY <1>3, <1>4, <1>5

\* A frame is put at the end of the line.
LEMMA FreshGrows ==
  ASSUME TypeInv, Fresh, NEW f \in Frames, feed' = Append(feed, f), UNCHANGED <<out, held, job>>,
         Tells(f, edits, Settled, edits', Settled'),
         f.kind \in {"block", "chunk"} => f.n = edits'[f.cc] \/ f.cc \in Settled'
  PROVE  Fresh'
<1>1. /\ Line \in Seq(Frames) /\ Len(Line) \in Nat /\ feed \in Seq(Frames)
      /\ \A w \in Workers : job[w].cc \in Chunks
  BY Lines DEF TypeInv, JobsTyped, Jobs, LineTyped
<1>2. Inserts(Line, Line', Len(Line), f)
  BY Lines
<1>3. Inserts(feed, feed', Len(feed), f) /\ Len(feed) \in Nat
  BY <1>1, Appended DEF Inserts
<1>. SUFFICES ASSUME NEW L, L = Line, NEW M, M = Line', NEW q, q = feed, NEW r, r = feed',
                     NEW E, E = edits, NEW F, F = edits', NEW S, S = Settled, NEW R, R = Settled'
              PROVE  /\ InOrder(M, F, R)
                     /\ \A w \in Workers : job[w].step = "built" =>
                            Followed(job[w].cc, job[w].n, r, 1, F, R)
                     /\ \A c \in Chunks : held[c] # None => Followed(c, held[c], M, 1, F, R)
  BY DEF Fresh
<1>4. /\ InOrder(L, E, S) /\ Tells(f, E, S, F, R)
      /\ \A w \in Workers : job[w].step = "built" => Followed(job[w].cc, job[w].n, q, 1, E, S)
      /\ \A c \in Chunks : held[c] # None => Followed(c, held[c], L, 1, E, S)
  BY DEF Fresh
<1>5. InOrder(M, F, R)
  BY <1>2, <1>4, InOrderTold
<1>6. 1 \in Int /\ 1 >= 1 /\ 1 <= Len(L) + 1 /\ 1 <= Len(q) + 1
  BY <1>1, <1>3
<1>7. ASSUME NEW w \in Workers, job[w].step = "built"
      PROVE  Followed(job[w].cc, job[w].n, r, 1, F, R)
  BY <1>1, <1>3, <1>4, <1>6, <1>7, FollowedTold
<1>8. ASSUME NEW c \in Chunks, held[c] # None PROVE Followed(c, held[c], M, 1, F, R)
  BY <1>2, <1>4, <1>6, <1>8, FollowedTold
<1>. QED  BY <1>5, <1>7, <1>8

\* A frame slips in before what the session's queue has yet to add.
LEMMA FreshSlips ==
  ASSUME TypeInv, Fresh, NEW f \in Frames, out' = Append(out, f), UNCHANGED <<feed, held>>,
         Keeps(edits, Settled, edits', Settled'), BuiltBefore,
         f.kind \in {"block", "chunk"} => Followed(f.cc, f.n, feed, 1, edits, Settled)
  PROVE  Fresh'
<1>1. /\ Line \in Seq(Frames) /\ Len(Line) \in Nat /\ feed \in Seq(Frames) /\ out \in Seq(Frames)
      /\ \A w \in Workers : job[w].cc \in Chunks
  BY Lines DEF TypeInv, JobsTyped, Jobs, LineTyped
<1>2. Inserts(Line, Line', Len(out), f)
  BY Lines
<1>3. /\ out' \in Seq(Frames) /\ Len(out) \in Nat /\ Len(out') = Len(out) + 1
      /\ Line' = out' \o feed
  BY <1>1, Appended DEF Line
<1>4. /\ Len(Line') = Len(out') + Len(feed) /\ Len(feed) \in Nat
      /\ \A i \in 1 .. Len(feed) : Line'[Len(out') + i] = feed[i]
  BY <1>1, <1>3, Joined
<1>. SUFFICES ASSUME NEW L, L = Line, NEW M, M = Line', NEW q, q = feed, NEW k, k = Len(out),
                     NEW E, E = edits, NEW F, F = edits', NEW S, S = Settled, NEW R, R = Settled'
              PROVE  /\ InOrder(M, F, R)
                     /\ \A w \in Workers : job'[w].step = "built" =>
                            Followed(job'[w].cc, job'[w].n, q, 1, F, R)
                     /\ \A c \in Chunks : held[c] # None => Followed(c, held[c], M, 1, F, R)
  BY DEF Fresh
<1>5. /\ InOrder(L, E, S) /\ Keeps(E, S, F, R) /\ Inserts(L, M, k, f)
      /\ f.kind \in {"block", "chunk"} => Followed(f.cc, f.n, q, 1, E, S)
      /\ \A w \in Workers : job[w].step = "built" => Followed(job[w].cc, job[w].n, q, 1, E, S)
      /\ \A c \in Chunks : held[c] # None => Followed(c, held[c], L, 1, E, S)
  BY <1>2 DEF Fresh
<1>6. /\ k \in Nat /\ Len(M) = (k + 1) + Len(q) /\ Len(q) \in Nat
      /\ \A i \in 1 .. Len(q) : M[(k + 1) + i] = q[i]
  BY <1>3, <1>4
<1>7. ASSUME NEW g, Later(g, q, 1) PROVE Later(g, M, k + 2)
  <2>1. PICK j \in 1 .. Len(q) : q[j] = g
    BY <1>7 DEF Later
  <2>2. (k + 1) + j \in (k + 2) .. Len(M)
    BY <1>6
  <2>3. M[(k + 1) + j] = g
    BY <1>6, <2>1
  <2>. QED  BY <2>2, <2>3 DEF Later
<1>8. f.kind \in {"block", "chunk"} => Followed(f.cc, f.n, M, k + 2, F, R)
  <2>. SUFFICES ASSUME f.kind \in {"block", "chunk"} PROVE Followed(f.cc, f.n, M, k + 2, F, R)
    OBVIOUS
  <2>1. f.cc \in Chunks
    BY DEF Frames
  <2>2. Followed(f.cc, f.n, q, 1, F, R)
    BY <1>5, <2>1, FollowedSame
  <2>. DEFINE g == Block(f.cc, F[f.cc])
  <2>3. Later(g, q, 1) => Later(g, M, k + 2)
    <3>. HIDE DEF g
    <3>. QED  BY <1>7
  <2>. QED  BY <2>2, <2>3 DEF Followed
<1>9. InOrder(M, F, R)
  BY <1>5, <1>8, InOrderOn
<1>10. ASSUME NEW w \in Workers, job'[w].step = "built"
       PROVE  Followed(job'[w].cc, job'[w].n, q, 1, F, R)
  <2>1. CASE job'[w].n = F[job'[w].cc]
    BY <2>1 DEF Followed
  <2>2. CASE job[w].step = "built" /\ job'[w].cc = job[w].cc /\ job'[w].n = job[w].n
    BY <1>1, <1>5, <2>2, FollowedSame
  <2>. QED  BY <1>10, <2>1, <2>2 DEF BuiltBefore
<1>11. ASSUME NEW c \in Chunks, held[c] # None PROVE Followed(c, held[c], M, 1, F, R)
  <2>1. 1 \in Int /\ 1 >= 1
    OBVIOUS
  <2>. QED  BY <1>5, <1>11, <2>1, FollowedOn
<1>. QED  BY <1>9, <1>10, <1>11

\* The session's first frame passes to the frame queue: a worker's chunk it was
\* to follow is left stale.
LEMMA FreshPump ==
  ASSUME TypeInv, Fresh, Pump, ~closing.done
  PROVE  Fresh'
<1>0. /\ feed \in Seq(Frames) /\ feed # <<>> /\ feed' = Tail(feed)
      /\ UNCHANGED <<edits, posting, hubQueue, held, job>>
      /\ Line' = Line /\ Line \in Seq(Frames)
  BY Lines DEF TypeInv, LineTyped, Pump, server
<1>1. /\ stale \subseteq stale'
      /\ Head(feed).kind = "block" /\ Overtaken(Head(feed)) => Head(feed).cc \in stale'
  BY DEF Pump
<1>2. Keeps(edits, Settled, edits', Settled')
  BY <1>0, <1>1, SettledSteady
<1>3. Takes(feed, feed') /\ feed[1] = Head(feed)
  BY <1>0, Popped DEF Takes
<1>4. ASSUME NEW w \in Workers, job[w].step = "built",
             Head(feed) = Block(job[w].cc, edits[job[w].cc])
      PROVE  job[w].n = edits[job[w].cc] \/ job[w].cc \in Settled'
  <2>1. /\ job[w].cc \in Chunks /\ job[w].n \in Edited /\ edits[job[w].cc] \in Edited
        /\ job[w].n <= edits[job[w].cc]
    BY <1>4 DEF TypeInv, JobsTyped, Jobs, WorldTyped
  <2>2. /\ Head(feed).kind = "block" /\ Head(feed).cc = job[w].cc
        /\ Head(feed).n = edits[job[w].cc]
    BY <1>4 DEF Block
  <2>3. CASE job[w].n # edits[job[w].cc]
    <3>1. job[w].n < edits[job[w].cc]
      BY <2>1, <2>3 DEF Edited
    <3>2. Overtaken(Head(feed))
      BY <1>4, <2>2, <3>1 DEF Overtaken
    <3>. QED  BY <1>1, <2>1, <2>2, <3>2 DEF Settled
  <2>. QED  BY <2>3
<1>5. \A w \in Workers : job[w].cc \in Chunks
  BY DEF TypeInv, JobsTyped, Jobs
<1>. SUFFICES ASSUME NEW L, L = Line, NEW q, q = feed, NEW r, r = feed', NEW E, E = edits,
                     NEW S, S = Settled, NEW R, R = Settled'
              PROVE  /\ InOrder(L, E, R)
                     /\ \A w \in Workers : job[w].step = "built" =>
                            Followed(job[w].cc, job[w].n, r, 1, E, R)
                     /\ \A c \in Chunks : held[c] # None => Followed(c, held[c], L, 1, E, R)
  BY <1>0 DEF Fresh
<1>6. /\ InOrder(L, E, S) /\ Keeps(E, S, E, R) /\ Takes(q, r) /\ q[1] = Head(feed)
      /\ \A w \in Workers : job[w].step = "built" => Followed(job[w].cc, job[w].n, q, 1, E, S)
      /\ \A c \in Chunks : held[c] # None => Followed(c, held[c], L, 1, E, S)
  BY <1>0, <1>2, <1>3 DEF Fresh
<1>7. InOrder(L, E, R)
  BY <1>0, <1>6, InOrderSame
<1>8. ASSUME NEW w \in Workers, job[w].step = "built"
      PROVE  Followed(job[w].cc, job[w].n, r, 1, E, R)
  <2>1. Followed(job[w].cc, job[w].n, q, 1, E, R)
    BY <1>5, <1>6, <1>8, FollowedSame
  <2>. DEFINE g == Block(job[w].cc, E[job[w].cc])
  <2>2. 1 \in Int /\ 1 >= 1
    OBVIOUS
  <2>3. Later(g, q, 1) => q[1] = g \/ Later(g, r, 1)
    <3>. HIDE DEF g
    <3>. QED  BY <1>6, <2>2, LaterTaken
  <2>4. q[1] = g => job[w].n = E[job[w].cc] \/ job[w].cc \in R
    BY <1>4, <1>6, <1>8
  <2>. QED  BY <2>1, <2>3, <2>4 DEF Followed
<1>9. ASSUME NEW c \in Chunks, held[c] # None PROVE Followed(c, held[c], L, 1, E, R)
  BY <1>6, <1>9, FollowedSame
<1>. QED  BY <1>7, <1>8, <1>9

\* The client takes a frame.
LEMMA FreshReceive ==
  ASSUME TypeInv, Fresh, Switches, HeldNear, Receive
  PROVE  Fresh'
<1>. DEFINE f == Head(out)
<1>0. /\ UNCHANGED <<edits, posting, hubQueue, job, feed, stale>>
      /\ Takes(Line, Line') /\ Line[1] = f
      /\ held \in [Chunks -> Edited \cup {None, Foreign}]
      /\ client.at \in Chunks /\ out # <<>> /\ out \in Seq(Frames)
      /\ held' = Shown(f)
  BY Lines DEF TypeInv, LineTyped, ClientTyped, PlacesTyped, Receive, server, history
<1>1. f \in Frames /\ Settled' = Settled
  BY <1>0, Popped DEF Settled
<1>2. f.cc \in Chunks
  BY <1>1 DEF Frames
<1>3. 1 \in 1 .. Len(Line)
  BY <1>0, Taken
<1>. SUFFICES ASSUME NEW L, L = Line, NEW M, M = Line', NEW E, E = edits,
                     NEW S, S = Settled
              PROVE  /\ InOrder(M, E, S)
                     /\ \A c \in Chunks : held'[c] # None => Followed(c, held'[c], M, 1, E, S)
  BY <1>0, <1>1 DEF Fresh
<1>4. /\ InOrder(L, E, S) /\ Takes(L, M) /\ L[1] = f
      /\ \A c \in Chunks : held[c] # None => Followed(c, held[c], L, 1, E, S)
  BY <1>0 DEF Fresh
<1>. HIDE DEF f
<1>5. /\ InOrder(M, E, S)
      /\ f.kind \in {"block", "chunk"} => Followed(f.cc, f.n, M, 1, E, S)
  BY <1>4, InOrderTaken
<1>6. ASSUME NEW c \in Chunks, held[c] # None, f # Block(c, E[c])
      PROVE  Followed(c, held[c], M, 1, E, S)
  <2>. DEFINE g == Block(c, E[c])
  <2>1. 1 \in Int /\ 1 >= 1
    OBVIOUS
  <2>2. Later(g, L, 1) => L[1] = g \/ Later(g, M, 1)
    <3>. HIDE DEF g
    <3>. QED  BY <1>4, <2>1, LaterTaken
  <2>. QED  BY <1>4, <1>6, <2>2 DEF Followed
<1>7. ASSUME NEW c \in Chunks, held'[c] # None PROVE Followed(c, held'[c], M, 1, E, S)
  <2>1. CASE f.kind = "chunk"
    <3>1. held' = [held EXCEPT ![f.cc] =
                IF ~client.configuring /\ Within(f.cc, client.at, Radius + ClientMargin)
                THEN f.n ELSE @]
      BY <1>0, <2>1 DEF Shown
    <3>2. held'[c] = held[c] \/ (c = f.cc /\ held'[c] = f.n)
      BY <1>0, <1>2, <3>1
    <3>3. f # Block(c, E[c])
      BY <2>1 DEF Block
    <3>. QED  BY <1>5, <1>6, <1>7, <2>1, <3>2, <3>3
  <2>2. CASE f.kind = "block"
    <3>1. held' = [d \in Chunks |->
                IF d # <<client.at[1], f.cc[2]>> \/ held[d] = None THEN held[d]
                ELSE IF d = f.cc THEN f.n ELSE Foreign]
      BY <1>0, <2>2 DEF Shown
    <3>2. CASE c # <<client.at[1], f.cc[2]>>
      <4>1. held'[c] = held[c]
        BY <3>1, <3>2
      <4>2. c[1] = client.at[1]
        BY <1>7, <4>1 DEF HeldNear, Within
      <4>3. c # f.cc
        BY <3>2, <4>2 DEF Chunks
      <4>4. f # Block(c, E[c])
        BY <4>3 DEF Block
      <4>. QED  BY <1>6, <1>7, <4>1, <4>4
    <3>3. CASE c = f.cc
      <4>1. held'[c] = held[c] \/ held'[c] = f.n
        BY <3>1, <3>3
      <4>2. CASE f = Block(c, E[c]) /\ held'[c] # f.n
        <5>1. held[c] = None \/ c # <<client.at[1], f.cc[2]>>
          BY <3>1, <3>3, <4>2
        <5>2. held'[c] = held[c]
          BY <4>1, <4>2
        <5>. QED  BY <1>7, <3>2, <5>1, <5>2
      <4>. QED  BY <1>5, <1>6, <1>7, <2>2, <3>3, <4>1, <4>2
    <3>4. CASE c = <<client.at[1], f.cc[2]>> /\ c # f.cc
      <4>1. f.cc[1] # client.at[1]
        BY <1>2, <3>4 DEF Chunks
      <4>2. PICK D \in Paths(Len(Line)) : Leads(D, Line, client.at[1], player.session[1], stale)
        BY DEF Switches
      <4>3. D[0] = client.at[1] /\ (f.cc[1] = D[0] \/ <<D[0], f.cc[2]>> \in stale)
        <5>1. 1 - 1 = 0
          OBVIOUS
        <5>. QED  BY <1>0, <1>3, <2>2, <4>2, <5>1 DEF Leads
      <4>4. c \in stale
        BY <3>4, <4>1, <4>3
      <4>5. c \in S
        BY <4>4 DEF Settled
      <4>. QED  BY <4>5 DEF Followed
    <3>. QED  BY <3>2, <3>3, <3>4
  <2>3. CASE f.kind \notin {"chunk", "block"}
    <3>1. held' = [d \in Chunks |-> None]
      BY <1>0, <2>3 DEF Shown
    <3>. QED  BY <1>7, <3>1
  <2>. QED  BY <2>1, <2>2, <2>3
<1>. QED  BY <1>5, <1>7

\* The hub tells of a block, or does not: what waits for another update is kept.
LEMMA FreshTold ==
  ASSUME TypeInv, Fresh, NEW e \in Events, e.kind = "block", Broadcast(e),
         UNCHANGED <<out, held, job>>,
         e.cc \in stale' => e.cc \in Settled',
         \A c \in Chunks : \/ c \in Settled' \/ e = Block(c, edits'[c])
                           \/ edits'[c] = edits[c] /\ (c \in Settled => c \in Settled'),
         e.n = edits'[e.cc] \/ e.cc \in Settled' \/ Line' = Line
  PROVE  Fresh'
<1>1. e \in Frames
  BY BroadcastLine
<1>2. CASE Line' = Line /\ UNCHANGED feed /\ e.cc \in stale'
  <2>1. ASSUME NEW c \in Chunks, e = Block(c, edits'[c]) PROVE c \in Settled'
    <3>1. e.cc = c
      BY <2>1 DEF Block
    <3>. QED  BY <1>2, <3>1
  <2>2. Keeps(edits, Settled, edits', Settled')
    BY <2>1 DEF Keeps
  <2>3. BuiltBefore /\ \A c \in Chunks : held'[c] \in {None, held[c]}
    BY DEF BuiltBefore
  <2>. QED  BY <1>2, <2>2, <2>3, FreshSteady
<1>3. CASE Inserts(Line, Line', Len(Line), e) /\ feed' = Append(feed, e)
  <2>1. Tells(e, edits, Settled, edits', Settled')
    BY DEF Tells
  <2>2. Line' # Line
    BY <1>3, Lines DEF Inserts
  <2>. QED  BY <1>1, <1>3, <2>1, <2>2, FreshGrows
<1>. QED  BY <1>2, <1>3, BroadcastLine

\* A block of the world is changed.
LEMMA FreshWorld ==
  ASSUME TypeInv, Fresh, World
  PROVE  Fresh'
<1>0. edits \in [Chunks -> Edited] /\ Busy \subseteq Chunks /\ MaxEdits \in Nat
  BY StreamAssumption DEF TypeInv, WorldTyped
<1>1. ASSUME NEW cc \in Busy, Edit(cc) PROVE Fresh'
  <2>1. /\ edits' = [edits EXCEPT ![cc] = @ + 1]
        /\ posting' = posting \cup {Block(cc, edits[cc] + 1)}
        /\ UNCHANGED <<hubQueue, stale, feed, out, held, job>>
    BY <1>1 DEF Edit, server, history
  <2>2. ASSUME NEW c \in Chunks
        PROVE  c \in Settled' \/ (edits'[c] = edits[c] /\ (c \in Settled => c \in Settled'))
    <3>1. CASE c = cc
      <4>1. edits'[cc] = edits[cc] + 1
        BY <1>0, <2>1
      <4>2. Block(cc, edits'[cc]) \in posting'
        BY <2>1, <4>1
      <4>. QED  BY <3>1, <4>2 DEF Settled
    <3>2. CASE c # cc
      <4>1. edits'[c] = edits[c]
        BY <1>0, <2>1, <3>2
      <4>2. c \in Settled => c \in Settled'
        BY <2>1, <4>1 DEF Settled
      <4>. QED  BY <4>1, <4>2
    <3>. QED  BY <3>1, <3>2
  <2>3. Keeps(edits, Settled, edits', Settled')
    BY <2>2 DEF Keeps
  <2>4. Line' = Line /\ BuiltBefore /\ \A c \in Chunks : held'[c] \in {None, held[c]}
    BY <2>1, Lines DEF BuiltBefore
  <2>. QED  BY <2>1, <2>3, <2>4, FreshSteady
<1>2. ASSUME NEW cc \in Busy, HubEdit(cc) PROVE Fresh'
  <2>. DEFINE e == Block(cc, edits[cc] + 1)
  <2>1. /\ edits' = [edits EXCEPT ![cc] = @ + 1] /\ edits[cc] < MaxEdits
        /\ Broadcast(e)
        /\ UNCHANGED <<posting, hubQueue, out, held, job>>
    BY <1>2 DEF HubEdit, NewState, server
  <2>2. edits[cc] + 1 \in Edited
    BY <1>0, <2>1, NextEdit
  <2>3. e \in Events /\ e.kind = "block" /\ e.cc = cc /\ e.n = edits[cc] + 1
    BY <1>0, <2>2, Framed DEF Block
  <2>4. edits'[cc] = edits[cc] + 1 /\ e = Block(cc, edits'[cc])
    BY <1>0, <2>1
  <2>. HIDE DEF e
  <2>5. stale \subseteq stale'
    BY <2>1, <2>3, BroadcastLine
  <2>6. ASSUME NEW c \in Chunks, c # cc
        PROVE  edits'[c] = edits[c] /\ (c \in Settled => c \in Settled')
    <3>1. edits'[c] = edits[c]
      BY <1>0, <2>1, <2>6
    <3>. QED  BY <2>1, <2>5, <3>1 DEF Settled
  <2>7. cc \in stale' => cc \in Settled'
    BY <1>0 DEF Settled
  <2>. QED  BY <2>1, <2>3, <2>4, <2>6, <2>7, FreshTold
<1>. QED  BY <1>1, <1>2 DEF World

\* The hub takes its next event.
LEMMA FreshHub ==
  ASSUME TypeInv, Fresh, Hub
  PROVE  Fresh'
<1>. DEFINE e == Head(hubQueue)
<1>0. /\ edits \in [Chunks -> Edited] /\ hubQueue \in Seq(Events) /\ Made(hubQueue, edits)
      /\ hubQueue # <<>> /\ hubQueue' = Tail(hubQueue)
      /\ UNCHANGED <<edits, posting, out, held, job>>
  BY DEF TypeInv, WorldTyped, Hub
<1>1. e \in Events
  BY <1>0, Popped
<1>2. CASE e.kind = "block"
  <2>1. Broadcast(e)
    BY <1>2 DEF Hub
  <2>2. stale \subseteq stale'
    <3>. HIDE DEF e
    <3>. QED  BY <1>0, <1>1, <1>2, <2>1, BroadcastLine
  <2>3. \A c \in Chunks : c \in Settled => c \in Settled' \/ e = Block(c, edits[c])
    BY <1>0, <2>2, SettledHub
  <2>4. e.cc \in Chunks /\ e.n \in Edited /\ edits[e.cc] \in Edited /\ e.n <= edits[e.cc]
    <3>1. e.cc \in Chunks /\ e.n \in Edited
      BY <1>1 DEF Events
    <3>2. e.n <= edits[e.cc]
      BY <1>0, <1>2, MadeLess
    <3>. QED  BY <1>0, <3>1, <3>2
  <2>5. e.cc \in stale' => e.cc \in Settled'
    BY <2>4 DEF Settled
  <2>6. e.n = edits[e.cc] \/ e.cc \in Settled' \/ Line' = Line
    <3>1. SUFFICES ASSUME e.n # edits[e.cc], Line' # Line PROVE e.cc \in Settled'
      OBVIOUS
    <3>2. e.n < edits[e.cc]
      BY <2>4, <3>1 DEF Edited
    <3>3. e.cc \in stale' \/ Block(e.cc, edits[e.cc]) \in posting \cup Range(hubQueue)
      <4>. HIDE DEF e
      <4>. QED  BY <1>0, <1>1, <1>2, <2>1, <3>1, <3>2, BroadcastLine
    <3>4. Block(e.cc, edits[e.cc]) # e
      <4>1. Block(e.cc, edits[e.cc]).n = edits[e.cc]
        BY DEF Block
      <4>. QED  BY <3>1, <4>1
    <3>5. Range(hubQueue) \subseteq {e} \cup Range(hubQueue')
      BY <1>0, RangeLess
    <3>6. e.cc \in stale' \/ Block(e.cc, edits[e.cc]) \in posting \cup Range(hubQueue')
      BY <3>3, <3>4, <3>5
    <3>. QED  BY <1>0, <2>4, <3>6 DEF Settled
  <2>. HIDE DEF e
  <2>. QED  BY <1>0, <1>1, <1>2, <2>1, <2>3, <2>5, <2>6, FreshTold
<1>3. CASE e.kind # "block"
  <2>1. UNCHANGED <<feed, stale>>
    BY <1>1, <1>3 DEF Hub, Events
  <2>2. \A c \in Chunks : c \in Settled => c \in Settled' \/ e = Block(c, edits[c])
    BY <1>0, <2>1, SettledHub
  <2>3. \A c : e # Block(c, edits[c])
    BY <1>3 DEF Block
  <2>4. Keeps(edits, Settled, edits', Settled')
    BY <1>0, <2>2, <2>3 DEF Keeps
  <2>5. Line' = Line /\ BuiltBefore /\ \A c \in Chunks : held'[c] \in {None, held[c]}
    BY <1>0, <2>1, Lines DEF BuiltBefore
  <2>. QED  BY <2>1, <2>4, <2>5, FreshSteady
<1>. QED  BY <1>2, <1>3

\* The reader takes a frame of the client's, or ends.
LEMMA FreshReader ==
  ASSUME TypeInv, Fresh, Read \/ ReaderEnds \/ CloseSession
  PROVE  Fresh'
<1>0. /\ hubQueue \in Seq(Events) /\ toServer \in Seq(Messages)
      /\ player \in [in : BOOLEAN, at : Chunks, session : Chunks]
      /\ UNCHANGED <<edits, posting, feed, held, stale>>
  BY DEF TypeInv, WorldTyped, ClientTyped, PlacesTyped, Read, ReaderEnds, CloseSession, history
<1>1. CASE ReaderEnds \/ CloseSession
  <2>1. UNCHANGED <<hubQueue, out, job>>
    BY <1>1 DEF ReaderEnds, CloseSession, server
  <2>2. Keeps(edits, Settled, edits', Settled')
    BY <1>0, <2>1, SettledSteady
  <2>3. Line' = Line /\ BuiltBefore /\ \A c \in Chunks : held'[c] \in {None, held[c]}
    BY <1>0, <2>1, Lines DEF BuiltBefore
  <2>. QED  BY <1>0, <2>2, <2>3, FreshSteady
<1>2. ASSUME NEW S, job' = Forgetting(S) PROVE BuiltBefore
  BY <1>2, Forgot DEF BuiltBefore
<1>3. ASSUME NEW v \in Events, hubQueue' = Append(hubQueue, v) \/ UNCHANGED hubQueue
      PROVE  Keeps(edits, Settled, edits', Settled')
  <2>1. Range(Append(hubQueue, v)) = Range(hubQueue) \cup {v}
    BY <1>0, RangeMore
  <2>2. Range(hubQueue) \subseteq Range(hubQueue')
    <3>1. CASE hubQueue' = Append(hubQueue, v)
      BY <2>1, <3>1
    <3>2. CASE hubQueue' = hubQueue
      BY <3>2
    <3>. QED  BY <1>3, <3>1, <3>2
  <2>. QED  BY <1>0, <2>2, SettledSteady
<1>4. CASE Read
  <2>. DEFINE m == Head(toServer)
  <2>1. m \in Messages
    BY <1>0, <1>4, Popped DEF Read
  <2>2. CASE ReadWant(m)
    <3>1. /\ UNCHANGED out /\ job' = Forgetting(Kept(m.cc, Chunks))
          /\ hubQueue' = Append(hubQueue, Placed("move", m.cc)) \/ UNCHANGED hubQueue
      BY <2>2, WantDoes
    <3>2. Placed("move", m.cc) \in Events
      <4>1. m.cc \in Chunks
        BY <2>1 DEF Messages
      <4>. QED  BY <4>1, Framed
    <3>3. Keeps(edits, Settled, edits', Settled')
      BY <1>3, <3>1, <3>2
    <3>4. Line' = Line /\ BuiltBefore /\ \A c \in Chunks : held'[c] \in {None, held[c]}
      BY <1>0, <1>2, <3>1, Lines
    <3>. QED  BY <1>0, <3>3, <3>4, FreshSteady
  <2>3. CASE ReadConfigured
    <3>. DEFINE f == Placed("rejoin", player.at)
    <3>1. /\ out' = Append(out, f) /\ job' = Forgetting({})
          /\ hubQueue' = Append(hubQueue, Placed("join", player.at))
      BY <2>3 DEF ReadConfigured
    <3>2. f \in Frames /\ f.kind = "rejoin" /\ Placed("join", player.at) \in Events
      BY <1>0, Framed DEF Placed
    <3>3. Keeps(edits, Settled, edits', Settled')
      BY <1>3, <3>1, <3>2
    <3>4. BuiltBefore
      BY <1>2, <3>1
    <3>. HIDE DEF f
    <3>. QED  BY <1>0, <3>1, <3>2, <3>3, <3>4, FreshSlips
  <2>. QED  BY <1>4, <2>2, <2>3 DEF Read
<1>. QED  BY <1>1, <1>4

\* A worker's step.
LEMMA FreshWorks ==
  ASSUME TypeInv, Fresh, ~closing.done, NEW w \in Workers, Works(w)
  PROVE  Fresh'
<1>0. /\ UNCHANGED <<edits, posting, hubQueue, feed, held, stale>>
      /\ job[w].cc \in Chunks /\ job[w].n \in Edited
  BY DEF Works, Take, Finish, Build, FailBuild, Send, Report, worker, history, TypeInv, JobsTyped, Jobs
<1>1. Keeps(edits, Settled, edits', Settled')
  BY <1>0, SettledSteady
<1>2. BuiltBefore
  <2>1. \A u \in Workers : u # w => job'[u] = job[u]
    BY Worked
  <2>2. job'[w].step = "built" => job'[w].n = edits'[job'[w].cc]
    BY <1>0, Worked DEF Works
  <2>. QED  BY <2>1, <2>2 DEF BuiltBefore
<1>3. CASE UNCHANGED out
  <2>1. Line' = Line /\ \A c \in Chunks : held'[c] \in {None, held[c]}
    BY <1>0, <1>3, Lines
  <2>. QED  BY <1>0, <1>1, <1>2, <2>1, FreshSteady
<1>4. CASE Send(w)
  <2>. DEFINE f == Chunk(job[w].cc, job[w].n)
  <2>1. f \in Frames /\ f.kind = "chunk" /\ f.cc = job[w].cc /\ f.n = job[w].n
    BY <1>0, Framed DEF Chunk
  <2>2. out' = Append(out, f)
    BY <1>4, Worked
  <2>3. Followed(f.cc, f.n, feed, 1, edits, Settled)
    BY <1>4, <2>1 DEF Send, Fresh
  <2>. HIDE DEF f
  <2>. QED  BY <1>0, <1>1, <1>2, <2>1, <2>2, <2>3, FreshSlips
<1>. QED  BY <1>3, <1>4 DEF Works, Take, Finish, Build, FailBuild, Report

\* What the line, the workers and the client have of a block is followed by
\* its last state, whatever the step.
LEMMA FreshStep ==
  ASSUME TypeInv, Fresh, Switches, HeldNear, Next, ~closing.done
  PROVE  Fresh'
<1>0. /\ hubQueue \in Seq(Events) /\ Owned \subseteq Chunks
      /\ player \in [in : BOOLEAN, at : Chunks, session : Chunks]
      /\ held \in [Chunks -> Edited \cup {None, Foreign}]
  BY StreamAssumption DEF TypeInv, WorldTyped, PlacesTyped, ClientTyped
<1>1. CASE Client
  <2>1. UNCHANGED <<edits, posting, hubQueue, job, feed, out, stale>>
    BY <1>1 DEF Client, Move, Refresh, server, history
  <2>2. \A c \in Chunks : held'[c] \in {None, held[c]}
    BY <1>1 DEF Client, Move, Refresh
  <2>3. Keeps(edits, Settled, edits', Settled')
    BY <2>1, SettledSteady
  <2>4. Line' = Line /\ BuiltBefore
    BY <2>1, Lines DEF BuiltBefore
  <2>. QED  BY <2>1, <2>2, <2>3, <2>4, FreshSteady
<1>2. ASSUME NEW e \in posting, Post(e) PROVE Fresh'
  <2>1. /\ posting' = posting \ {e} /\ hubQueue' = Append(hubQueue, e)
        /\ UNCHANGED <<edits, job, feed, out, held, stale>>
    BY <1>2 DEF Post, server, history
  <2>2. e \in Events
    BY DEF TypeInv, WorldTyped, Frames, Events
  <2>3. Range(hubQueue') = Range(hubQueue) \cup {e}
    BY <1>0, <2>1, <2>2, RangeMore
  <2>4. Keeps(edits, Settled, edits', Settled')
    BY <2>1, <2>3, SettledSteady
  <2>5. Line' = Line /\ BuiltBefore /\ \A c \in Chunks : held'[c] \in {None, held[c]}
    BY <2>1, Lines DEF BuiltBefore
  <2>. QED  BY <2>1, <2>4, <2>5, FreshSteady
<1>3. ASSUME NEW f \in Frames, f.kind \in {"respawn", "config"}, feed' = Append(feed, f),
             UNCHANGED <<edits, posting, out, held, job, stale>>,
             Range(hubQueue) \subseteq Range(hubQueue')
      PROVE  Fresh'
  <2>1. Keeps(edits, Settled, edits', Settled')
    BY <1>3, SettledSteady
  <2>2. Tells(f, edits, Settled, edits', Settled')
    BY <2>1 DEF Keeps, Tells
  <2>. QED  BY <1>3, <2>2, FreshGrows
<1>4. CASE Reconfigure
  <2>. DEFINE f == Placed("config", player.at)
  <2>1. f \in Frames /\ f.kind = "config"
    BY <1>0, Framed DEF Placed
  <2>2. feed' = Append(feed, f) /\ UNCHANGED <<edits, posting, hubQueue, out, held, job, stale>>
    BY <1>4 DEF Reconfigure, history
  <2>. HIDE DEF f
  <2>. QED  BY <1>3, <2>1, <2>2
<1>5. ASSUME NEW at \in Owned, SwitchDim(at) PROVE Fresh'
  <2>. DEFINE f == Placed("respawn", at)
  <2>1. f \in Frames /\ f.kind = "respawn" /\ Placed("dim", at) \in Events
    BY <1>0, Framed DEF Placed
  <2>2. /\ feed' = Append(feed, f) /\ UNCHANGED <<edits, posting, out, held, job, stale>>
        /\ hubQueue' = Append(hubQueue, Placed("dim", at))
    BY <1>5 DEF SwitchDim, history
  <2>3. Range(hubQueue) \subseteq Range(hubQueue')
    BY <1>0, <2>1, <2>2, RangeMore
  <2>. HIDE DEF f
  <2>. QED  BY <1>3, <2>1, <2>2, <2>3
<1>. QED  BY <1>1, <1>2, <1>4, <1>5, FreshReceive, FreshWorld, FreshHub, FreshPump, FreshReader,
          FreshWorks DEF Next

-----------------------------------------------------------------------------
(* The invariant is inductive, and what it says of the client.             *)

Ending == closing \in [wants : BOOLEAN, done : BOOLEAN]

\* A session that is over stays over.
LEMMA EndingStep ==
  ASSUME Ending, Next
  PROVE  Ending' /\ (closing.done => closing'.done)
<1>1. Client \/ Receive => UNCHANGED closing
  BY DEF Client, Move, Refresh, Receive
<1>2. World \/ (\E e \in posting : Post(e)) => UNCHANGED closing
  BY DEF World, Edit, HubEdit, Post
<1>3. Hub \/ Pump \/ Reconfigure \/ (\E at \in Owned : SwitchDim(at)) => UNCHANGED closing
  BY DEF Hub, Pump, Reconfigure, SwitchDim
<1>4. Read \/ (\E w \in Workers : Works(w)) => UNCHANGED closing
  BY DEF Read, Works, Take, Finish, Build, FailBuild, Send, Report, worker
<1>5. CASE ReaderEnds
  BY <1>5 DEF ReaderEnds, Ending, WantsClosed
<1>6. CASE CloseSession
  BY <1>6 DEF CloseSession, Ending
<1>. QED  BY <1>1, <1>2, <1>3, <1>4, <1>5, <1>6 DEF Next, Ending

\* At the start of a session nothing is on the line.
LEMMA StreamInit == ASSUME Init PROVE StreamInv /\ Ending
<1>0. /\ Home \in Chunks /\ Home[1] \in Dims
      /\ out = <<>> /\ feed = <<>> /\ hubQueue = <<>> /\ toServer = <<Want("want", Home)>>
      /\ client = [at |-> Home, configuring |-> FALSE]
      /\ player = [in |-> TRUE, at |-> Home, session |-> Home]
      /\ sent = {} /\ backlog = <<>> /\ view = [known |-> FALSE, at |-> Home, sent |-> {}]
      /\ held = [cc \in Chunks |-> None] /\ \A w \in Workers : job[w].step = "idle"
  BY StreamAssumption DEF Init, Chunks, Idle
<1>1. Line \in Seq(Frames) /\ Len(Line) = 0
  <2>1. <<>> \in Seq(Frames) /\ Len(<<>>) = 0
    OBVIOUS
  <2>. QED  BY <1>0, <2>1, Joined DEF Line
<1>2. \A i \in 1 .. Len(Line) : FALSE
  BY <1>1
<1>3. /\ Len(toServer) = 1 /\ toServer[1].kind = "want" /\ toServer[1].cc = Home
      /\ \A i \in 1 .. Len(toServer) : i = 1
      /\ \A i \in 2 .. Len(toServer) : FALSE
  BY <1>0 DEF Want
<1>4. Switches
  <2>. DEFINE D == [i \in 0 .. Len(Line) |-> Home[1]]
  <2>1. D \in Paths(Len(Line)) /\ D[0] = Home[1] /\ D[Len(Line)] = Home[1]
    BY <1>0, <1>1 DEF Paths
  <2>. HIDE DEF D
  <2>2. Leads(D, Line, client.at[1], player.session[1], stale)
    BY <1>0, <1>2, <2>1 DEF Leads
  <2>. QED  BY <2>1, <2>2 DEF Switches
<1>5. Staged
  <2>1. ~Asks
    BY <1>3 DEF Asks, Holds
  <2>2. ~Joins
    BY <1>0 DEF Joins, Holds
  <2>. QED  BY <1>0, <1>2, <2>1, <2>2 DEF Staged, Leaving, Answering, Joining, Returning, Away
<1>6. Located
  <2>1. 1 \in 1 .. Len(toServer) /\ 1 + 1 = 2
    BY <1>3
  <2>. QED  BY <1>0, <1>3, <2>1 DEF Located
<1>7. RecordsNear /\ Cleared /\ HeldNear
  BY <1>0 DEF RecordsNear, Cleared, HeldNear, AtWork
<1>8. Served
  BY <1>0 DEF Served
<1>9. Fresh
  BY <1>0, <1>2 DEF Fresh, InOrder
<1>10. Ending
  BY DEF Init, Ending
<1>. QED  BY <1>4, <1>5, <1>6, <1>7, <1>8, <1>9, <1>10 DEF StreamInv

\* A step that changes nothing.
LEMMA StreamStutter == ASSUME StreamInv, UNCHANGED vars PROVE StreamInv'
<1>1. CASE closing.done
  BY <1>1 DEF StreamInv, vars
<1>2. CASE ~closing.done
  <2>0. Line' = Line
    BY DEF Line, vars
  <2>1. (Switches /\ Staged)'
    BY <1>2, <2>0 DEF StreamInv, vars, Switches, Staged, Leaving, Answering, Joining, Returning,
                      Away, Asks, Joins, Rejoins, OneJoin
  <2>2. (Located /\ RecordsNear /\ Cleared /\ HeldNear)'
    BY <1>2, <2>0 DEF StreamInv, vars, Located, RecordsNear, Cleared, HeldNear, Near, AtWork, Rejoins
  <2>3. Served'
    BY <1>2, <2>0 DEF StreamInv, vars, Served, Given, Coming
  <2>4. Fresh'
    BY <1>2, <2>0 DEF StreamInv, vars, Fresh, Settled
  <2>. QED  BY <2>1, <2>2, <2>3, <2>4 DEF StreamInv
<1>. QED  BY <1>1, <1>2

LEMMA StreamStep ==
  ASSUME TypeInv, Ending, StreamInv, [Next]_vars
  PROVE  StreamInv' /\ Ending'
<1>1. CASE UNCHANGED vars
  BY <1>1, StreamStutter DEF vars, Ending
<1>2. CASE Next /\ closing.done
  BY <1>2, EndingStep DEF StreamInv
<1>3. CASE Next /\ ~closing.done
  <2>1. Switches /\ Staged /\ Located /\ RecordsNear /\ Cleared /\ HeldNear /\ Served /\ Fresh
    BY <1>3 DEF StreamInv
  <2>2. Switches' /\ Staged' /\ Located'
    BY <1>3, <2>1, SwitchesStep, StagedStep, LocatedStep
  <2>3. RecordsNear' /\ Cleared' /\ HeldNear'
    BY <1>3, <2>1, RecordsStep, HeldStep
  <2>4. Served' /\ Fresh'
    BY <1>3, <2>1, ServedStep, FreshStep
  <2>. QED  BY <1>3, <2>2, <2>3, <2>4, EndingStep DEF StreamInv
<1>. QED  BY <1>1, <1>2, <1>3

LEMMA StreamAlways == Spec => [](TypeInv /\ StreamInv)
<1>1. Init => TypeInv /\ Ending /\ StreamInv
  BY TypeInit, StreamInit
<1>2. TypeInv /\ Ending /\ StreamInv /\ [Next]_vars => (TypeInv /\ Ending /\ StreamInv)'
  BY TypeStep, StreamStep
<1>. QED  BY <1>1, <1>2, PTL DEF Spec

\* A frame of the line is in one of its two queues, a chunk in the frame queue.
LEMMA LineRange ==
  ASSUME TypeInv, NEW i \in 1 .. Len(Line)
  PROVE  /\ Line[i] \in Range(feed) \cup Range(out)
         /\ Line[i].kind = "chunk" => Line[i] \in Range(out)
<1>1. /\ out \in Seq(Frames) /\ feed \in Seq(Frames)
      /\ \A j \in 1 .. Len(feed) : feed[j].kind \in {"block", "respawn", "config"}
  BY DEF TypeInv, LineTyped
<1>2. /\ Len(out) \in Nat /\ Len(feed) \in Nat /\ Len(Line) = Len(out) + Len(feed)
      /\ \A j \in 1 .. Len(out) : Line[j] = out[j]
      /\ \A j \in (Len(out) + 1) .. (Len(out) + Len(feed)) : Line[j] = feed[j - Len(out)]
  BY <1>1, Joined DEF Line
<1>3. DOMAIN out = 1 .. Len(out) /\ DOMAIN feed = 1 .. Len(feed)
  BY <1>1
<1>4. CASE i <= Len(out)
  <2>1. i \in 1 .. Len(out)
    BY <1>2, <1>4
  <2>. QED  BY <1>2, <1>3, <2>1 DEF Range
<1>5. CASE i > Len(out)
  <2>1. i \in (Len(out) + 1) .. (Len(out) + Len(feed)) /\ i - Len(out) \in 1 .. Len(feed)
    BY <1>2, <1>5
  <2>. QED  BY <1>1, <1>2, <1>3, <2>1 DEF Range
<1>. QED  BY <1>2, <1>4, <1>5

\* A chunk that is given is at the client or in the frame queue, or will be
\* forgotten.
LEMMA GivenMeans ==
  ASSUME TypeInv, NEW cc, Given(cc)
  PROVE  held[cc] # None \/ InFrames(cc) \/ WillForget(cc)
<1>1. Carries(Line, cc) => InFrames(cc)
  BY LineRange DEF Carries, InFrames
<1>2. Sends(Line) => WillForget(cc)
  BY LineRange DEF Sends, WillForget
<1>3. Forgets(toServer, cc) => WillForget(cc)
  <2>1. DOMAIN toServer = 1 .. Len(toServer)
    BY DEF TypeInv, ClientTyped
  <2>. QED  BY <2>1 DEF Forgets, WillForget, Range
<1>. QED  BY <1>1, <1>2, <1>3 DEF Given

\* No chunk the reader counts as sent is lost: it is at the client, on its way,
\* or about to be forgotten, or its frame could not be built, whatever becomes
\* of the client's Wants, its moves and the backlog in between.
THEOREM NoHoleAlways == Spec => []NoSilentHole
<1>1. ASSUME TypeInv, StreamInv PROVE NoSilentHole
  <2>1. ASSUME NEW cc \in sent, ~closing.done
        PROVE  held[cc] # None \/ UnderWay(cc) \/ WillForget(cc) \/ cc \in failed
    <3>1. Given(cc) \/ Coming(cc) \/ cc \in failed
      BY <1>1, <2>1 DEF StreamInv, Served
    <3>2. Given(cc) => held[cc] # None \/ UnderWay(cc) \/ WillForget(cc)
      BY <1>1, GivenMeans DEF UnderWay
    <3>3. Coming(cc) => UnderWay(cc)
      <4>1. DOMAIN backlog = 1 .. Len(backlog)
        BY <1>1 DEF TypeInv, RecordsTyped
      <4>. QED  BY <4>1 DEF Coming, UnderWay, Range
    <3>. QED  BY <3>1, <3>2, <3>3
  <2>. QED  BY <2>1 DEF NoSilentHole
<1>. QED  BY <1>1, StreamAlways, PTL

\* A chunk of the hub's record, in which it shows entities, is at the client,
\* or in the frame queue ahead of them, unless it was forgotten before its
\* worker was done or is about to be.
THEOREM ShownAlways == Spec => []ShownOnlyWhereHeld
<1>1. ASSUME TypeInv, StreamInv PROVE ShownOnlyWhereHeld
  <2>1. ASSUME NEW cc \in view.sent, ~closing.done
        PROVE  held[cc] # None \/ InFrames(cc) \/ WillForget(cc) \/ cc \in late
    <3>1. Given(cc) \/ cc \in late
      BY <1>1, <2>1 DEF StreamInv, Served
    <3>. QED  BY <1>1, <3>1, GivenMeans
  <2>. QED  BY <2>1 DEF ShownOnlyWhereHeld
<1>. QED  BY <1>1, StreamAlways, PTL

\* A block the client shows is the world's or about to be, however chunks and
\* updates overtake each other on their two ways to the client, but for the
\* chunks the code leaves stale.
THEOREM HeldIsCurrentAlways == Spec => []HeldIsCurrent
<1>1. ASSUME TypeInv, StreamInv PROVE HeldIsCurrent
  <2>1. ASSUME NEW cc \in Chunks, held[cc] \notin {None, edits[cc]}, ~closing.done
        PROVE  NewerOnItsWay(cc) \/ cc \in stale
    <3>1. Followed(cc, held[cc], Line, 1, edits, Settled)
      BY <1>1, <2>1 DEF StreamInv, Fresh
    <3>2. cc \in Settled => NewerOnItsWay(cc) \/ cc \in stale
      BY DEF Settled, NewerOnItsWay
    <3>3. Later(Block(cc, edits[cc]), Line, 1) => NewerOnItsWay(cc)
      BY <1>1, LineRange DEF Later, NewerOnItsWay
    <3>. QED  BY <2>1, <3>1, <3>2, <3>3 DEF Followed
  <2>. QED  BY <2>1 DEF HeldIsCurrent
<1>. QED  BY <1>1, StreamAlways, PTL

=============================================================================
