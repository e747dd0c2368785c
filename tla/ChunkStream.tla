---------------------------- MODULE ChunkStream ----------------------------
(***************************************************************************)
(* One attach session streaming chunks to one client (attach.go, session), *)
(* with the three things it races: the client's moves, the world's edits    *)
(* and the hub's block updates.                                             *)
(*                                                                         *)
(* The reader of the connection turns a Want into a backlog of chunks, a    *)
(* pool of workers takes them from it, reads the world, builds a frame and  *)
(* sends it; the reader remembers in "sent" what it has asked for, the hub  *)
(* in "view" what has been written.  A block update takes another way: hub  *)
(* queue, the session's event queue, and the same frame queue as the chunks.*)
(*                                                                         *)
(* Chunks lie on a line in each dimension: every test of the code is one of *)
(* distance, the same on both axes.  Of a chunk's content one block is      *)
(* followed, as the number of times it has been changed.                    *)
(***************************************************************************)
EXTENDS Integers, Sequences, FiniteSets, Functions

CONSTANTS
    Dims, Xs,       \* the dimensions there are, and the chunk coordinates of each
    Home,           \* <<dimension, coordinate>> the player starts at
    Owned,          \* the chunks some shard owns (Config.Owned)
    Gates,          \* the sets of chunks ChunkGate may let through at a Want
    Radius,         \* the radius the gateway asks for
    Margin,         \* the +2 of the reader and of viewWindow
    ClientMargin,   \* how far outside its window the client keeps chunks
    Interest,       \* viewRadius: how far block updates go
    Spare,          \* the +64 of the backlog's size
    OutCap,         \* the size of the frame queue
    Workers,
    Busy,           \* the chunks whose block is changed
    MaxTravels, MaxFails, MaxLost, MaxEnds,   \* bounds of the whole run
    MaxEdits        \* bound of each block's changes

Chunks == Dims \X Xs
None == -1
Edited == 0 .. MaxEdits
Foreign == MaxEdits + 1     \* a block of the same place in another dimension

ASSUME StreamAssumption ==
    /\ Xs \subseteq Int /\ Home \in Chunks
    /\ Owned \subseteq Chunks /\ Busy \subseteq Chunks /\ Gates \subseteq SUBSET Chunks
    /\ {Radius, Margin, ClientMargin, Interest, Spare, OutCap} \subseteq Nat
    /\ Margin <= ClientMargin /\ MaxEdits \in Nat

VARIABLES
    edits,      \* the world: edits made in each chunk
    posting,    \* edits written whose evBlock is not posted yet
    hubQueue,   \* the hub's events about this player and these chunks
    player,     \* in the game and at which chunk, for the hub; where the
                \* session has them (p.dim, p.x), ahead of the hub on a switch
    view,       \* p.view: window and chunks written (player.go)
    feed,       \* the session's event queue p.out
    out,        \* frames for the writer and on the connection
    sent,       \* the reader's set of chunks asked for
    refused,    \* chunks the last Want left out: gated or over the backlog
    backlog,    \* the channel "wants"
    job,        \* what each worker is at
    toServer,   \* the client's frames not yet read
    client,     \* the client: where it is, and if it is being configured
    held,       \* the content of each chunk the client holds, or None
    closing,    \* the session's end: channel "wants" closed, "done" closed
    budget,     \* travels, failures and losses so far (bounds)
    \* History, read by properties only.
    failed,     \* chunks whose encoding failed
    stale,      \* chunks left with another block: see Hidden
    late        \* chunks reported as written though forgotten since

vars == <<edits, posting, hubQueue, player, view, feed, out, sent, refused,
          backlog, job, toServer, client, held, closing, budget, failed,
          stale, late>>
server == <<player, view, sent, refused, backlog, job>>
history == <<failed, stale, late>>

-----------------------------------------------------------------------------
(* Frames, events and windows. *)

Chunk(cc, n) == [kind |-> "chunk", cc |-> cc, n |-> n]
Block(cc, n) == [kind |-> "block", cc |-> cc, n |-> n]
Placed(kind, at) == [kind |-> kind, cc |-> at, n |-> 0]
\* kind: "entered" is a Want behind the move that called for it.
Want(kind, at) == [kind |-> kind, cc |-> at]

Dist(a, b) == IF a >= b THEN a - b ELSE b - a
Within(cc, at, r) == cc[1] = at[1] /\ Dist(cc[2], at[2]) <= r
Around(at, r) == {cc \in Chunks : Within(cc, at, r)}

\* Fault: frames are queued without bound.
Unbounded == TRUE

FrameRoom == Len(out) < OutCap

Idle == [step |-> "idle", cc |-> Home, n |-> 0, forgotten |-> FALSE]

\* Fault: the backlog keeps the size of a smaller radius.
CapacityOfOld == Spare + 1

Capacity == 2 * Radius + 1 + Spare

-----------------------------------------------------------------------------
(* Session start: the gateway's first Want is on its way. *)

Init ==
    /\ edits = [cc \in Chunks |-> 0] /\ posting = {} /\ hubQueue = <<>>
    /\ player = [in |-> TRUE, at |-> Home, session |-> Home]
    /\ view = [known |-> FALSE, at |-> Home, sent |-> {}]
    /\ feed = <<>> /\ out = <<>>
    /\ sent = {} /\ refused = {} /\ backlog = <<>>
    /\ job = [w \in Workers |-> Idle]
    /\ toServer = <<Want("want", Home)>>
    /\ client = [at |-> Home, configuring |-> FALSE]
    /\ held = [cc \in Chunks |-> None]
    /\ closing = [wants |-> FALSE, done |-> FALSE]
    /\ budget = [travels |-> 0, fails |-> 0, lost |-> 0]
    /\ failed = {} /\ stale = {} /\ late = {}

-----------------------------------------------------------------------------
(* The client and its gateway (external). *)

Travel == budget' = [budget EXCEPT !.travels = @ + 1]
MayTravel == budget.travels < MaxTravels /\ ~closing.wants

\* The client crosses into the next chunk: it drops what is now too far from
\* its window, and the gateway asks for the new one.
Move(x) ==
    /\ MayTravel /\ ~client.configuring
    /\ x \in Xs /\ Dist(x, client.at[2]) = 1
    /\ LET at == <<client.at[1], x>>
       IN /\ client' = [client EXCEPT !.at = at]
          /\ held' = [cc \in Chunks |->
                        IF Within(cc, at, Radius + ClientMargin)
                        THEN held[cc] ELSE None]
          /\ toServer' = Append(toServer, Want("entered", at))
    /\ Travel
    /\ UNCHANGED <<edits, posting, hubQueue, server, feed, out, closing, history>>

\* /refresh: everything in the window is wanted again.
Refresh ==
    /\ MayTravel /\ ~client.configuring
    /\ toServer' = Append(toServer, Want("refresh", client.at))
    /\ Travel
    /\ UNCHANGED <<edits, posting, hubQueue, server, feed, out, client, held,
                   closing, history>>

Shown(f) ==
    CASE f.kind = "chunk" ->
            [held EXCEPT ![f.cc] =
                IF ~client.configuring /\ Within(f.cc, client.at, Radius + ClientMargin)
                THEN f.n ELSE @]
      [] f.kind = "block" ->    \* names no dimension
            [cc \in Chunks |->
                IF cc # <<client.at[1], f.cc[2]>> \/ held[cc] = None THEN held[cc]
                ELSE IF cc = f.cc THEN f.n ELSE Foreign]
      [] OTHER -> [cc \in Chunks |-> None]

\* The client handles the next frame of the connection.
Receive ==
    /\ out # <<>> /\ ~closing.done
    /\ LET f == Head(out)
       IN /\ held' = Shown(f)
          /\ client' = CASE f.kind = "config"  -> [client EXCEPT !.configuring = TRUE]
                         [] f.kind = "respawn" -> [client EXCEPT !.at = f.cc]
                         [] f.kind = "rejoin"  -> [at |-> f.cc, configuring |-> FALSE]
                         [] OTHER -> client
          /\ toServer' = CASE f.kind = "config" -> Append(toServer, Want("configured", Home))
                           [] f.kind \in {"respawn", "rejoin"} ->
                                Append(toServer, Want("want", f.cc))
                           [] OTHER -> toServer
    /\ out' = Tail(out)
    /\ UNCHANGED <<edits, posting, hubQueue, server, feed, closing, budget, history>>

-----------------------------------------------------------------------------
(* The world and the hub. *)

\* Another player's session writes a block (interaction.go): the world has
\* it at once, the hub's event follows in a step of its own.
Edit(cc) ==
    /\ edits[cc] < MaxEdits
    /\ edits' = [edits EXCEPT ![cc] = @ + 1]
    /\ posting' = posting \cup {Block(cc, edits[cc] + 1)}
    /\ UNCHANGED <<hubQueue, server, feed, out, toServer, client, held, closing,
                   budget, history>>

Post(e) ==
    /\ e \in posting
    /\ posting' = posting \ {e}
    /\ hubQueue' = Append(hubQueue, e)
    /\ UNCHANGED <<edits, server, feed, out, toServer, client, held, closing,
                   budget, history>>

\* onBlock, broadcastBlockIn: who is told of an update.
Told(cc) == player.in /\ Within(cc, player.at, Interest)

\* The chunks a broadcast leaves with another block than the world's: its own
\* when the update is not sent, or carries the state of an older change than
\* one broadcast before; and, as the frame names no dimension, the chunk at
\* the same place of the dimension the session has just switched to.
Hidden(e, sends) ==
    LET superseded == /\ e.n < edits[e.cc]
                      /\ Block(e.cc, edits[e.cc]) \notin posting \cup Range(hubQueue)
        elsewhere == {<<player.session[1], e.cc[2]>>} \cap Chunks
    IN (IF sends THEN elsewhere \ {e.cc} ELSE {})
       \cup (IF sends /\ ~superseded THEN {} ELSE {e.cc})

\* The update reaches the session's queue, unless the player is out of range
\* or the queue is full (trySendEv).
Broadcast(e) ==
    \E lost \in BOOLEAN :
        LET sends == Told(e.cc) /\ ~lost
        IN /\ lost => Told(e.cc) /\ budget.lost < MaxLost
           /\ feed' = IF sends THEN Append(feed, e) ELSE feed
           /\ stale' = stale \cup Hidden(e, sends)
           /\ budget' = [budget EXCEPT !.lost = IF lost THEN @ + 1 ELSE @]

\* Fault: the change is broadcast as the world was before it.
OldState(cc) == edits[cc]

NewState(cc) == edits[cc] + 1

\* The hub writes a block itself (setBlockAt, setBlockLive).
HubEdit(cc) ==
    /\ edits[cc] < MaxEdits
    /\ edits' = [edits EXCEPT ![cc] = @ + 1]
    /\ Broadcast(Block(cc, NewState(cc)))
    /\ UNCHANGED <<posting, hubQueue, server, out, toServer, client, held,
                   closing, failed, late>>

\* The hub handles the next event.  A move has coordinates and no dimension:
\* one posted before a switch, and handled after it, puts the player at them
\* in the new dimension, unless that is too far to be believed (validateMove).
Hub ==
    /\ hubQueue # <<>>
    /\ hubQueue' = Tail(hubQueue)
    /\ LET e == Head(hubQueue)
       IN CASE e.kind = "block" -> Broadcast(e) /\ UNCHANGED player
            [] e.kind = "move" ->   \* onMove
                 /\ \/ player.in /\ player' = [player EXCEPT !.at = <<@[1], e.cc[2]>>]
                    \/ (player.in => player.at[1] # e.cc[1]) /\ UNCHANGED player
                 /\ UNCHANGED <<feed, stale, budget>>
            [] e.kind = "dim" ->    \* onDimSwitch
                 /\ player' = IF player.in THEN [player EXCEPT !.at = e.cc] ELSE player
                 /\ UNCHANGED <<feed, stale, budget>>
            [] e.kind = "join" ->
                 /\ player' = [player EXCEPT !.in = TRUE, !.at = e.cc]
                 /\ UNCHANGED <<feed, stale, budget>>
    /\ UNCHANGED <<edits, posting, view, sent, refused, backlog, job, out,
                   toServer, client, held, closing, failed, late>>

\* checkPendingDim: the reader carries out the switch a portal or a command
\* has asked for.  The client drops its level at the respawn and the gateway
\* asks anew; the hub follows when it gets there.
SwitchDim(at) ==
    /\ MayTravel /\ player.in /\ at[1] # player.session[1]
    /\ player' = [player EXCEPT !.session = at]
    /\ feed' = Append(feed, Placed("respawn", at))
    /\ hubQueue' = Append(hubQueue, Placed("dim", at))
    /\ Travel
    /\ UNCHANGED <<edits, posting, view, sent, refused, backlog, job, out,
                   toServer, client, held, closing, history>>

\* hub.reconfigure: out of the player map, then back to configuration.
Reconfigure ==
    /\ MayTravel /\ player.in
    /\ player' = [player EXCEPT !.in = FALSE]
    /\ feed' = Append(feed, Placed("config", player.at))
    /\ Travel
    /\ UNCHANGED <<edits, posting, hubQueue, view, sent, refused, backlog, job,
                   out, toServer, client, held, closing, history>>

\* decodeLoop: the session's events become frames.  A block update that
\* overtakes a chunk built from an older world leaves that chunk stale.
Overtaken(e) == \E w \in Workers : /\ job[w].step = "built" /\ job[w].cc = e.cc
                                   /\ job[w].n < e.n
Pump ==
    /\ feed # <<>> /\ (FrameRoom \/ closing.done)
    /\ LET e == Head(feed)
       IN /\ out' = IF FrameRoom THEN Append(out, e) ELSE out
          /\ stale' = IF e.kind = "block" /\ Overtaken(e) THEN stale \cup {e.cc}
                                                           ELSE stale
    /\ feed' = Tail(feed)
    /\ UNCHANGED <<edits, posting, hubQueue, server, toServer, client, held,
                   closing, budget, failed, late>>

-----------------------------------------------------------------------------
(* The reader of the session's connection. *)

Kept(at, S) == {cc \in S : Within(cc, at, Radius + Margin)}

\* A worker still at a chunk when both records forget it will report it to the
\* hub all the same.
Forgetting(S) ==
    [w \in Workers |->
        IF job[w].step \notin {"idle", "gone"} /\ job[w].cc \notin S
        THEN [job[w] EXCEPT !.forgotten = TRUE] ELSE job[w]]

\* nearestFirst over the window's raster: the chunk under the player first.
Nearer(a, b, at) ==
    \/ Dist(a[2], at[2]) < Dist(b[2], at[2])
    \/ Dist(a[2], at[2]) = Dist(b[2], at[2]) /\ a[2] < b[2]
Place(S, cc, at) == Cardinality({b \in S : b = cc \/ Nearer(b, cc, at)})
NearestFirst(S, at) ==
    [i \in 1 .. Cardinality(S) |-> CHOOSE cc \in S : Place(S, cc, at) = i]

\* Fault: what did not fit in the backlog still counts as sent.
KeptAnyway(S, over) == S

Unmarked(S, over) == S \ over

\* MsgWant.  The window loop, the sort and the enqueueing touch only what
\* the reader owns, except the channel, which workers can only empty.  The
\* MsgMove before it, if the player moved, has told the hub.
ReadWant(m) ==
    LET kept == Kept(m.cc, sent)
    IN \E gate \in Gates :
        LET window == Around(m.cc, Radius) \cap Owned
            queue == NearestFirst({cc \in window \cap gate : m.kind = "refresh" \/ cc \notin kept}, m.cc)
            left == Capacity - Len(backlog)
            room == IF Len(queue) <= left THEN Len(queue) ELSE left
            fit == SubSeq(queue, 1, room)
            over == Range(SubSeq(queue, room + 1, Len(queue)))
        IN /\ backlog' = backlog \o fit
           /\ sent' = Unmarked(kept \cup Range(queue), over)
           /\ refused' = over \cup ((window \ gate) \ kept)
           /\ view' = [known |-> TRUE, at |-> m.cc, sent |-> Kept(m.cc, view.sent)]
           /\ job' = Forgetting(Kept(m.cc, Chunks))
           /\ hubQueue' = IF m.kind = "entered" THEN Append(hubQueue, Placed("move", m.cc))
                                               ELSE hubQueue
           /\ UNCHANGED <<player, out>>

\* Fault: the session's records outlive the client's level.
ViewKept(v) == v

ViewReset(v) == [v EXCEPT !.sent = {}]

\* Fault: the reader's set is not cleared.
SentKept(S) == S

SentCleared(S) == {}

\* MsgConfigured: both records are cleared, the login goes straight to the
\* frame queue, and the hub is told to take the player back.
ReadConfigured ==
    /\ FrameRoom
    /\ sent' = SentCleared(sent)
    /\ view' = ViewReset(view)
    /\ job' = Forgetting({})
    /\ out' = Append(out, Placed("rejoin", player.at))
    /\ hubQueue' = Append(hubQueue, Placed("join", player.at))
    /\ player' = [player EXCEPT !.session = player.at]
    /\ refused' = {}
    /\ UNCHANGED backlog

Read ==
    /\ toServer # <<>> /\ ~closing.wants
    /\ LET m == Head(toServer)
       IN \/ m.kind # "configured" /\ ReadWant(m)
          \/ m.kind = "configured" /\ ReadConfigured
    /\ toServer' = Tail(toServer)
    /\ UNCHANGED <<edits, posting, feed, client, held, closing, budget, history>>

\* Fault: the channel is left open.
LeftOpen == closing.wants

WantsClosed == TRUE

\* The connection ends, or a write has failed: the reader returns and its
\* deferred calls run, "wants" first.
ReaderEnds ==
    /\ ~closing.wants /\ (closing.done \/ MaxEnds > 0)
    /\ closing' = [closing EXCEPT !.wants = WantsClosed]
    /\ UNCHANGED <<edits, posting, hubQueue, server, feed, out, toServer, client,
                   held, budget, history>>

\* closeSession: by the writer whose write failed, or by the reader's defer.
CloseSession ==
    /\ ~closing.done /\ (closing.wants \/ MaxEnds > 0)
    /\ closing' = [closing EXCEPT !.done = TRUE]
    /\ UNCHANGED <<edits, posting, hubQueue, server, feed, out, toServer, client,
                   held, budget, history>>

-----------------------------------------------------------------------------
(* The workers. *)

worker == <<edits, posting, hubQueue, player, feed, sent, refused, toServer,
            client, held, closing>>

Take(w) ==
    /\ job[w].step = "idle"
    /\ backlog # <<>>
    /\ job' = [job EXCEPT ![w] = [step |-> "taken", cc |-> Head(backlog), n |-> 0,
                                  forgotten |-> Head(backlog) \notin sent]]
    /\ backlog' = Tail(backlog)
    /\ UNCHANGED <<worker, view, out, budget, history>>

\* The range loop ends on a closed, empty channel.
Finish(w) ==
    /\ job[w].step = "idle" /\ backlog = <<>> /\ closing.wants
    /\ job' = [job EXCEPT ![w].step = "gone"]
    /\ UNCHANGED <<worker, view, backlog, out, budget, history>>

\* buildChunk reads the overlay.
Build(w) ==
    /\ job[w].step = "taken"
    /\ job' = [job EXCEPT ![w].step = "built", ![w].n = edits[job[w].cc]]
    /\ UNCHANGED <<worker, view, backlog, out, budget, history>>

\* The frame cannot be encoded: logged, and the chunk stays marked as sent.
FailBuild(w) ==
    /\ job[w].step = "built" /\ budget.fails < MaxFails
    /\ job' = [job EXCEPT ![w] = Idle]
    /\ failed' = failed \cup {job[w].cc}
    /\ budget' = [budget EXCEPT !.fails = @ + 1]
    /\ UNCHANGED <<worker, view, backlog, out, stale, late>>

\* send: into the frame queue, or not at all once the session is done.
Send(w) ==
    /\ job[w].step = "built"
    /\ \/ /\ FrameRoom
          /\ out' = Append(out, Chunk(job[w].cc, job[w].n))
          /\ job' = [job EXCEPT ![w].step = "written"]
       \/ /\ closing.done
          /\ job' = [job EXCEPT ![w].step = "gone"]
          /\ UNCHANGED out
    /\ UNCHANGED <<worker, view, backlog, budget, history>>

\* viewer.ChunkSent.
Report(w) ==
    /\ job[w].step = "written"
    /\ view' = [view EXCEPT !.sent = @ \cup {job[w].cc}]
    /\ late' = IF job[w].forgotten THEN late \cup {job[w].cc} ELSE late
    /\ job' = [job EXCEPT ![w] = Idle]
    /\ UNCHANGED <<worker, backlog, out, budget, failed, stale>>

-----------------------------------------------------------------------------
Client == (\E x \in Xs : Move(x)) \/ Refresh
World == \E cc \in Busy : Edit(cc) \/ HubEdit(cc)
Works(w) == Take(w) \/ Finish(w) \/ Build(w) \/ FailBuild(w) \/ Send(w) \/ Report(w)

Next ==
    \/ Client \/ Receive
    \/ World \/ \E e \in posting : Post(e)
    \/ Hub \/ Pump \/ Reconfigure \/ \E at \in Owned : SwitchDim(at)
    \/ Read \/ ReaderEnds \/ CloseSession
    \/ \E w \in Workers : Works(w)

\* Whatever the program's goroutines and the connection can do, they go on
\* doing.  A session one side has closed is closed by the other: ReadFrame
\* fails on a closed connection, and the reader's deferred calls run.
System ==
    \/ Receive \/ Hub \/ Pump \/ Read \/ \E e \in posting : Post(e)
    \/ closing.done /\ ReaderEnds
    \/ closing.wants /\ CloseSession
    \/ \E w \in Workers : Works(w)

Spec == Init /\ [][Next]_vars /\ WF_vars(System)

-----------------------------------------------------------------------------
(* Properties. *)

Frames == [kind : {"chunk", "block", "respawn", "config", "rejoin"},
           cc : Chunks, n : Edited]
Jobs == [step : {"idle", "taken", "built", "written", "gone"}, cc : Chunks,
         n : Edited, forgotten : BOOLEAN]

\* Every variable holds what the code keeps in it: no queue beyond its size,
\* no update of a change nobody made.
TypeOK ==
    /\ edits \in [Chunks -> Edited]
    /\ \A e \in posting : e \in Frames /\ e.kind = "block" /\ e.n <= edits[e.cc]
    /\ \A e \in Range(hubQueue) : e.kind \in {"block", "move", "dim", "join"}
    /\ player \in [in : BOOLEAN, at : Chunks, session : Chunks]
    /\ view \in [known : BOOLEAN, at : Chunks, sent : SUBSET Chunks]
    /\ Range(feed) \subseteq Frames
    /\ Range(out) \subseteq Frames /\ Len(out) <= OutCap
    /\ {sent, refused, failed, stale, late} \subseteq SUBSET Chunks
    /\ Range(backlog) \subseteq Chunks /\ Len(backlog) <= Capacity
    /\ job \in [Workers -> Jobs]
    /\ client \in [at : Chunks, configuring : BOOLEAN]
    /\ held \in [Chunks -> Edited \cup {None, Foreign}]

\* Something the client has yet to say, or to be told, will make both records
\* forget a chunk.
WillForget(cc) ==
    \/ \E m \in Range(toServer) :
           \/ m.kind = "configured"
           \/ ~Within(cc, m.cc, Radius + Margin)
    \/ \E f \in Range(feed) \cup Range(out) : f.kind \in {"config", "respawn"}

InFrames(cc) == \E f \in Range(out) : f.kind = "chunk" /\ f.cc = cc

UnderWay(cc) ==
    \/ cc \in Range(backlog)
    \/ \E w \in Workers : job[w].step \in {"taken", "built"} /\ job[w].cc = cc
    \/ InFrames(cc)

\* A chunk the reader counts as sent is never asked for again, so it must be
\* at the client or on its way, unless the client is about to say that it
\* has dropped it, or its frame could not be built.  Otherwise the player
\* looks at a hole that no later Want fills.
NoSilentHole ==
    \A cc \in sent : \/ held[cc] # None \/ UnderWay(cc) \/ WillForget(cc)
                     \/ cc \in failed \/ closing.wants \/ closing.done

\* An entity is shown only in a chunk the client holds (attach.go:169-171):
\* a chunk of the hub's record inside the view is at the client, or in the
\* frame queue ahead of any entity, unless it was forgotten before a worker
\* was done with it.
ShownOnlyWhereHeld ==
    \A cc \in {c \in view.sent : Within(c, view.at, Radius + Margin - 1)} :
        \/ held[cc] # None \/ InFrames(cc)
        \/ WillForget(cc) \/ cc \in late \/ closing.done

NewerOnItsWay(cc) ==
    \/ Block(cc, edits[cc]) \in posting \cup Range(hubQueue) \cup Range(feed) \cup Range(out)
    \/ Chunk(cc, edits[cc]) \in Range(out)
    \/ \E w \in Workers :
          /\ job[w].cc = cc
          /\ job[w].step = "taken" \/ (job[w].step = "built" /\ job[w].n = edits[cc])

\* A block the client shows is the world's or about to be, except in the four
\* ways the code leaves open: the hub told this player nothing, an update
\* overtook the chunk it belongs in, it was followed by that of an older
\* change, or it belongs to the dimension the player has just left.
HeldIsCurrent ==
    \A cc \in Chunks :
        held[cc] \notin {None, edits[cc]} =>
            NewerOnItsWay(cc) \/ WillForget(cc) \/ cc \in stale \/ closing.done

\* One Want alone never overfills the backlog (attach.go:393-397): whatever
\* is left of earlier Wants, up to the spare room, a Want loses no chunk
\* except to the gate.
DropsOnlyInBursts ==
    [][\A cc \in refused' \ refused :
         view'.known /\ Len(backlog) <= Spare => \E gate \in Gates : cc \notin gate]_vars

\* A player who stays where they are sees every chunk of their window that
\* some shard owns, that the last Want did not leave out and that could be
\* built, if the session lasts.
FilledWhenStill ==
    <>[](closing.wants \/ closing.done \/
         \A cc \in Around(client.at, Radius) \cap Owned :
            held[cc] # None \/ cc \in refused \/ cc \in failed)

\* A session that ends leaves no worker behind.
WorkersEnd ==
    (closing.wants \/ closing.done) ~> \A w \in Workers : job[w].step = "gone"
=============================================================================
