--------------------------- MODULE WindowsProofs ----------------------------
(***************************************************************************)
(* Proofs about containers and windows, for any number of players, places  *)
(* and storages, any capacities and any stock: what the variables hold,    *)
(* that nothing stays where nobody finds it, and that no item is made or   *)
(* lost.                                                                   *)
(*                                                                         *)
(* Items are counted one by one: a number at each place is a pile of       *)
(* pairs, so that what moves from a place to another is a bijection        *)
(* between piles and no sum is ever unrolled.                              *)
(***************************************************************************)
EXTENDS Windows, TLAPS, FiniteSetTheorems

-----------------------------------------------------------------------------
(* Piles. *)

\* The members of a pile.
LEMMA PileMember ==
  ASSUME NEW f, NEW S, NEW z
  PROVE  z \in Pile(f, S) <=> \E x \in S : \E i \in 1 .. f[x] : z = <<x, i>>
BY DEF Pile

\* A pile of bounded numbers over a finite set is finite.
LEMMA PileFinite ==
  ASSUME NEW f, NEW S, IsFiniteSet(S), NEW n \in Nat,
         \A x \in S : f[x] \in Int /\ f[x] <= n
  PROVE  IsFiniteSet(Pile(f, S)) /\ Total(f, S) \in Nat
<1>1. IsFiniteSet(1 .. n)
  BY FS_Interval, SMT
<1>2. IsFiniteSet(S \X (1 .. n))
  BY <1>1, FS_Product
<1>3. \A x \in S : \A i \in 1 .. f[x] : i \in 1 .. n
  OBVIOUS
<1>4. Pile(f, S) \subseteq S \X (1 .. n)
  <2>. SUFFICES ASSUME NEW z \in Pile(f, S)
                PROVE  z \in S \X (1 .. n)
    OBVIOUS
  <2>1. PICK x \in S : \E i \in 1 .. f[x] : z = <<x, i>>
    BY PileMember
  <2>. QED
    BY <2>1, <1>3
<1>5. IsFiniteSet(Pile(f, S))
  BY <1>2, <1>4, FS_Subset
<1>. QED
  BY <1>5, FS_CardinalityType DEF Total

\* A pile depends on the numbers only.
LEMMA PileSame ==
  ASSUME NEW f, NEW g, NEW S, \A x \in S : f[x] = g[x]
  PROVE  Pile(f, S) = Pile(g, S) /\ Total(f, S) = Total(g, S)
<1>1. ASSUME NEW z PROVE z \in Pile(f, S) <=> z \in Pile(g, S)
  BY PileMember
<1>. QED
  BY <1>1 DEF Total

\* A pile of nothing.
LEMMA PileEmpty ==
  ASSUME NEW f, NEW S, \A x \in S : 1 .. f[x] = {}
  PROVE  Total(f, S) = 0
<1>1. \A z : z \notin Pile(f, S)
  BY PileMember
<1>2. Pile(f, S) = {}
  BY <1>1
<1>. QED
  BY <1>2, FS_EmptySet DEF Total

\* Where there is nothing the pile has nothing.
LEMMA PilePart ==
  ASSUME NEW f, NEW g, NEW S, NEW T \in SUBSET S,
         \A x \in T : f[x] = g[x],
         \A x \in S \ T : 1 .. g[x] = {}
  PROVE  Total(f, T) = Total(g, S)
<1>1. ASSUME NEW z PROVE z \in Pile(f, T) <=> z \in Pile(g, S)
  <2>1. z \in Pile(f, T) => z \in Pile(g, S)
    BY PileMember
  <2>2. z \in Pile(g, S) => z \in Pile(f, T)
    <3>. SUFFICES ASSUME z \in Pile(g, S) PROVE z \in Pile(f, T)
      OBVIOUS
    <3>1. PICK x \in S : \E i \in 1 .. g[x] : z = <<x, i>>
      BY PileMember
    <3>2. x \in T
      BY <3>1
    <3>. QED
      BY <3>1, <3>2, PileMember
  <2>. QED
    BY <2>1, <2>2
<1>2. Pile(f, T) = Pile(g, S)
  BY <1>1
<1>. QED
  BY <1>2 DEF Total

\* The numbers of f are those of g, and over T those of d with them; n bounds them.
Adds(f, g, d, S, T, n) ==
  /\ T \subseteq S /\ n \in Nat
  /\ \A x \in S : g[x] \in 0 .. n
  /\ \A x \in T : d[x] \in 0 .. n /\ f[x] = g[x] + d[x]
  /\ \A x \in S \ T : f[x] = g[x]

\* What is added to some of the numbers is added to the total.
LEMMA PileAdd ==
  ASSUME NEW S, IsFiniteSet(S), NEW T, NEW n, NEW f, NEW g, NEW d,
         Adds(f, g, d, S, T, n)
  PROVE  /\ Total(g, S) \in Nat /\ Total(d, T) \in Nat
         /\ Total(f, S) = Total(g, S) + Total(d, T)
<1>. DEFINE Rest == Pile(f, S) \ Pile(g, S)
            up == [z \in Pile(d, T) |-> <<z[1], z[2] + g[z[1]]>>]
<1>. /\ T \in SUBSET S /\ n \in Nat
     /\ \A x \in S : g[x] \in 0 .. n
     /\ \A x \in T : d[x] \in 0 .. n /\ f[x] = g[x] + d[x]
     /\ \A x \in S \ T : f[x] = g[x]
  BY DEF Adds
<1>0. IsFiniteSet(T)
  BY FS_Subset
<1>1. IsFiniteSet(Pile(g, S)) /\ Total(g, S) \in Nat
  <2>1. \A x \in S : g[x] \in Int /\ g[x] <= n
    OBVIOUS
  <2>. QED
    BY <2>1, PileFinite
<1>2. IsFiniteSet(Pile(d, T)) /\ Total(d, T) \in Nat
  <2>1. \A x \in T : d[x] \in Int /\ d[x] <= n
    OBVIOUS
  <2>. QED
    BY <1>0, <2>1, PileFinite
<1>3. Pile(g, S) \subseteq Pile(f, S)
  <2>. SUFFICES ASSUME NEW z \in Pile(g, S) PROVE z \in Pile(f, S)
    OBVIOUS
  <2>1. PICK x \in S : \E i \in 1 .. g[x] : z = <<x, i>>
    BY PileMember
  <2>2. PICK i \in 1 .. g[x] : z = <<x, i>>
    BY <2>1
  <2>3. i \in 1 .. f[x]
    OBVIOUS
  <2>. QED
    BY <2>2, <2>3, PileMember
<1>4. \A x \in T : \A i \in 1 .. d[x] : <<x, i + g[x]>> \in Rest
  <2>. SUFFICES ASSUME NEW x \in T PROVE \A i \in 1 .. d[x] : <<x, i + g[x]>> \in Rest
    OBVIOUS
  <2>. SUFFICES ASSUME NEW i \in 1 .. d[x] PROVE <<x, i + g[x]>> \in Rest
    OBVIOUS
  <2>1. i + g[x] \in 1 .. f[x]
    OBVIOUS
  <2>2. <<x, i + g[x]>> \in Pile(f, S)
    BY <2>1, PileMember
  <2>3. \A y \in S : \A j \in 1 .. g[y] : <<x, i + g[x]>> # <<y, j>>
    <3>. SUFFICES ASSUME NEW j \in 1 .. g[x], i + g[x] = j PROVE FALSE
      OBVIOUS
    <3>. QED
      OBVIOUS
  <2>4. <<x, i + g[x]>> \notin Pile(g, S)
    BY <2>3, PileMember
  <2>. QED
    BY <2>2, <2>4
<1>5. ASSUME NEW z \in Rest
      PROVE  \E x \in T : \E i \in 1 .. d[x] : z = <<x, i + g[x]>>
  <2>1. PICK x \in S : \E j \in 1 .. f[x] : z = <<x, j>>
    BY PileMember
  <2>2. PICK j \in 1 .. f[x] : z = <<x, j>>
    BY <2>1
  <2>3. j \notin 1 .. g[x]
    BY <2>2, PileMember
  <2>4. x \in T
    BY <2>3
  <2>5. j - g[x] \in 1 .. d[x] /\ (j - g[x]) + g[x] = j
    BY <2>3, <2>4
  <2>. QED
    BY <2>2, <2>4, <2>5
<1>6. \A z \in Pile(d, T) : \E x \in T : \E i \in 1 .. d[x] :
         z = <<x, i>> /\ up[z] = <<x, i + g[x]>>
  BY PileMember
<1>7. up \in [Pile(d, T) -> Rest]
  <2>1. \A z \in Pile(d, T) : up[z] \in Rest
    BY <1>4, <1>6
  <2>. QED
    BY <2>1
<1>8. \A y, z \in Pile(d, T) : up[y] = up[z] => y = z
  <2>. SUFFICES ASSUME NEW y \in Pile(d, T), NEW z \in Pile(d, T), up[y] = up[z]
                PROVE  y = z
    OBVIOUS
  <2>1. PICK x1 \in T : \E i \in 1 .. d[x1] : y = <<x1, i>> /\ up[y] = <<x1, i + g[x1]>>
    BY <1>6
  <2>2. PICK x2 \in T : \E i \in 1 .. d[x2] : z = <<x2, i>> /\ up[z] = <<x2, i + g[x2]>>
    BY <1>6
  <2>3. PICK i1 \in 1 .. d[x1] : y = <<x1, i1>> /\ up[y] = <<x1, i1 + g[x1]>>
    BY <2>1
  <2>4. PICK i2 \in 1 .. d[x2] : z = <<x2, i2>> /\ up[z] = <<x2, i2 + g[x2]>>
    BY <2>2
  <2>5. x1 = x2 /\ i1 + g[x1] = i2 + g[x2]
    BY <2>3, <2>4
  <2>6. i1 = i2
    BY <2>5
  <2>. QED
    BY <2>3, <2>4, <2>5, <2>6
<1>9. \A t \in Rest : \E z \in Pile(d, T) : up[z] = t
  <2>. SUFFICES ASSUME NEW t \in Rest PROVE \E z \in Pile(d, T) : up[z] = t
    OBVIOUS
  <2>1. PICK x \in T : \E i \in 1 .. d[x] : t = <<x, i + g[x]>>
    BY <1>5
  <2>2. PICK i \in 1 .. d[x] : t = <<x, i + g[x]>>
    BY <2>1
  <2>3. <<x, i>> \in Pile(d, T)
    BY PileMember
  <2>4. up[<<x, i>>] = t
    BY <2>2, <2>3
  <2>. QED
    BY <2>3, <2>4
<1>10. up \in Bijection(Pile(d, T), Rest)
  <2>. HIDE DEF up, Rest
  <2>1. up \in Injection(Pile(d, T), Rest)
    BY <1>7, <1>8 DEF Injection, IsInjective
  <2>2. up \in Surjection(Pile(d, T), Rest)
    BY <1>7, <1>9 DEF Surjection
  <2>. QED
    BY <2>1, <2>2 DEF Bijection
<1>11. IsFiniteSet(Rest) /\ Cardinality(Rest) = Cardinality(Pile(d, T))
  BY <1>2, <1>10, FS_Bijection DEF ExistsBijection
<1>12. Cardinality(Pile(g, S) \cup Rest) = Cardinality(Pile(g, S)) + Cardinality(Rest)
  <2>1. Pile(g, S) \cap Rest = {}
    OBVIOUS
  <2>2. Cardinality(Pile(g, S) \cap Rest) = 0
    BY <2>1, FS_EmptySet, Zenon
  <2>3. Cardinality(Pile(g, S) \cup Rest)
          = Cardinality(Pile(g, S)) + Cardinality(Rest) - Cardinality(Pile(g, S) \cap Rest)
    BY <1>1, <1>11, FS_Union
  <2>4. Cardinality(Pile(g, S)) \in Nat /\ Cardinality(Rest) \in Nat
    BY <1>1, <1>11, FS_CardinalityType
  <2>. HIDE DEF Rest
  <2>. QED
    BY <2>2, <2>3, <2>4
<1>13. Pile(f, S) = Pile(g, S) \cup Rest
  BY <1>3
<1>. QED
  BY <1>1, <1>2, <1>11, <1>12, <1>13 DEF Total

\* A pile at one place.
LEMMA PileOne ==
  ASSUME NEW a, NEW h, NEW k \in Nat, h[a] = k
  PROVE  Total(h, {a}) = k
<1>1. Pile(h, {a}) = {a} \X (1 .. k)
  BY DEF Pile
<1>2. IsFiniteSet({a}) /\ Cardinality({a}) = 1
  BY FS_Singleton, Zenon
<1>3. IsFiniteSet(1 .. k) /\ Cardinality(1 .. k) = k
  BY FS_Interval
<1>4. Cardinality({a} \X (1 .. k)) = Cardinality({a}) * Cardinality(1 .. k)
  BY <1>2, <1>3, FS_Product, Zenon
<1>5. Cardinality({a} \X (1 .. k)) = 1 * k
  BY <1>2, <1>3, <1>4, Zenon
<1>6. 1 * k = k
  OBVIOUS
<1>. QED
  BY <1>1, <1>5, <1>6, Zenon DEF Total

\* f and g are the same but at a.
Alters(f, g, S, a, n) ==
  /\ a \in S /\ n \in Nat
  /\ \A x \in S : f[x] \in 0 .. n /\ g[x] \in 0 .. n
  /\ \A x \in S \ {a} : f[x] = g[x]

\* A change of one number changes the total by as much.
LEMMA PileChange ==
  ASSUME NEW S, IsFiniteSet(S), NEW a, NEW n, NEW f, NEW g, Alters(f, g, S, a, n)
  PROVE  /\ Total(f, S) \in Nat /\ Total(g, S) \in Nat
         /\ Total(f, S) + g[a] = Total(g, S) + f[a]
<1>. /\ a \in S /\ n \in Nat
     /\ \A x \in S : f[x] \in 0 .. n /\ g[x] \in 0 .. n
     /\ \A x \in S \ {a} : f[x] = g[x]
  BY DEF Alters
<1>. DEFINE base == [x \in S |-> IF x = a THEN 0 ELSE f[x]]
<1>1. /\ \A x \in S : base[x] \in 0 .. n
      /\ \A x \in S \ {a} : f[x] = base[x] /\ g[x] = base[x]
      /\ base[a] = 0
  OBVIOUS
<1>. HIDE DEF base
<1>3. Total(f, S) = Total(base, S) + Total(f, {a})
  <2>1. Adds(f, base, f, S, {a}, n)
    BY <1>1 DEF Adds
  <2>. QED
    BY <2>1, PileAdd
<1>4. Total(g, S) = Total(base, S) + Total(g, {a})
  <2>1. Adds(g, base, g, S, {a}, n)
    BY <1>1 DEF Adds
  <2>. QED
    BY <2>1, PileAdd
<1>5. Total(base, S) \in Nat
  <2>1. \A x \in S : base[x] \in Int /\ base[x] <= n
    BY <1>1
  <2>. QED
    BY <2>1, PileFinite
<1>6. Total(f, {a}) = f[a] /\ Total(g, {a}) = g[a] /\ f[a] \in Nat /\ g[a] \in Nat
  BY PileOne
<1>. QED
  BY <1>3, <1>4, <1>5, <1>6

-----------------------------------------------------------------------------
(* What the variables hold. *)

LEMMA CapsNat ==
  /\ InvCap \in Nat /\ GridCap \in Nat /\ HandCap \in Nat /\ BoxCap \in Nat
  /\ MaxBoxes \in Nat /\ MaxPosts \in Nat
BY WindowsAssumption

\* The purses: what a player's pockets may hold.
Pockets ==
  /\ inv \in [Players -> 0 .. InvCap]
  /\ grid \in [Players -> 0 .. GridCap] /\ hand \in [Players -> 0 .. HandCap]

\* What each player carries, and what stands at each place.
Holding == [s \in Players |-> inv[s] + grid[s] + hand[s]]

\* The containers.
Storage ==
  /\ block \in [Places -> BOOLEAN]
  /\ posts \in Seq([at : Places, stands : BOOLEAN]) /\ Len(posts) <= MaxPosts
  /\ made \in 0 .. MaxBoxes
  /\ boxes \in [Places -> 0 .. made]
  /\ slots \in [Boxes -> 0 .. BoxCap]
  /\ ghosts \subseteq Places

\* The windows, and who is where.
Views ==
  /\ here \subseteq Players
  /\ asked \in [Players -> Places \cup {"none"}]
  /\ win \in [Players -> [at : Places \cup {"none"}, box : 0 .. made]]
  /\ crossing \in [Players -> -1 .. InvCap] /\ abroad \in [Players -> -1 .. InvCap]

\* The books.
Books ==
  /\ ground \in Nat /\ supplied \in Nat /\ swallowed \in Nat
  /\ {stale, torn} \subseteq BOOLEAN

LEMMA TypeParts == TypeOK <=> Pockets /\ Storage /\ Views /\ Books
  BY DEF TypeOK, Pockets, Storage, Views, Books

\* Folding moves grid and cursor into the inventory as far as there is room.
LEMMA FoldedFacts ==
  ASSUME Pockets, NEW s \in Players
  PROVE  /\ Folded(s).inv \in 0 .. InvCap
         /\ Folded(s).grid \in 0 .. GridCap /\ Folded(s).hand \in 0 .. HandCap
         /\ Dropped(s) \in 0 .. GridCap + HandCap
         /\ Dropped(s) = Folded(s).grid + Folded(s).hand
         /\ Folded(s).inv + Folded(s).grid + Folded(s).hand = inv[s] + grid[s] + hand[s]
<1>. DEFINE r == InvCap - inv[s]
            g == Least(grid[s], r)
            h == Least(hand[s], r - g)
<1>1. inv[s] \in 0 .. InvCap /\ grid[s] \in 0 .. GridCap /\ hand[s] \in 0 .. HandCap
  BY DEF Pockets
<1>2. r \in 0 .. InvCap /\ r = InvCap - inv[s]
  BY <1>1, CapsNat
<1>3. g \in 0 .. grid[s] /\ g <= r
  BY <1>1, <1>2 DEF Least
<1>4. h \in 0 .. hand[s] /\ h <= r - g
  BY <1>1, <1>2, <1>3 DEF Least
<1>5. Folded(s) = [inv |-> inv[s] + g + h, grid |-> grid[s] - g, hand |-> hand[s] - h]
  BY DEF Folded, Room
<1>. HIDE DEF r, g, h
<1>6. /\ Folded(s).inv = inv[s] + g + h
      /\ Folded(s).grid = grid[s] - g
      /\ Folded(s).hand = hand[s] - h
  BY <1>5
<1>. QED
  BY <1>1, <1>2, <1>3, <1>4, <1>6, CapsNat DEF Dropped

\* What a closing leaves in the pockets, and what it drops.
LEMMA CloseForFacts ==
  ASSUME Pockets, ground \in Nat, NEW S \in SUBSET Players, CloseFor(S)
  PROVE  /\ Pockets' /\ ground' \in Nat
         /\ ground' + Total(Holding', Players) = ground + Total(Holding, Players)
<1>. DEFINE done == /\ Pockets' /\ ground' \in Nat
                    /\ ground' + Total(Holding', Players) = ground + Total(Holding, Players)
<1>0. SUFFICES ASSUME NEW d, d = [s \in Players |-> Dropped(s)],
                      NEW n, n = InvCap + GridCap + HandCap
               PROVE  done
  OBVIOUS
<1>. HIDE DEF done
<1>1. n \in Nat
  BY <1>0, CapsNat
<1>2. \A s \in Players :
        /\ Folded(s).inv \in 0 .. InvCap
        /\ Folded(s).grid \in 0 .. GridCap /\ Folded(s).hand \in 0 .. HandCap
        /\ Dropped(s) \in 0 .. GridCap + HandCap
        /\ Dropped(s) = Folded(s).grid + Folded(s).hand
        /\ Folded(s).inv + Folded(s).grid + Folded(s).hand = inv[s] + grid[s] + hand[s]
  BY FoldedFacts
<1>3. \A s \in Players :
        /\ inv[s] \in 0 .. InvCap /\ grid[s] \in 0 .. GridCap /\ hand[s] \in 0 .. HandCap
  BY DEF Pockets
<1>4. /\ inv' = [s \in Players |-> IF s \in S THEN Folded(s).inv ELSE inv[s]]
      /\ grid' = [s \in Players |-> IF s \in S THEN 0 ELSE grid[s]]
      /\ hand' = [s \in Players |-> IF s \in S THEN 0 ELSE hand[s]]
  BY DEF CloseFor, Zeroed
<1>5. \A s \in S : inv'[s] = Folded(s).inv /\ grid'[s] = 0 /\ hand'[s] = 0
  BY <1>4
<1>6. \A s \in Players \ S : inv'[s] = inv[s] /\ grid'[s] = grid[s] /\ hand'[s] = hand[s]
  BY <1>4
<1>7. Pockets'
  <2>1. inv' \in [Players -> 0 .. InvCap]
    BY <1>2, <1>3, <1>4
  <2>2. grid' \in [Players -> 0 .. GridCap] /\ hand' \in [Players -> 0 .. HandCap]
    BY <1>3, <1>4, CapsNat
  <2>. QED
    BY <2>1, <2>2 DEF Pockets
<1>8. \A s \in Players :
        /\ inv'[s] \in 0 .. InvCap /\ grid'[s] \in 0 .. GridCap /\ hand'[s] \in 0 .. HandCap
  BY <1>7 DEF Pockets
<1>9. \A s \in Players : Holding'[s] \in 0 .. n
  BY <1>0, <1>8, CapsNat DEF Holding
<1>10. \A s \in S : d[s] \in 0 .. n /\ Holding[s] = Holding'[s] + d[s]
  <2>. SUFFICES ASSUME NEW s \in S
                PROVE  d[s] \in 0 .. n /\ Holding[s] = Holding'[s] + d[s]
    OBVIOUS
  <2>1. d[s] = Dropped(s) /\ s \in Players
    BY <1>0
  <2>2. Holding[s] = inv[s] + grid[s] + hand[s] /\ Holding'[s] = Folded(s).inv + 0 + 0
    BY <1>5 DEF Holding
  <2>. QED
    BY <1>0, <1>2, <2>1, <2>2, CapsNat
<1>11. \A s \in Players \ S : Holding[s] = Holding'[s]
  BY <1>6 DEF Holding
<1>12. ground' = ground + Total(d, S)
  BY <1>0 DEF CloseFor
<1>13. IsFiniteSet(Players)
  BY WindowsAssumption
<1>14. Adds(Holding, Holding', d, Players, S, n)
  BY <1>1, <1>9, <1>10, <1>11 DEF Adds
<1>15. /\ Total(Holding', Players) \in Nat /\ Total(d, S) \in Nat
       /\ Total(Holding, Players) = Total(Holding', Players) + Total(d, S)
  BY <1>13, <1>14, PileAdd
<1>. QED
  BY <1>7, <1>12, <1>15 DEF done

\* No pocket is ever overfull.
LEMMA PocketsStep ==
  ASSUME Pockets, Views, Books, [Next]_vars
  PROVE  Pockets'
<1>1. ASSUME NEW s \in Players, Login(s) PROVE Pockets'
  BY <1>1 DEF Pockets, held, Login
<1>2. ASSUME NEW s \in Players, OnLeave(s) PROVE Pockets'
  <2>1. /\ inv' = [inv EXCEPT ![s] = Folded(s).inv]
        /\ grid' = [t \in Players |-> IF t \in {s} THEN 0 ELSE grid[t]]
        /\ hand' = [t \in Players |-> IF t \in {s} THEN 0 ELSE hand[t]]
    BY <1>2 DEF OnLeave, Gone, SavedAtLeave, Zeroed
  <2>2. Folded(s).inv \in 0 .. InvCap
    BY <1>2, FoldedFacts
  <2>. QED
    BY <2>1, <2>2, CapsNat DEF Pockets
<1>3. ASSUME NEW s \in Players, Close(s) PROVE Pockets'
  <2>1. {s} \in SUBSET Players /\ CloseFor({s})
    BY <1>3 DEF Close
  <2>. QED
    BY <2>1, CloseForFacts DEF Books
<1>4. ASSUME NEW s \in Players, Open(s) PROVE Pockets'
  <2>1. /\ inv' = [inv EXCEPT ![s] = Folded(s).inv]
        /\ grid' = [grid EXCEPT ![s] = Folded(s).grid]
        /\ hand' = [hand EXCEPT ![s] = Folded(s).hand]
    BY <1>4 DEF Open
  <2>2. /\ Folded(s).inv \in 0 .. InvCap
        /\ Folded(s).grid \in 0 .. GridCap /\ Folded(s).hand \in 0 .. HandCap
    BY <1>4, FoldedFacts
  <2>. QED
    BY <2>1, <2>2 DEF Pockets
<1>5. ASSUME NEW s \in Players, Click(s) PROVE Pockets'
  <2>1. PICK i \in 0 .. InvCap, d \in 0 .. SideCap(s), c \in 0 .. HandCap :
           /\ inv' = [inv EXCEPT ![s] = i]
           /\ hand' = [hand EXCEPT ![s] = c]
           /\ grid' = [grid EXCEPT ![s] = IF win[s].at = "none" THEN d ELSE @]
    BY <1>5 DEF Click
  <2>2. win[s].at = "none" => d \in 0 .. GridCap
    BY DEF SideCap
  <2>. QED
    BY <2>1, <2>2 DEF Pockets
<1>6. ASSUME NEW s \in Players, BeginHandover(s) PROVE Pockets'
  BY <1>6 DEF Pockets, held, BeginHandover
<1>7. ASSUME NEW s \in Players, FinishHandover(s) PROVE Pockets'
  <2>1. /\ inv' = [t \in Players |-> IF t \in {s} THEN 0 ELSE inv[t]]
        /\ grid' = [t \in Players |-> IF t \in {s} THEN 0 ELSE grid[t]]
        /\ hand' = [t \in Players |-> IF t \in {s} THEN 0 ELSE hand[t]]
    BY <1>7 DEF FinishHandover, Gone, Zeroed
  <2>. QED
    BY <2>1, CapsNat DEF Pockets
<1>8. ASSUME NEW s \in Players, RefuseHandover(s) PROVE Pockets'
  BY <1>8 DEF Pockets, held, RefuseHandover
<1>9. ASSUME NEW s \in Players, PickUp(s) PROVE Pockets'
  <2>1. PICK n \in 1 .. Least(ground, Room(s)) : inv' = [inv EXCEPT ![s] = @ + n]
    BY <1>9 DEF PickUp
  <2>2. inv[s] \in 0 .. InvCap
    BY DEF Pockets
  <2>3. inv[s] + n \in 0 .. InvCap
    BY <2>2, CapsNat DEF Least, Room, Books
  <2>. QED
    BY <1>9, <2>1, <2>3 DEF Pockets, PickUp
<1>10. ASSUME NEW s \in Players, Toss(s) PROVE Pockets'
  <2>1. PICK n \in 1 .. inv[s] : inv' = [inv EXCEPT ![s] = @ - n]
    BY <1>10 DEF Toss
  <2>2. inv[s] \in 0 .. InvCap
    BY DEF Pockets
  <2>3. inv[s] - n \in 0 .. InvCap
    BY <2>2, CapsNat
  <2>. QED
    BY <1>10, <2>1, <2>3 DEF Pockets, Toss
<1>11. ASSUME NEW s \in Players, Die(s) PROVE Pockets'
  <2>1. /\ inv' = [t \in Players |-> IF t \in {s} THEN 0 ELSE inv[t]]
        /\ grid' = [t \in Players |-> IF t \in {s} THEN 0 ELSE grid[t]]
        /\ hand' = [t \in Players |-> IF t \in {s} THEN 0 ELSE hand[t]]
    BY <1>11 DEF Die, Zeroed
  <2>. QED
    BY <2>1, CapsNat DEF Pockets
<1>12. ASSUME NEW s \in Players, NEW p \in Places, Ask(s, p) PROVE Pockets'
  BY <1>12 DEF Pockets, held, Ask
<1>13. ASSUME NEW p \in Places, Dig(p) PROVE Pockets'
  BY <1>13 DEF Pockets, held, Dig
<1>14. ASSUME NEW p \in Places, Place(p) PROVE Pockets'
  BY <1>14 DEF Pockets, held, Place
<1>15. ASSUME NEW p \in Places, SimBreak(p) PROVE Pockets'
  BY <1>15 DEF Pockets, held, SimBreak
<1>16. CASE OnBlock
  BY <1>16 DEF Pockets, held, OnBlock
<1>17. CASE Tick
  <2>1. PICK far \in SUBSET Viewers :
           CloseFor(far \cup {s \in Viewers : ~MenuBlockPresent(s)})
    BY <1>17 DEF Tick
  <2>2. far \cup {s \in Viewers : ~MenuBlockPresent(s)} \in SUBSET Players
    BY DEF Viewers, Views
  <2>. QED
    BY <2>1, <2>2, CloseForFacts DEF Books
<1>18. CASE UNCHANGED vars
  BY <1>18 DEF vars, store, held, away, history, Pockets
<1>19. ASSUME NEW s \in Players, BlankClick(s) PROVE Pockets'
  <2>1. PICK c \in 0 .. HandCap : hand' = [hand EXCEPT ![s] = c]
    BY <1>19 DEF BlankClick
  <2>. QED
    BY <1>19, <2>1 DEF Pockets, BlankClick
<1>. QED
  BY <1>1, <1>2, <1>3, <1>4, <1>5, <1>6, <1>7, <1>8, <1>9, <1>10, <1>11,
     <1>12, <1>13, <1>14, <1>15, <1>16, <1>17, <1>18, <1>19 DEF Next, WorldStep,
     PlayerStep

LEMMA TailMember ==
  ASSUME NEW S, NEW q \in Seq(S), q # <<>>
  PROVE  Tail(q) \in Seq(S) /\ Len(Tail(q)) = Len(q) - 1 /\ Len(q) \in Nat
  OBVIOUS

\* No container is overfull, and a place only names a storage that was made.
LEMMA StorageStep ==
  ASSUME Storage, Views, [Next]_vars
  PROVE  Storage'
<1>1. ASSUME NEW s \in Players, Login(s) PROVE Storage'
  BY <1>1 DEF Storage, store, history, Login, Gone
<1>2. ASSUME NEW s \in Players, OnLeave(s) PROVE Storage'
  BY <1>2 DEF Storage, store, history, OnLeave, Gone
<1>3. ASSUME NEW s \in Players, Close(s) PROVE Storage'
  BY <1>3 DEF Storage, store, history, Close, Gone
<1>4. ASSUME NEW s \in Players, Open(s) PROVE Storage'
  <2>. DEFINE p == asked[s]
              fresh == boxes[p] = None
              b == IF fresh THEN made + 1 ELSE boxes[p]
  <2>1. p \in Places
    BY <1>4 DEF Open, Views
  <2>2. made \in 0 .. MaxBoxes /\ boxes[p] \in 0 .. made
    BY <2>1 DEF Storage
  <2>3. /\ boxes' = [boxes EXCEPT ![p] = b]
        /\ UNCHANGED <<block, posts>>
        /\ ghosts' \subseteq ghosts \cup {p}
    BY <1>4 DEF Open
  <2>4. CASE fresh
    <3>1. /\ b = made + 1 /\ made < MaxBoxes /\ made' = b
          /\ slots' = [slots EXCEPT ![b] = Stock[p]]
      BY <1>4, <2>4 DEF Open
    <3>2. made' \in 0 .. MaxBoxes /\ \A x \in 0 .. made : x \in 0 .. made'
      BY <2>2, <3>1, CapsNat
    <3>3. boxes' \in [Places -> 0 .. made']
      <4>1. b \in 0 .. made'
        BY <2>2, <3>1
      <4>. HIDE DEF b
      <4>. QED
        BY <2>3, <3>2, <4>1 DEF Storage
    <3>4. Stock[p] \in 0 .. BoxCap
      BY <2>1, WindowsAssumption
    <3>5. slots' \in [Boxes -> 0 .. BoxCap]
      BY <3>1, <3>4 DEF Storage
    <3>. QED
      BY <2>1, <2>3, <3>2, <3>3, <3>5 DEF Storage
  <2>5. CASE ~fresh
    <3>1. b = boxes[p] /\ UNCHANGED <<made, slots>>
      BY <1>4, <2>5 DEF Open
    <3>2. boxes' \in [Places -> 0 .. made']
      BY <2>2, <2>3, <3>1 DEF Storage
    <3>. QED
      BY <2>1, <2>3, <3>1, <3>2 DEF Storage
  <2>. QED
    BY <2>4, <2>5
<1>5. ASSUME NEW s \in Players, Click(s) PROVE Storage'
  <2>1. PICK i \in 0 .. InvCap, d \in 0 .. SideCap(s), c \in 0 .. HandCap :
           slots' = IF win[s].at = "none" THEN slots
                    ELSE [slots EXCEPT ![Behind(s)] = d]
    BY <1>5 DEF Click
  <2>2. UNCHANGED <<block, posts, boxes, made, ghosts>>
    BY <1>5 DEF Click
  <2>3. win[s].at # "none" => d \in 0 .. BoxCap
    BY DEF SideCap
  <2>4. slots' \in [Boxes -> 0 .. BoxCap]
    BY <2>1, <2>3 DEF Storage
  <2>. QED
    BY <2>2, <2>4 DEF Storage
<1>6. ASSUME NEW s \in Players, BeginHandover(s) PROVE Storage'
  BY <1>6 DEF Storage, store, history, BeginHandover, Gone
<1>7. ASSUME NEW s \in Players, FinishHandover(s) PROVE Storage'
  BY <1>7 DEF Storage, store, history, FinishHandover, Gone
<1>8. ASSUME NEW s \in Players, RefuseHandover(s) PROVE Storage'
  BY <1>8 DEF Storage, store, history, RefuseHandover, Gone
<1>9. ASSUME NEW s \in Players, PickUp(s) PROVE Storage'
  BY <1>9 DEF Storage, store, history, PickUp, Gone
<1>10. ASSUME NEW s \in Players, Toss(s) PROVE Storage'
  BY <1>10 DEF Storage, store, history, Toss, Gone
<1>11. ASSUME NEW s \in Players, Die(s) PROVE Storage'
  BY <1>11 DEF Storage, store, history, Die, Gone
<1>12. ASSUME NEW s \in Players, NEW p \in Places, Ask(s, p) PROVE Storage'
  BY <1>12 DEF Storage, store, history, Ask, Gone
<1>13. ASSUME NEW p \in Places, Dig(p) PROVE Storage'
  <2>1. [at |-> p, stands |-> FALSE] \in [at : Places, stands : BOOLEAN]
    OBVIOUS
  <2>2. /\ posts' \in Seq([at : Places, stands : BOOLEAN])
        /\ Len(posts') <= MaxPosts
    BY <1>13, <2>1, CapsNat DEF Dig, CanPost, Storage
  <2>3. block' \in [Places -> BOOLEAN]
    BY <1>13 DEF Dig, Storage
  <2>. QED
    BY <1>13, <2>2, <2>3 DEF Dig, Storage, history
<1>14. ASSUME NEW p \in Places, Place(p) PROVE Storage'
  <2>1. [at |-> p, stands |-> TRUE] \in [at : Places, stands : BOOLEAN]
    OBVIOUS
  <2>2. /\ posts' \in Seq([at : Places, stands : BOOLEAN])
        /\ Len(posts') <= MaxPosts
    BY <1>14, <2>1, CapsNat DEF Place, CanPost, Storage
  <2>3. block' \in [Places -> BOOLEAN]
    BY <1>14 DEF Place, Storage
  <2>. QED
    BY <1>14, <2>2, <2>3 DEF Place, Storage, history
<1>15. ASSUME NEW p \in Places, SimBreak(p) PROVE Storage'
  <2>1. boxes' = [boxes EXCEPT ![p] = 0] /\ ghosts' \subseteq ghosts
    BY <1>15 DEF SimBreak, Spilt, Forgotten, None
  <2>2. boxes' \in [Places -> 0 .. made]
    BY <2>1 DEF Storage
  <2>3. block' \in [Places -> BOOLEAN]
    BY <1>15 DEF SimBreak, Storage
  <2>. QED
    BY <1>15, <2>1, <2>2, <2>3 DEF SimBreak, Storage
<1>16. CASE OnBlock
  <2>1. posts # <<>> /\ posts' = Tail(posts)
    BY <1>16 DEF OnBlock
  <2>0. posts \in Seq([at : Places, stands : BOOLEAN]) /\ Len(posts) <= MaxPosts
    BY DEF Storage
  <2>2. posts' \in Seq([at : Places, stands : BOOLEAN]) /\ Len(posts') <= MaxPosts
    <3>1. /\ Tail(posts) \in Seq([at : Places, stands : BOOLEAN])
          /\ Len(Tail(posts)) = Len(posts) - 1 /\ Len(posts) \in Nat
      BY <2>0, <2>1, TailMember
    <3>. QED
      BY <2>0, <2>1, <3>1, CapsNat
  <2>3. \/ boxes' = boxes /\ ghosts' = ghosts
        \/ \E p : boxes' = [boxes EXCEPT ![p] = 0] /\ ghosts' \subseteq ghosts
    BY <1>16 DEF OnBlock, Spilt, Forgotten, None
  <2>4. boxes' \in [Places -> 0 .. made] /\ ghosts' \subseteq Places
    <3>1. CASE boxes' = boxes /\ ghosts' = ghosts
      BY <3>1 DEF Storage
    <3>2. ASSUME NEW p, boxes' = [boxes EXCEPT ![p] = 0], ghosts' \subseteq ghosts
          PROVE  boxes' \in [Places -> 0 .. made] /\ ghosts' \subseteq Places
      <4>1. 0 \in 0 .. made
        BY DEF Storage
      <4>. QED
        BY <3>2, <4>1 DEF Storage
    <3>. QED
      BY <2>3, <3>1, <3>2
  <2>. QED
    BY <1>16, <2>2, <2>4 DEF OnBlock, Storage
<1>17. CASE Tick
  BY <1>17 DEF Storage, store, history, Tick, Gone
<1>18. CASE UNCHANGED vars
  BY <1>18 DEF vars, store, held, away, history, Storage
<1>19. ASSUME NEW s \in Players, BlankClick(s) PROVE Storage'
  BY <1>19 DEF Storage, store, BlankClick
<1>. QED
  BY <1>1, <1>2, <1>3, <1>4, <1>5, <1>6, <1>7, <1>8, <1>9, <1>10, <1>11,
     <1>12, <1>13, <1>14, <1>15, <1>16, <1>17, <1>18, <1>19 DEF Next, WorldStep,
     PlayerStep

\* Who is gone has no window, no request and no crossing.
LEMMA GoneViews ==
  ASSUME Storage, Views, NEW s \in Players, Gone(s), made' = made,
         abroad' \in [Players -> -1 .. InvCap]
  PROVE  Views'
<1>0. 0 \in 0 .. made
  BY DEF Storage
<1>1. -1 \in -1 .. InvCap
  BY CapsNat
<1>2. crossing' \in [Players -> -1 .. InvCap]
  BY <1>1 DEF Gone, Views, NoCrossing
<1>3. NoWindow \in [at : Places \cup {"none"}, box : 0 .. made]
  BY <1>0 DEF NoWindow, None
<1>4. win' \in [Players -> [at : Places \cup {"none"}, box : 0 .. made']]
  BY <1>3 DEF Gone, Views
<1>. QED
  BY <1>2, <1>4 DEF Gone, Views

\* Closing puts away windows and nothing else.
LEMMA CloseForViews ==
  ASSUME Storage, Views, NEW S, CloseFor(S),
         UNCHANGED <<here, asked, crossing, abroad, made>>
  PROVE  Views'
<1>1. 0 \in 0 .. made
  BY DEF Storage
<1>2. NoWindow \in [at : Places \cup {"none"}, box : 0 .. made]
  BY <1>1 DEF NoWindow, None
<1>3. win' \in [Players -> [at : Places \cup {"none"}, box : 0 .. made']]
  BY <1>2 DEF CloseFor, Views
<1>. QED
  BY <1>3 DEF Views

\* A window only names a place, and a storage that was made.
LEMMA ViewsStep ==
  ASSUME Pockets, Storage, Views, [Next]_vars
  PROVE  Views'
<1>1. ASSUME NEW s \in Players, Login(s) PROVE Views'
  BY <1>1 DEF Views, store, away, Login
<1>2. ASSUME NEW s \in Players, OnLeave(s) PROVE Views'
  <2>1. Gone(s) /\ UNCHANGED <<made, abroad>>
    BY <1>2 DEF OnLeave, store
  <2>2. abroad' \in [Players -> -1 .. InvCap]
    BY <2>1 DEF Views
  <2>. QED
    BY <1>2, <2>1, <2>2, GoneViews
<1>3. ASSUME NEW s \in Players, Close(s) PROVE Views'
  <2>1. CloseFor({s}) /\ UNCHANGED <<here, asked, crossing, abroad, made>>
    BY <1>3 DEF Close, away, store
  <2>. QED
    BY <2>1, CloseForViews
<1>4. ASSUME NEW s \in Players, Open(s) PROVE Views'
  <2>. DEFINE p == asked[s]
              b == IF boxes[p] = None THEN made + 1 ELSE boxes[p]
  <2>1. p \in Places
    BY <1>4 DEF Open, Views
  <2>2. made \in Nat /\ boxes[p] \in 0 .. made
    BY <2>1 DEF Storage
  <2>3. /\ asked' = [asked EXCEPT ![s] = "none"]
        /\ win' = [win EXCEPT ![s] = [at |-> p, box |-> IF p \in Chests THEN b ELSE None]]
        /\ UNCHANGED <<here, crossing, abroad>>
    BY <1>4 DEF Open, away
  <2>4. b \in 0 .. made' /\ made' \in Nat /\ made <= made'
    BY <1>4, <2>2 DEF Open
  <2>. HIDE DEF p, b
  <2>5. \A x \in 0 .. made : x \in 0 .. made'
    BY <2>2, <2>4
  <2>6. [at |-> p, box |-> IF p \in Chests THEN b ELSE None]
            \in [at : Places \cup {"none"}, box : 0 .. made']
    BY <2>1, <2>4 DEF None
  <2>7. \A w \in [at : Places \cup {"none"}, box : 0 .. made] :
            w \in [at : Places \cup {"none"}, box : 0 .. made']
    BY <2>5
  <2>8. win' \in [Players -> [at : Places \cup {"none"}, box : 0 .. made']]
    BY <2>3, <2>6, <2>7 DEF Views
  <2>9. asked' \in [Players -> Places \cup {"none"}]
    BY <2>3 DEF Views
  <2>. QED
    BY <2>3, <2>8, <2>9 DEF Views
<1>5. ASSUME NEW s \in Players, Click(s) PROVE Views'
  BY <1>5 DEF Views, store, away, Click
<1>6. ASSUME NEW s \in Players, BeginHandover(s) PROVE Views'
  <2>1. crossing' = [crossing EXCEPT ![s] = inv[s]]
    BY <1>6 DEF BeginHandover
  <2>2. inv[s] \in -1 .. InvCap
    BY CapsNat DEF Pockets
  <2>3. crossing' \in [Players -> -1 .. InvCap]
    BY <2>1, <2>2 DEF Views
  <2>. QED
    BY <1>6, <2>3 DEF BeginHandover, Views, store
<1>7. ASSUME NEW s \in Players, FinishHandover(s) PROVE Views'
  <2>1. Gone(s) /\ abroad' = [abroad EXCEPT ![s] = crossing[s]] /\ made' = made
    BY <1>7 DEF FinishHandover, store
  <2>2. abroad' \in [Players -> -1 .. InvCap]
    BY <2>1 DEF Views
  <2>. QED
    BY <1>7, <2>1, <2>2, GoneViews
<1>8. ASSUME NEW s \in Players, RefuseHandover(s) PROVE Views'
  <2>1. crossing' = [crossing EXCEPT ![s] = -1]
    BY <1>8 DEF RefuseHandover, NoCrossing
  <2>2. -1 \in -1 .. InvCap
    BY CapsNat
  <2>3. crossing' \in [Players -> -1 .. InvCap]
    BY <2>1, <2>2 DEF Views
  <2>. QED
    BY <1>8, <2>3 DEF RefuseHandover, Views, store
<1>9. ASSUME NEW s \in Players, PickUp(s) PROVE Views'
  BY <1>9 DEF Views, store, away, PickUp
<1>10. ASSUME NEW s \in Players, Toss(s) PROVE Views'
  BY <1>10 DEF Views, store, away, Toss
<1>11. ASSUME NEW s \in Players, Die(s) PROVE Views'
  BY <1>11 DEF Views, store, away, Die
<1>12. ASSUME NEW s \in Players, NEW p \in Places, Ask(s, p) PROVE Views'
  BY <1>12 DEF Views, store, away, Ask
<1>13. ASSUME NEW p \in Places, Dig(p) PROVE Views'
  BY <1>13 DEF Views, store, away, Dig
<1>14. ASSUME NEW p \in Places, Place(p) PROVE Views'
  BY <1>14 DEF Views, store, away, Place
<1>15. ASSUME NEW p \in Places, SimBreak(p) PROVE Views'
  BY <1>15 DEF Views, store, away, SimBreak
<1>16. CASE OnBlock
  BY <1>16 DEF Views, store, away, OnBlock
<1>17. CASE Tick
  <2>1. \E S : CloseFor(S) /\ UNCHANGED <<here, asked, crossing, abroad, made>>
    BY <1>17 DEF Tick, away, store
  <2>. QED
    BY <2>1, CloseForViews
<1>18. CASE UNCHANGED vars
  BY <1>18 DEF vars, store, held, away, history, Views
<1>19. ASSUME NEW s \in Players, BlankClick(s) PROVE Views'
  BY <1>19 DEF Views, store, away, BlankClick
<1>. QED
  BY <1>1, <1>2, <1>3, <1>4, <1>5, <1>6, <1>7, <1>8, <1>9, <1>10, <1>11,
     <1>12, <1>13, <1>14, <1>15, <1>16, <1>17, <1>18, <1>19 DEF Next, WorldStep,
     PlayerStep

\* What the side of a window holds is a number.
LEMMA SideNat ==
  ASSUME Pockets, Storage, Views, NEW s \in Players, ~Blank(s)
  PROVE  /\ Side(s) \in Nat /\ Before(s) \in Nat
         /\ win[s].at # "none" => Behind(s) \in Boxes
<1>1. win[s] \in [at : Places \cup {"none"}, box : 0 .. made]
  BY DEF Views
<1>2. made \in 0 .. MaxBoxes /\ \A p \in Places : boxes[p] \in 0 .. made
  BY DEF Storage
<1>3. Behind(s) \in 0 .. MaxBoxes
  BY <1>1, <1>2, CapsNat DEF Behind, None, Places
<1>4. win[s].at # "none" => Behind(s) \in Boxes
  BY <1>3, CapsNat DEF Blank, None, Boxes
<1>5. \A b \in Boxes : slots[b] \in Nat
  BY CapsNat DEF Storage
<1>6. inv[s] \in Nat /\ grid[s] \in Nat /\ hand[s] \in Nat
  BY CapsNat DEF Pockets
<1>7. Side(s) \in Nat
  BY <1>4, <1>5, <1>6 DEF Side
<1>. QED
  BY <1>4, <1>6, <1>7 DEF Before

\* What a named storage holds is a number.
LEMMA ContentNat ==
  ASSUME Storage, NEW p \in Places
  PROVE  /\ boxes[p] \in 0 .. made /\ made \in 0 .. MaxBoxes
         /\ boxes[p] # None => boxes[p] \in Boxes /\ slots[boxes[p]] \in 0 .. BoxCap
                               /\ slots[boxes[p]] \in Nat
<1>1. boxes[p] \in 0 .. made /\ made \in 0 .. MaxBoxes
  BY DEF Storage
<1>2. boxes[p] # None => boxes[p] \in Boxes
  BY <1>1, CapsNat DEF None, Boxes
<1>. QED
  BY <1>1, <1>2, CapsNat DEF Storage

LEMMA HeadMember ==
  ASSUME NEW S, NEW q \in Seq(S), q # <<>>
  PROVE  Head(q) \in S
  OBVIOUS

\* A posted change is of a place.
LEMMA HeadPlace ==
  ASSUME Storage, posts # <<>>
  PROVE  Head(posts).at \in Places
<1>0. posts \in Seq([at : Places, stands : BOOLEAN])
  BY DEF Storage
<1>1. Head(posts) \in [at : Places, stands : BOOLEAN]
  BY <1>0, HeadMember
<1>. QED
  BY <1>1

\* What lies about is a number.
LEMMA BooksStep ==
  ASSUME Pockets, Storage, Views, Books, [Next]_vars
  PROVE  Books'
<1>1. ASSUME NEW s \in Players, Login(s) PROVE Books'
  BY <1>1 DEF Books, history, Login
<1>2. ASSUME NEW s \in Players, OnLeave(s) PROVE Books'
  <2>1. Dropped(s) \in 0 .. GridCap + HandCap
    BY <1>2, FoldedFacts
  <2>2. ground' = ground + Dropped(s) /\ UNCHANGED <<supplied, stale, torn, swallowed>>
    BY <1>2 DEF OnLeave, history
  <2>. QED
    BY <2>1, <2>2, CapsNat DEF Books
<1>3. ASSUME NEW s \in Players, Close(s) PROVE Books'
  <2>1. {s} \in SUBSET Players /\ CloseFor({s}) /\ UNCHANGED <<supplied, stale, torn, swallowed>>
    BY <1>3 DEF Close, history
  <2>2. ground' \in Nat
    BY <2>1, CloseForFacts DEF Books
  <2>. QED
    BY <2>1, <2>2 DEF Books
<1>4. ASSUME NEW s \in Players, Open(s) PROVE Books'
  <2>1. asked[s] \in Places
    BY <1>4 DEF Open, Views
  <2>2. Stock[asked[s]] \in Nat
    BY <2>1, WindowsAssumption, CapsNat
  <2>3. supplied' = supplied + Stock[asked[s]] \/ supplied' = supplied
    BY <1>4 DEF Open
  <2>. QED
    BY <1>4, <2>2, <2>3 DEF Books, Open
<1>5. ASSUME NEW s \in Players, Click(s) PROVE Books'
  <2>1. PICK i \in 0 .. InvCap, d \in 0 .. SideCap(s), c \in 0 .. HandCap :
           /\ ground' = ground + Thrown(Before(s), c + i + d)
           /\ stale' = (stale \/ (Forsaken(s) /\ d # Side(s)))
    BY <1>5 DEF Click
  <2>2. SideCap(s) \in Nat
    BY CapsNat DEF SideCap
  <2>3. Before(s) \in Nat /\ c + i + d \in Nat
    BY <1>5, <2>2, SideNat, CapsNat DEF Click
  <2>4. Thrown(Before(s), c + i + d) \in Nat
    BY <2>3 DEF Thrown
  <2>5. ground' \in Nat
    BY <2>1, <2>4 DEF Books
  <2>6. stale' \in BOOLEAN
    BY <2>1, Zenon DEF Books
  <2>. QED
    BY <1>5, <2>5, <2>6 DEF Click, Books
<1>6. ASSUME NEW s \in Players, BeginHandover(s) PROVE Books'
  BY <1>6 DEF Books, history, BeginHandover
<1>7. ASSUME NEW s \in Players, FinishHandover(s) PROVE Books'
  <2>1. torn' = (torn \/ crossing[s] # inv[s] + grid[s] + hand[s])
    BY <1>7 DEF FinishHandover
  <2>2. torn' \in BOOLEAN
    BY <2>1, Zenon DEF Books
  <2>. QED
    BY <1>7, <2>2 DEF FinishHandover, Books
<1>8. ASSUME NEW s \in Players, RefuseHandover(s) PROVE Books'
  BY <1>8 DEF Books, history, RefuseHandover
<1>9. ASSUME NEW s \in Players, PickUp(s) PROVE Books'
  <2>1. PICK n \in 1 .. Least(ground, Room(s)) : ground' = ground - n
    BY <1>9 DEF PickUp
  <2>2. inv[s] \in 0 .. InvCap
    BY DEF Pockets
  <2>3. ground' \in Nat
    BY <2>1, <2>2, CapsNat DEF Least, Room, Books
  <2>. QED
    BY <1>9, <2>3 DEF PickUp, Books, history
<1>10. ASSUME NEW s \in Players, Toss(s) PROVE Books'
  <2>1. inv[s] \in 0 .. InvCap
    BY DEF Pockets
  <2>2. PICK n \in 1 .. inv[s] : ground' = ground + n
    BY <1>10 DEF Toss
  <2>3. ground' \in Nat
    BY <2>1, <2>2, CapsNat DEF Books
  <2>. QED
    BY <1>10, <2>3 DEF Toss, Books, history
<1>11. ASSUME NEW s \in Players, Die(s) PROVE Books'
  <2>1. inv[s] \in Nat /\ grid[s] \in Nat /\ hand[s] \in Nat
    BY CapsNat DEF Pockets
  <2>2. ground' \in Nat
    BY <1>11, <2>1 DEF Die, Books
  <2>. QED
    BY <1>11, <2>2 DEF Die, Books, history
<1>12. ASSUME NEW s \in Players, NEW p \in Places, Ask(s, p) PROVE Books'
  BY <1>12 DEF Books, history, Ask
<1>13. ASSUME NEW p \in Places, Dig(p) PROVE Books'
  BY <1>13 DEF Books, history, Dig
<1>14. ASSUME NEW p \in Places, Place(p) PROVE Books'
  BY <1>14 DEF Books, history, Place
<1>15. ASSUME NEW p \in Places, SimBreak(p) PROVE Books'
  <2>1. ground' = ground \/ (boxes[p] # None /\ ground' = ground + slots[boxes[p]])
    BY <1>15 DEF SimBreak, Spilt, Books
  <2>2. boxes[p] # None => slots[boxes[p]] \in Nat
    BY ContentNat
  <2>. QED
    BY <1>15, <2>1, <2>2 DEF SimBreak, Books
<1>16. CASE OnBlock
  <2>1. Head(posts).at \in Places
    BY <1>16, HeadPlace DEF OnBlock
  <2>2. PICK p \in Places : \/ ground' = ground
                            \/ boxes[p] # None /\ ground' = ground + slots[boxes[p]]
    BY <1>16, <2>1 DEF OnBlock, Spilt, Books
  <2>3. boxes[p] # None => slots[boxes[p]] \in Nat
    BY ContentNat
  <2>. QED
    BY <1>16, <2>2, <2>3 DEF OnBlock, Books
<1>17. CASE Tick
  <2>1. PICK far \in SUBSET Viewers :
           CloseFor(far \cup {s \in Viewers : ~MenuBlockPresent(s)})
    BY <1>17 DEF Tick
  <2>2. UNCHANGED <<supplied, stale, torn, swallowed>>
    BY <1>17 DEF Tick, history
  <2>3. far \cup {s \in Viewers : ~MenuBlockPresent(s)} \in SUBSET Players
    BY DEF Viewers, Views
  <2>4. ground' \in Nat
    BY <2>1, <2>3, CloseForFacts DEF Books
  <2>. QED
    BY <2>2, <2>4 DEF Books
<1>18. CASE UNCHANGED vars
  BY <1>18 DEF vars, store, held, away, history, Books
<1>19. ASSUME NEW s \in Players, BlankClick(s) PROVE Books'
  <2>1. PICK d \in 0 .. InvCap + BoxCap, c \in 0 .. HandCap :
           /\ c <= hand[s]
           /\ ground' = ground + Thrown(hand[s], c + d)
           /\ swallowed' = swallowed + (hand[s] - c - Thrown(hand[s], c + d))
    BY <1>19 DEF BlankClick, NoGain
  <2>2. d \in Nat /\ c \in Nat /\ hand[s] \in Nat
    BY CapsNat DEF Pockets
  <2>3. Thrown(hand[s], c + d) \in Nat /\ Thrown(hand[s], c + d) <= hand[s] - c
    BY <2>1, <2>2 DEF Thrown
  <2>4. ground' \in Nat /\ swallowed' \in Nat
    BY <2>1, <2>2, <2>3 DEF Books
  <2>. QED
    BY <1>19, <2>4 DEF BlankClick, Books
<1>. QED
  BY <1>1, <1>2, <1>3, <1>4, <1>5, <1>6, <1>7, <1>8, <1>9, <1>10, <1>11,
     <1>12, <1>13, <1>14, <1>15, <1>16, <1>17, <1>18, <1>19 DEF Next, WorldStep,
     PlayerStep

-----------------------------------------------------------------------------
(* Type correctness. *)

\* No place starts with more than it has room for.
LEMMA TypeInit == Init => TypeOK
<1>. SUFFICES ASSUME Init PROVE TypeOK
  OBVIOUS
<1>1. Pockets
  BY WindowsAssumption, CapsNat DEF Init, Pockets
<1>2. Storage
  <2>1. posts \in Seq([at : Places, stands : BOOLEAN]) /\ Len(posts) <= MaxPosts
    <3>1. posts = <<>>
      BY DEF Init
    <3>. QED
      BY <3>1, CapsNat
  <2>. QED
    BY <2>1, CapsNat DEF Init, Storage, None, Boxes
<1>3. Views
  BY CapsNat DEF Init, Views, NoWindow, None, NoCrossing, NotAbroad
<1>4. Books
  <2>1. IsFiniteSet(Players) /\ \A s \in Players : Start[s] \in Int /\ Start[s] <= InvCap
    BY WindowsAssumption, CapsNat
  <2>2. Total(Start, Players) \in Nat
    BY <2>1, PileFinite, CapsNat
  <2>. QED
    BY <2>2 DEF Init, Books
<1>. QED
  BY <1>1, <1>2, <1>3, <1>4, TypeParts

\* No step overfills a place.
LEMMA TypeStep ==
  ASSUME TypeOK, [Next]_vars
  PROVE  TypeOK'
<1>1. Pockets /\ Storage /\ Views /\ Books
  BY TypeParts
<1>2. Pockets' /\ Storage' /\ Views' /\ Books'
  BY <1>1, PocketsStep, StorageStep, ViewsStep, BooksStep
<1>. QED
  BY <1>2 DEF TypeOK, Pockets, Storage, Views, Books

\* No inventory, grid, cursor or container ever holds more than it has room
\* for, whatever a click declares or a screen gives back (handleClick,
\* reclaimCraft, pickupItems), and every window and every place name storages
\* that were made.
THEOREM TypeAlways == Spec => []TypeOK
<1>1. Init => TypeOK
  BY TypeInit
<1>2. TypeOK /\ [Next]_vars => TypeOK'
  BY TypeStep
<1>. QED
  BY <1>1, <1>2, PTL DEF Spec

-----------------------------------------------------------------------------
(* Nothing is buried. *)

\* Wherever something is stored a container stands, or its breaking is still
\* posted, or the place was opened too late.
Reached ==
  \A p \in Places : boxes[p] # None =>
     p \in ghosts \/ block[p] \/ \E i \in DOMAIN posts : posts[i] = [at |-> p, stands |-> FALSE]

\* A posted change stays posted until it is the hub's turn to handle it.
LEMMA TailKeeps ==
  ASSUME NEW S, NEW q \in Seq(S), q # <<>>, NEW i \in DOMAIN q, q[i] # Head(q)
  PROVE  \E j \in DOMAIN Tail(q) : Tail(q)[j] = q[i]
<1>1. i \in 1 .. Len(q) /\ Len(q) \in Nat /\ i # 1
  OBVIOUS
<1>2. Len(Tail(q)) = Len(q) - 1
  OBVIOUS
<1>3. i - 1 \in DOMAIN Tail(q) /\ Tail(q)[i - 1] = q[i]
  BY <1>1, <1>2
<1>. QED
  BY <1>3

LEMMA AppendKeeps ==
  ASSUME NEW S, NEW q \in Seq(S), NEW e
  PROVE  /\ \A i \in DOMAIN q : i \in DOMAIN Append(q, e) /\ Append(q, e)[i] = q[i]
         /\ \E i \in DOMAIN Append(q, e) : Append(q, e)[i] = e
<1>1. Len(Append(q, e)) = Len(q) + 1 /\ Append(q, e)[Len(q) + 1] = e
  OBVIOUS
<1>2. Len(q) + 1 \in DOMAIN Append(q, e)
  BY <1>1
<1>. QED
  BY <1>1, <1>2

\* Steps leave nothing behind that nobody comes for.
LEMMA ReachedStep ==
  ASSUME TypeOK, Reached, [Next]_vars
  PROVE  Reached'
<1>1. ASSUME NEW s \in Players, Login(s) PROVE Reached'
  BY <1>1 DEF Reached, store, history, Login
<1>2. ASSUME NEW s \in Players, OnLeave(s) PROVE Reached'
  BY <1>2 DEF Reached, store, history, OnLeave
<1>3. ASSUME NEW s \in Players, Close(s) PROVE Reached'
  BY <1>3 DEF Reached, store, history, Close
<1>4. ASSUME NEW s \in Players, Open(s) PROVE Reached'
  <2>1. /\ boxes' = [boxes EXCEPT ![asked[s]] = boxes'[asked[s]]]
        /\ ghosts' = IF block[asked[s]] THEN ghosts ELSE ghosts \cup {asked[s]}
        /\ UNCHANGED <<block, posts>>
    BY <1>4 DEF Open, TypeOK
  <2>2. boxes \in [Places -> 0 .. made]
    BY DEF TypeOK
  <2>. SUFFICES ASSUME NEW q \in Places, boxes'[q] # None
                PROVE  q \in ghosts' \/ block'[q]
                       \/ \E i \in DOMAIN posts' : posts'[i] = [at |-> q, stands |-> FALSE]
    BY DEF Reached
  <2>3. CASE q = asked[s]
    BY <2>1, <2>3
  <2>4. CASE q # asked[s]
    <3>1. boxes'[q] = boxes[q] /\ ghosts \subseteq ghosts'
      BY <2>1, <2>2, <2>4
    <3>. QED
      BY <2>1, <3>1 DEF Reached
  <2>. QED
    BY <2>3, <2>4
<1>5. ASSUME NEW s \in Players, Click(s) PROVE Reached'
  BY <1>5 DEF Reached, store, history, Click
<1>6. ASSUME NEW s \in Players, BeginHandover(s) PROVE Reached'
  BY <1>6 DEF Reached, store, history, BeginHandover
<1>7. ASSUME NEW s \in Players, FinishHandover(s) PROVE Reached'
  BY <1>7 DEF Reached, store, history, FinishHandover
<1>8. ASSUME NEW s \in Players, RefuseHandover(s) PROVE Reached'
  BY <1>8 DEF Reached, store, history, RefuseHandover
<1>9. ASSUME NEW s \in Players, PickUp(s) PROVE Reached'
  BY <1>9 DEF Reached, store, history, PickUp
<1>10. ASSUME NEW s \in Players, Toss(s) PROVE Reached'
  BY <1>10 DEF Reached, store, history, Toss
<1>11. ASSUME NEW s \in Players, Die(s) PROVE Reached'
  BY <1>11 DEF Reached, store, history, Die
<1>12. ASSUME NEW s \in Players, NEW p \in Places, Ask(s, p) PROVE Reached'
  BY <1>12 DEF Reached, store, history, Ask
<1>13. ASSUME NEW p \in Places, Dig(p) PROVE Reached'
  <2>1. /\ posts' = Append(posts, [at |-> p, stands |-> FALSE])
        /\ block' = [block EXCEPT ![p] = FALSE] /\ UNCHANGED <<boxes, ghosts>>
    BY <1>13 DEF Dig, history
  <2>2. posts \in Seq([at : Places, stands : BOOLEAN]) /\ block \in [Places -> BOOLEAN]
    BY DEF TypeOK
  <2>3. /\ \A i \in DOMAIN posts : i \in DOMAIN posts' /\ posts'[i] = posts[i]
        /\ \E i \in DOMAIN posts' : posts'[i] = [at |-> p, stands |-> FALSE]
    BY <2>1, <2>2, AppendKeeps
  <2>4. \A q \in Places : block'[q] = block[q] \/ q = p
    BY <2>1, <2>2
  <2>. QED
    BY <2>1, <2>3, <2>4, Zenon DEF Reached
<1>14. ASSUME NEW p \in Places, Place(p) PROVE Reached'
  <2>1. /\ posts' = Append(posts, [at |-> p, stands |-> TRUE])
        /\ block' = [block EXCEPT ![p] = TRUE] /\ UNCHANGED <<boxes, ghosts>>
    BY <1>14 DEF Place, history
  <2>2. posts \in Seq([at : Places, stands : BOOLEAN]) /\ block \in [Places -> BOOLEAN]
    BY DEF TypeOK
  <2>3. \A i \in DOMAIN posts : i \in DOMAIN posts' /\ posts'[i] = posts[i]
    BY <2>1, <2>2, AppendKeeps
  <2>4. \A q \in Places : block[q] => block'[q]
    BY <2>1, <2>2
  <2>. QED
    BY <2>1, <2>3, <2>4, Zenon DEF Reached
<1>15. ASSUME NEW p \in Places, SimBreak(p) PROVE Reached'
  <2>1. /\ boxes' = [boxes EXCEPT ![p] = None] /\ ghosts' = ghosts \ {p}
        /\ block' = [block EXCEPT ![p] = FALSE] /\ UNCHANGED posts
    BY <1>15 DEF SimBreak, Spilt, Forgotten
  <2>2. block \in [Places -> BOOLEAN] /\ boxes \in [Places -> 0 .. made]
    BY DEF TypeOK
  <2>3. boxes'[p] = None
    BY <2>1, <2>2
  <2>4. \A q \in Places \ {p} :
           /\ boxes'[q] = boxes[q] /\ block'[q] = block[q]
           /\ q \in ghosts => q \in ghosts'
    BY <2>1, <2>2
  <2>. QED
    BY <2>1, <2>3, <2>4 DEF Reached
<1>16. CASE OnBlock
  <2>. DEFINE e == Head(posts)
  <2>1. posts # <<>> /\ posts' = Tail(posts) /\ block' = block
    BY <1>16 DEF OnBlock
  <2>2. posts \in Seq([at : Places, stands : BOOLEAN]) /\ boxes \in [Places -> 0 .. made]
    BY DEF TypeOK
  <2>3. \A i \in DOMAIN posts : posts[i] = e \/ \E j \in DOMAIN posts' : posts'[j] = posts[i]
    BY <2>1, <2>2, TailKeeps
  <2>4. CASE e.stands
    <3>1. UNCHANGED <<boxes, ghosts>>
      BY <1>16, <2>4 DEF OnBlock
    <3>2. \A q : e # [at |-> q, stands |-> FALSE]
      BY <2>4
    <3>. HIDE DEF e
    <3>. SUFFICES ASSUME NEW q \in Places, boxes'[q] # None
                  PROVE  q \in ghosts' \/ block'[q]
                         \/ \E i \in DOMAIN posts' : posts'[i] = [at |-> q, stands |-> FALSE]
      BY DEF Reached
    <3>3. \/ q \in ghosts \/ block[q]
          \/ \E i \in DOMAIN posts : posts[i] = [at |-> q, stands |-> FALSE]
      BY <3>1 DEF Reached
    <3>4. (\E i \in DOMAIN posts : posts[i] = [at |-> q, stands |-> FALSE])
             => \E i \in DOMAIN posts' : posts'[i] = [at |-> q, stands |-> FALSE]
      BY <2>3, <3>2, Zenon
    <3>. QED
      BY <2>1, <3>1, <3>3, <3>4
  <2>5. CASE ~e.stands
    <3>1. boxes' = [boxes EXCEPT ![e.at] = None] /\ ghosts' = ghosts \ {e.at}
      BY <1>16, <2>5 DEF OnBlock, Spilt, Forgotten
    <3>2. \A q : e = [at |-> q, stands |-> FALSE] => q = e.at
      OBVIOUS
    <3>3. \A q \in Places : boxes'[q] = IF q = e.at THEN None ELSE boxes[q]
      BY <2>2, <3>1
    <3>4. \A q \in Places \ {e.at} : q \in ghosts => q \in ghosts'
      BY <3>1
    <3>. HIDE DEF e
    <3>. SUFFICES ASSUME NEW q \in Places, boxes'[q] # None
                  PROVE  q \in ghosts' \/ block'[q]
                         \/ \E i \in DOMAIN posts' : posts'[i] = [at |-> q, stands |-> FALSE]
      BY DEF Reached
    <3>5. q # e.at /\ boxes[q] # None
      BY <3>3
    <3>6. \/ q \in ghosts \/ block[q]
          \/ \E i \in DOMAIN posts : posts[i] = [at |-> q, stands |-> FALSE]
      BY <3>5 DEF Reached
    <3>7. (\E i \in DOMAIN posts : posts[i] = [at |-> q, stands |-> FALSE])
             => \E i \in DOMAIN posts' : posts'[i] = [at |-> q, stands |-> FALSE]
      BY <2>3, <3>2, <3>5, Zenon
    <3>. QED
      BY <2>1, <3>4, <3>5, <3>6, <3>7
  <2>. QED
    BY <2>4, <2>5
<1>17. CASE Tick
  BY <1>17 DEF Reached, store, history, Tick
<1>18. CASE UNCHANGED vars
  BY <1>18 DEF vars, store, held, away, history, Reached
<1>19. ASSUME NEW s \in Players, BlankClick(s) PROVE Reached'
  BY <1>19 DEF Reached, store, BlankClick
<1>. QED
  BY <1>1, <1>2, <1>3, <1>4, <1>5, <1>6, <1>7, <1>8, <1>9, <1>10, <1>11,
     <1>12, <1>13, <1>14, <1>15, <1>16, <1>17, <1>18, <1>19 DEF Next, WorldStep,
     PlayerStep

\* What is stored at a place without a container is spilled by a change that
\* is already posted (spillContainer, onBlock), unless the place was opened
\* after its container had gone.
THEOREM NothingBuriedAlways == Spec => []NothingBuried
<1>1. Init => TypeOK /\ Reached
  <2>1. Init => Reached
    BY DEF Init, Reached
  <2>. QED
    BY <2>1, TypeInit
<1>2. TypeOK /\ Reached /\ [Next]_vars => (TypeOK /\ Reached)'
  BY TypeStep, ReachedStep
<1>3. TypeOK /\ Reached => NothingBuried
  <2>1. \A p, i : posts[i] = [at |-> p, stands |-> FALSE] => posts[i].at = p
    OBVIOUS
  <2>. QED
    BY <2>1 DEF Reached, NothingBuried, Stored
<1>. QED
  BY <1>1, <1>2, <1>3, PTL DEF Spec

-----------------------------------------------------------------------------
(* No item is made or lost. *)

\* Who is abroad is not here, and only who is here is crossing.
Travels ==
  \A s \in Players : /\ s \in here => abroad[s] = NotAbroad
                     /\ crossing[s] # NoCrossing => s \in here

\* No two places share a storage.
Distinct ==
  \A p, q \in Places : boxes[p] # None /\ boxes[p] = boxes[q] => p = q

\* A player who crosses is taken from here as it is taken abroad.
LEMMA TravelsStep ==
  ASSUME TypeOK, Travels, [Next]_vars
  PROVE  Travels'
<1>1. ASSUME NEW s \in Players, Login(s) PROVE Travels'
  BY <1>1 DEF Travels, TypeOK, away, Login
<1>2. ASSUME NEW s \in Players, OnLeave(s) PROVE Travels'
  <2>1. Gone(s) /\ UNCHANGED abroad
    BY <1>2 DEF OnLeave
  <2>. QED
    BY <1>2, <2>1 DEF Travels, TypeOK, Gone
<1>3. ASSUME NEW s \in Players, Close(s) PROVE Travels'
  BY <1>3 DEF Travels, TypeOK, away, Close
<1>4. ASSUME NEW s \in Players, Open(s) PROVE Travels'
  BY <1>4 DEF Travels, TypeOK, away, Open
<1>5. ASSUME NEW s \in Players, Click(s) PROVE Travels'
  BY <1>5 DEF Travels, TypeOK, away, Click
<1>6. ASSUME NEW s \in Players, BeginHandover(s) PROVE Travels'
  BY <1>6 DEF Travels, TypeOK, away, BeginHandover
<1>7. ASSUME NEW s \in Players, FinishHandover(s) PROVE Travels'
  <2>1. Gone(s) /\ abroad' = [abroad EXCEPT ![s] = crossing[s]]
    BY <1>7 DEF FinishHandover
  <2>. QED
    BY <1>7, <2>1 DEF Travels, TypeOK, Gone
<1>8. ASSUME NEW s \in Players, RefuseHandover(s) PROVE Travels'
  BY <1>8 DEF Travels, TypeOK, away, RefuseHandover
<1>9. ASSUME NEW s \in Players, PickUp(s) PROVE Travels'
  BY <1>9 DEF Travels, TypeOK, away, PickUp
<1>10. ASSUME NEW s \in Players, Toss(s) PROVE Travels'
  BY <1>10 DEF Travels, TypeOK, away, Toss
<1>11. ASSUME NEW s \in Players, Die(s) PROVE Travels'
  BY <1>11 DEF Travels, TypeOK, away, Die
<1>12. ASSUME NEW s \in Players, NEW p \in Places, Ask(s, p) PROVE Travels'
  BY <1>12 DEF Travels, TypeOK, away, Ask
<1>13. ASSUME NEW p \in Places, Dig(p) PROVE Travels'
  BY <1>13 DEF Travels, TypeOK, away, Dig
<1>14. ASSUME NEW p \in Places, Place(p) PROVE Travels'
  BY <1>14 DEF Travels, TypeOK, away, Place
<1>15. ASSUME NEW p \in Places, SimBreak(p) PROVE Travels'
  BY <1>15 DEF Travels, TypeOK, away, SimBreak
<1>16. CASE OnBlock
  BY <1>16 DEF Travels, TypeOK, away, OnBlock
<1>17. CASE Tick
  BY <1>17 DEF Travels, TypeOK, away, Tick
<1>18. CASE UNCHANGED vars
  BY <1>18 DEF vars, store, held, away, history, Travels
<1>19. ASSUME NEW s \in Players, BlankClick(s) PROVE Travels'
  BY <1>19 DEF Travels, TypeOK, away, BlankClick
<1>. QED
  BY <1>1, <1>2, <1>3, <1>4, <1>5, <1>6, <1>7, <1>8, <1>9, <1>10, <1>11,
     <1>12, <1>13, <1>14, <1>15, <1>16, <1>17, <1>18, <1>19 DEF Next, WorldStep,
     PlayerStep

\* A storage that is made is of one place.
LEMMA DistinctStep ==
  ASSUME Storage, Views, Distinct, [Next]_vars
  PROVE  Distinct'
<1>1. ASSUME NEW s \in Players, Login(s) PROVE Distinct'
  BY <1>1 DEF Distinct, store, Login
<1>2. ASSUME NEW s \in Players, OnLeave(s) PROVE Distinct'
  BY <1>2 DEF Distinct, store, OnLeave
<1>3. ASSUME NEW s \in Players, Close(s) PROVE Distinct'
  BY <1>3 DEF Distinct, store, Close
<1>4. ASSUME NEW s \in Players, Open(s) PROVE Distinct'
  <2>. DEFINE p == asked[s]
  <2>1. p \in Places
    BY <1>4 DEF Open, Views
  <2>2. CASE boxes[p] = None
    <3>1. boxes' = [boxes EXCEPT ![p] = made + 1]
      BY <1>4, <2>2 DEF Open
    <3>2. \A q \in Places : boxes[q] \in 0 .. made /\ made \in Nat /\ boxes[q] # made + 1
      BY CapsNat DEF Storage
    <3>3. \A q \in Places : boxes'[q] = IF q = p THEN made + 1 ELSE boxes[q]
      BY <3>1 DEF Storage
    <3>. HIDE DEF p
    <3>. QED
      BY <3>2, <3>3 DEF Distinct
  <2>3. CASE boxes[p] # None
    <3>1. boxes' = [boxes EXCEPT ![p] = boxes[p]]
      BY <1>4, <2>3 DEF Open
    <3>2. boxes' = boxes
      BY <3>1 DEF Storage
    <3>. QED
      BY <3>2 DEF Distinct
  <2>. QED
    BY <2>2, <2>3
<1>5. ASSUME NEW s \in Players, Click(s) PROVE Distinct'
  BY <1>5 DEF Distinct, store, Click
<1>6. ASSUME NEW s \in Players, BeginHandover(s) PROVE Distinct'
  BY <1>6 DEF Distinct, store, BeginHandover
<1>7. ASSUME NEW s \in Players, FinishHandover(s) PROVE Distinct'
  BY <1>7 DEF Distinct, store, FinishHandover
<1>8. ASSUME NEW s \in Players, RefuseHandover(s) PROVE Distinct'
  BY <1>8 DEF Distinct, store, RefuseHandover
<1>9. ASSUME NEW s \in Players, PickUp(s) PROVE Distinct'
  BY <1>9 DEF Distinct, store, PickUp
<1>10. ASSUME NEW s \in Players, Toss(s) PROVE Distinct'
  BY <1>10 DEF Distinct, store, Toss
<1>11. ASSUME NEW s \in Players, Die(s) PROVE Distinct'
  BY <1>11 DEF Distinct, store, Die
<1>12. ASSUME NEW s \in Players, NEW p \in Places, Ask(s, p) PROVE Distinct'
  BY <1>12 DEF Distinct, store, Ask
<1>13. ASSUME NEW p \in Places, Dig(p) PROVE Distinct'
  BY <1>13 DEF Distinct, store, Dig
<1>14. ASSUME NEW p \in Places, Place(p) PROVE Distinct'
  BY <1>14 DEF Distinct, store, Place
<1>15. ASSUME NEW p \in Places, SimBreak(p) PROVE Distinct'
  <2>1. boxes' = [boxes EXCEPT ![p] = None]
    BY <1>15 DEF SimBreak, Spilt, Forgotten
  <2>2. \A q \in Places : boxes'[q] = IF q = p THEN None ELSE boxes[q]
    BY <2>1 DEF Storage
  <2>. QED
    BY <2>2 DEF Distinct
<1>16. CASE OnBlock
  <2>1. boxes' = boxes \/ \E p : boxes' = [boxes EXCEPT ![p] = None]
    BY <1>16 DEF OnBlock, Spilt, Forgotten
  <2>2. CASE boxes' = boxes
    BY <2>2 DEF Distinct
  <2>3. CASE \E p : boxes' = [boxes EXCEPT ![p] = None]
    <3>1. PICK p : boxes' = [boxes EXCEPT ![p] = None]
      BY <2>3
    <3>2. \A q \in Places : boxes'[q] = IF q = p THEN None ELSE boxes[q]
      BY <3>1 DEF Storage
    <3>. QED
      BY <3>2 DEF Distinct
  <2>. QED
    BY <2>1, <2>2, <2>3
<1>17. CASE Tick
  BY <1>17 DEF Distinct, store, Tick
<1>18. CASE UNCHANGED vars
  BY <1>18 DEF vars, store, held, away, history, Distinct
<1>19. ASSUME NEW s \in Players, BlankClick(s) PROVE Distinct'
  BY <1>19 DEF Distinct, store, BlankClick
<1>. QED
  BY <1>1, <1>2, <1>3, <1>4, <1>5, <1>6, <1>7, <1>8, <1>9, <1>10, <1>11,
     <1>12, <1>13, <1>14, <1>15, <1>16, <1>17, <1>18, <1>19 DEF Next, WorldStep,
     PlayerStep

\* What each player has abroad, and what each place has stored.
Taken == [s \in Players |-> IF abroad[s] = NotAbroad THEN 0 ELSE abroad[s]]
Content == [p \in Places |-> IF boxes[p] = None THEN 0 ELSE slots[boxes[p]]]

\* The items there are, counted over all players and all places.
Count == ground + Total(Holding, Players) + Total(Taken, Players) + Total(Content, Places)

\* The items there should be.
Owed == supplied - swallowed

LEMMA TakenTotal ==
  ASSUME NEW a
  PROVE  Total(a, {s \in Players : a[s] # NotAbroad})
           = Total([s \in Players |-> IF a[s] = NotAbroad THEN 0 ELSE a[s]], Players)
<1>. DEFINE T == {s \in Players : a[s] # NotAbroad}
            g == [s \in Players |-> IF a[s] = NotAbroad THEN 0 ELSE a[s]]
<1>1. T \in SUBSET Players /\ \A s \in T : a[s] = g[s]
  OBVIOUS
<1>2. \A s \in Players \ T : 1 .. g[s] = {}
  OBVIOUS
<1>. HIDE DEF T, g
<1>3. Total(a, T) = Total(g, Players)
  BY <1>1, <1>2, PilePart
<1>. QED
  BY <1>3 DEF T, g

LEMMA ContentTotal ==
  ASSUME NEW b, NEW c
  PROVE  Total([p \in {q \in Places : b[q] # None} |-> c[b[p]]], {q \in Places : b[q] # None})
           = Total([p \in Places |-> IF b[p] = None THEN 0 ELSE c[b[p]]], Places)
<1>. DEFINE T == {q \in Places : b[q] # None}
            f == [p \in T |-> c[b[p]]]
            g == [p \in Places |-> IF b[p] = None THEN 0 ELSE c[b[p]]]
<1>1. T \in SUBSET Places /\ \A p \in T : f[p] = g[p]
  OBVIOUS
<1>2. \A p \in Places \ T : 1 .. g[p] = {}
  OBVIOUS
<1>. HIDE DEF T, f, g
<1>3. Total(f, T) = Total(g, Places)
  BY <1>1, <1>2, PilePart
<1>. QED
  BY <1>3 DEF T, f, g

\* The count is what the property counts.
LEMMA EverythingIs == Everything = Count
<1>1. Total(abroad, Abroad) = Total(Taken, Players)
  BY TakenTotal DEF Abroad, Taken
<1>2. Total([p \in Stored |-> slots[boxes[p]]], Stored) = Total(Content, Places)
  BY ContentTotal DEF Stored, Content
<1>. QED
  BY <1>1, <1>2 DEF Everything, Count, Holding

\* What each total is made of.
Counts ==
  /\ \A s \in Players : Holding[s] \in 0 .. InvCap + GridCap + HandCap
  /\ \A s \in Players : Taken[s] \in 0 .. InvCap
  /\ \A p \in Places : Content[p] \in 0 .. BoxCap
  /\ ground \in Nat /\ supplied \in Nat /\ swallowed \in Nat

LEMMA Counted == TypeOK => Counts
<1>. SUFFICES ASSUME TypeOK PROVE Counts
  OBVIOUS
<1>1. Pockets /\ Storage /\ Views /\ Books
  BY TypeParts
<1>2. \A s \in Players : Holding[s] \in 0 .. InvCap + GridCap + HandCap
  BY <1>1, CapsNat DEF Holding, Pockets
<1>3. \A s \in Players : Taken[s] \in 0 .. InvCap
  BY <1>1, CapsNat DEF Taken, Views, NotAbroad
<1>4. \A p \in Places : Content[p] \in 0 .. BoxCap
  BY <1>1, ContentNat, CapsNat DEF Content
<1>. QED
  BY <1>1, <1>2, <1>3, <1>4 DEF Books, Counts

\* The counts of two states that follow each other.
LEMMA CountedTwice ==
  ASSUME TypeOK, TypeOK'
  PROVE  /\ Counts /\ Counts'
         /\ Total(Holding, Players) \in Nat /\ Total(Holding', Players) \in Nat
         /\ Total(Taken, Players) \in Nat /\ Total(Content, Places) \in Nat
         /\ IsFiniteSet(Players) /\ IsFiniteSet(Places)
<1>1. Counts
  BY Counted
<1>2. Counts'
  BY Counted, PTL
<1>3. IsFiniteSet(Players) /\ IsFiniteSet(Places)
  BY WindowsAssumption
<1>. SUFFICES ASSUME NEW n, n = InvCap + GridCap + HandCap
              PROVE  /\ Total(Holding, Players) \in Nat /\ Total(Holding', Players) \in Nat
                     /\ Total(Taken, Players) \in Nat /\ Total(Content, Places) \in Nat
  BY <1>1, <1>2, <1>3
<1>4. n \in Nat /\ InvCap \in Nat /\ BoxCap \in Nat
  BY CapsNat
<1>5. \A s \in Players : /\ Holding[s] \in Int /\ Holding[s] <= n
                         /\ Holding'[s] \in Int /\ Holding'[s] <= n
                         /\ Taken[s] \in Int /\ Taken[s] <= InvCap
  BY <1>1, <1>2, <1>4 DEF Counts
<1>6. \A p \in Places : Content[p] \in Int /\ Content[p] <= BoxCap
  BY <1>1, <1>4 DEF Counts
<1>7. Total(Holding, Players) \in Nat
  BY <1>3, <1>4, <1>5, PileFinite
<1>8. Total(Holding', Players) \in Nat
  BY <1>3, <1>4, <1>5, PileFinite
<1>9. Total(Taken, Players) \in Nat
  BY <1>3, <1>4, <1>5, PileFinite
<1>10. Total(Content, Places) \in Nat
  BY <1>3, <1>4, <1>6, PileFinite
<1>. QED
  BY <1>7, <1>8, <1>9, <1>10

\* One player's pockets change.
LEMMA HoldingChange ==
  ASSUME TypeOK, TypeOK', NEW s \in Players,
         \A t \in Players \ {s} : inv'[t] = inv[t] /\ grid'[t] = grid[t] /\ hand'[t] = hand[t]
  PROVE  /\ Total(Holding, Players) \in Nat /\ Total(Holding', Players) \in Nat
         /\ Total(Holding, Players) + (inv'[s] + grid'[s] + hand'[s])
              = Total(Holding', Players) + (inv[s] + grid[s] + hand[s])
<1>1. Alters(Holding, Holding', Players, s, InvCap + GridCap + HandCap)
  <2>1. \A t \in Players \ {s} : Holding[t] = Holding'[t]
    BY DEF Holding
  <2>. QED
    BY <2>1, CountedTwice, CapsNat DEF Alters, Counts
<1>2. IsFiniteSet(Players)
  BY CountedTwice
<1>3. /\ Total(Holding, Players) \in Nat /\ Total(Holding', Players) \in Nat
      /\ Total(Holding, Players) + Holding'[s] = Total(Holding', Players) + Holding[s]
  BY <1>1, <1>2, PileChange
<1>. QED
  BY <1>3 DEF Holding

\* What one place has stored changes.
LEMMA ContentChange ==
  ASSUME TypeOK, TypeOK', NEW p \in Places,
         \A q \in Places \ {p} :
            boxes'[q] = boxes[q] /\ (boxes[q] # None => slots'[boxes[q]] = slots[boxes[q]])
  PROVE  /\ Total(Content, Places) \in Nat /\ Total(Content', Places) \in Nat
         /\ Content[p] \in Nat /\ Content'[p] \in Nat
         /\ Total(Content, Places) + Content'[p] = Total(Content', Places) + Content[p]
<1>1. Alters(Content, Content', Places, p, BoxCap)
  <2>1. \A q \in Places \ {p} : Content[q] = Content'[q]
    BY DEF Content
  <2>. QED
    BY <2>1, CountedTwice, CapsNat DEF Alters, Counts
<1>2. IsFiniteSet(Places)
  BY CountedTwice
<1>3. Content[p] \in Nat /\ Content'[p] \in Nat
  BY CountedTwice, CapsNat DEF Counts
<1>. QED
  BY <1>1, <1>2, <1>3, PileChange

\* What one player has abroad changes.
LEMMA TakenChange ==
  ASSUME TypeOK, TypeOK', NEW s \in Players,
         \A t \in Players \ {s} : abroad'[t] = abroad[t]
  PROVE  /\ Total(Taken, Players) \in Nat /\ Total(Taken', Players) \in Nat
         /\ Total(Taken, Players) + Taken'[s] = Total(Taken', Players) + Taken[s]
<1>1. Alters(Taken, Taken', Players, s, InvCap)
  <2>1. \A t \in Players \ {s} : Taken[t] = Taken'[t]
    BY DEF Taken
  <2>. QED
    BY <2>1, CountedTwice, CapsNat DEF Alters, Counts
<1>2. IsFiniteSet(Players)
  BY CountedTwice
<1>. QED
  BY <1>1, <1>2, PileChange

\* What is owed is as it was.
LEMMA OwedSame ==
  ASSUME UNCHANGED <<supplied, swallowed>>
  PROVE  Owed' = Owed
BY DEF Owed

\* One player's pockets and the ground change.
LEMMA PocketBalance ==
  ASSUME TypeOK, TypeOK', Count = Owed, NEW s \in Players,
         \A t \in Players \ {s} : inv'[t] = inv[t] /\ grid'[t] = grid[t] /\ hand'[t] = hand[t],
         ground' + (inv'[s] + grid'[s] + hand'[s]) = ground + (inv[s] + grid[s] + hand[s]),
         UNCHANGED <<abroad, boxes, slots, supplied, swallowed>>
  PROVE  Count' = Owed'
<1>1. Taken' = Taken /\ Content' = Content
  BY DEF Taken, Content
<1>2. /\ Total(Holding, Players) \in Nat /\ Total(Holding', Players) \in Nat
      /\ Total(Holding, Players) + (inv'[s] + grid'[s] + hand'[s])
           = Total(Holding', Players) + (inv[s] + grid[s] + hand[s])
  BY HoldingChange
<1>3. /\ Total(Taken, Players) \in Nat /\ Total(Content, Places) \in Nat
      /\ ground \in Nat /\ ground' \in Nat
  BY CountedTwice DEF Counts
<1>4. /\ inv[s] \in Nat /\ grid[s] \in Nat /\ hand[s] \in Nat
      /\ inv'[s] \in Nat /\ grid'[s] \in Nat /\ hand'[s] \in Nat
  BY CapsNat DEF TypeOK
<1>5. Count' = ground' + Total(Holding', Players) + Total(Taken, Players) + Total(Content, Places)
  BY <1>1 DEF Count
<1>. QED
  BY <1>2, <1>3, <1>4, <1>5, OwedSame DEF Count

\* What one place has stored and the ground change.
LEMMA PlaceBalance ==
  ASSUME TypeOK, TypeOK', Count = Owed, NEW p \in Places,
         \A q \in Places \ {p} :
            boxes'[q] = boxes[q] /\ (boxes[q] # None => slots'[boxes[q]] = slots[boxes[q]]),
         ground' + Content'[p] = ground + Content[p],
         UNCHANGED <<abroad, inv, grid, hand, supplied, swallowed>>
  PROVE  Count' = Owed'
<1>1. Taken' = Taken /\ Holding' = Holding
  BY DEF Taken, Holding
<1>2. /\ Total(Content, Places) \in Nat /\ Total(Content', Places) \in Nat
      /\ Content[p] \in Nat /\ Content'[p] \in Nat
      /\ Total(Content, Places) + Content'[p] = Total(Content', Places) + Content[p]
  BY ContentChange
<1>3. /\ Total(Taken, Players) \in Nat /\ Total(Holding, Players) \in Nat
      /\ ground \in Nat /\ ground' \in Nat
  BY CountedTwice DEF Counts
<1>4. Count' = ground' + Total(Holding, Players) + Total(Taken, Players) + Total(Content', Places)
  BY <1>1 DEF Count
<1>. QED
  BY <1>2, <1>3, <1>4, OwedSame DEF Count

\* One player's pockets, what one place has stored, and the supply change.
LEMMA TradeBalance ==
  ASSUME TypeOK, TypeOK', Count = Owed, NEW s \in Players, NEW p \in Places,
         \A t \in Players \ {s} : inv'[t] = inv[t] /\ grid'[t] = grid[t] /\ hand'[t] = hand[t],
         \A q \in Places \ {p} :
            boxes'[q] = boxes[q] /\ (boxes[q] # None => slots'[boxes[q]] = slots[boxes[q]]),
         ground' + (inv'[s] + grid'[s] + hand'[s]) + Content'[p] + supplied
           = ground + (inv[s] + grid[s] + hand[s]) + Content[p] + supplied',
         UNCHANGED <<abroad, swallowed>>
  PROVE  Count' = Owed'
<1>1. Taken' = Taken
  BY DEF Taken
<1>2. /\ Total(Holding, Players) \in Nat /\ Total(Holding', Players) \in Nat
      /\ Total(Holding, Players) + (inv'[s] + grid'[s] + hand'[s])
           = Total(Holding', Players) + (inv[s] + grid[s] + hand[s])
  BY HoldingChange
<1>3. /\ Total(Content, Places) \in Nat /\ Total(Content', Places) \in Nat
      /\ Content[p] \in Nat /\ Content'[p] \in Nat
      /\ Total(Content, Places) + Content'[p] = Total(Content', Places) + Content[p]
  BY ContentChange
<1>4. Total(Taken, Players) \in Nat /\ Counts /\ Counts'
  BY CountedTwice
<1>5. /\ ground \in Nat /\ ground' \in Nat /\ supplied \in Nat /\ supplied' \in Nat
      /\ swallowed \in Nat /\ Owed = supplied - swallowed /\ Owed' = supplied' - swallowed
  BY <1>4 DEF Counts, Owed
<1>6. /\ inv[s] \in Nat /\ grid[s] \in Nat /\ hand[s] \in Nat
      /\ inv'[s] \in Nat /\ grid'[s] \in Nat /\ hand'[s] \in Nat
  BY CapsNat DEF TypeOK
<1>7. Count' = ground' + Total(Holding', Players) + Total(Taken, Players) + Total(Content', Places)
  BY <1>1 DEF Count
<1>8. PICK h \in Nat : h = inv[s] + grid[s] + hand[s]
  BY <1>6
<1>9. PICK x \in Nat : x = inv'[s] + grid'[s] + hand'[s]
  BY <1>6
<1>10. PICK c \in Nat : c = Content[p]
  BY <1>3
<1>11. PICK d \in Nat : d = Content'[p]
  BY <1>3
<1>12. Total(Holding, Players) + x = Total(Holding', Players) + h
  BY <1>2, <1>8, <1>9
<1>13. Total(Content, Places) + d = Total(Content', Places) + c
  BY <1>3, <1>10, <1>11
<1>14. ground' + x + d + supplied = ground + h + c + supplied'
  BY <1>8, <1>9, <1>10, <1>11
<1>15. /\ Total(Holding, Players) \in Nat /\ Total(Holding', Players) \in Nat
       /\ Total(Content, Places) \in Nat /\ Total(Content', Places) \in Nat
       /\ Total(Taken, Players) \in Nat
  BY <1>2, <1>3, <1>4
<1>16. ground + Total(Holding, Players) + Total(Taken, Players) + Total(Content, Places) = Owed
  BY DEF Count
<1>17. SUFFICES ASSUME NEW h1, NEW h2, NEW c1, NEW c2, NEW a, NEW g1, NEW g2, NEW u1, NEW u2, NEW w,
                     h1 = Total(Holding, Players), h2 = Total(Holding', Players),
                     c1 = Total(Content, Places), c2 = Total(Content', Places),
                     a = Total(Taken, Players), g1 = ground, g2 = ground',
                     u1 = supplied, u2 = supplied', w = swallowed
              PROVE  g2 + h2 + a + c2 = u2 - w
  BY <1>5, <1>7
<1>18. /\ h1 \in Nat /\ h2 \in Nat /\ c1 \in Nat /\ c2 \in Nat /\ a \in Nat
       /\ g1 \in Nat /\ g2 \in Nat /\ u1 \in Nat /\ u2 \in Nat /\ w \in Nat
       /\ h \in Nat /\ x \in Nat /\ c \in Nat /\ d \in Nat
  BY <1>5, <1>15, <1>17
<1>19. h1 + x = h2 + h
  BY <1>12, <1>17
<1>20. c1 + d = c2 + c
  BY <1>13, <1>17
<1>21. g2 + x + d + u1 = g1 + h + c + u2
  BY <1>14, <1>17
<1>22. g1 + h1 + a + c1 = u1 - w
  BY <1>5, <1>16, <1>17
<1>. QED
  BY <1>18, <1>19, <1>20, <1>21, <1>22

\* Nothing counted changes.
LEMMA StillBalance ==
  ASSUME Count = Owed,
         UNCHANGED <<ground, inv, grid, hand, abroad, boxes, slots, supplied, swallowed>>
  PROVE  Count' = Owed'
<1>1. Holding' = Holding /\ Taken' = Taken /\ Content' = Content
  BY DEF Holding, Taken, Content
<1>. QED
  BY <1>1, OwedSame DEF Count

\* A closing moves what it does not drop.
LEMMA CloseBalance ==
  ASSUME TypeOK, TypeOK', Count = Owed, NEW S \in SUBSET Players, CloseFor(S),
         UNCHANGED <<abroad, boxes, slots, supplied, swallowed>>
  PROVE  Count' = Owed'
<1>1. Taken' = Taken /\ Content' = Content
  BY DEF Taken, Content
<1>2. ground' + Total(Holding', Players) = ground + Total(Holding, Players)
  BY TypeParts, CloseForFacts DEF Books
<1>3. /\ Total(Holding, Players) \in Nat /\ Total(Holding', Players) \in Nat
      /\ Total(Taken, Players) \in Nat /\ Total(Content, Places) \in Nat
      /\ ground \in Nat /\ ground' \in Nat
  BY CountedTwice DEF Counts
<1>4. Count' = ground' + Total(Holding', Players) + Total(Taken, Players) + Total(Content, Places)
  BY <1>1 DEF Count
<1>. QED
  BY <1>2, <1>3, <1>4, OwedSame DEF Count

\* What has been spilled lies about.
LEMMA SpiltBalance ==
  ASSUME TypeOK, TypeOK', Count = Owed, NEW p \in Places, Spilt(p),
         UNCHANGED <<abroad, inv, grid, hand, slots, supplied, swallowed>>
  PROVE  Count' = Owed'
<1>1. boxes' = [boxes EXCEPT ![p] = None]
  BY DEF Spilt, Forgotten
<1>2. boxes \in [Places -> 0 .. made]
  BY DEF TypeOK
<1>3. \A q \in Places \ {p} :
         boxes'[q] = boxes[q] /\ (boxes[q] # None => slots'[boxes[q]] = slots[boxes[q]])
  BY <1>1, <1>2
<1>4. Content'[p] = 0
  BY <1>1, <1>2 DEF Content
<1>5. ground' = ground + Content[p]
  BY DEF Spilt, Content
<1>6. ground \in Nat /\ Content[p] \in Nat
  BY CountedTwice, CapsNat DEF Counts
<1>7. ground' + Content'[p] = ground + Content[p]
  BY <1>4, <1>5, <1>6
<1>. QED
  BY <1>3, <1>7, PlaceBalance

\* A click neither makes nor loses an item, whatever it declares.
LEMMA ClickBalance ==
  ASSUME TypeOK, TypeOK', Distinct, Count = Owed, NEW s \in Players, Click(s), ~stale'
  PROVE  Count' = Owed'
<1>0. ~Blank(s)
  BY DEF Click
<1>1. PICK i \in 0 .. InvCap, d \in 0 .. SideCap(s), c \in 0 .. HandCap :
         /\ NoGain(Before(s), c + i + d)
         /\ inv' = [inv EXCEPT ![s] = i]
         /\ hand' = [hand EXCEPT ![s] = c]
         /\ grid' = [grid EXCEPT ![s] = IF win[s].at = "none" THEN d ELSE @]
         /\ slots' = IF win[s].at = "none" THEN slots ELSE [slots EXCEPT ![Behind(s)] = d]
         /\ ground' = ground + Thrown(Before(s), c + i + d)
         /\ stale' = (stale \/ (Forsaken(s) /\ d # Side(s)))
  BY DEF Click
<1>2. UNCHANGED <<boxes, abroad, supplied, swallowed>>
  BY DEF Click, away
<1>3. Pockets /\ Storage /\ Views /\ Books
  BY TypeParts
<1>4. /\ i \in Nat /\ d \in Nat /\ c \in Nat
      /\ inv[s] \in Nat /\ grid[s] \in Nat /\ hand[s] \in Nat /\ ground \in Nat
      /\ Side(s) \in Nat /\ Before(s) = hand[s] + inv[s] + Side(s)
  BY <1>0, <1>3, SideNat, CapsNat DEF SideCap, Pockets, Books, Before
<1>5. /\ inv'[s] = i /\ hand'[s] = c
      /\ grid'[s] = IF win[s].at = "none" THEN d ELSE grid[s]
  BY <1>1, <1>3 DEF Pockets
<1>6. \A t \in Players \ {s} : inv'[t] = inv[t] /\ grid'[t] = grid[t] /\ hand'[t] = hand[t]
  BY <1>1, <1>3 DEF Pockets
<1>7. Forsaken(s) => d = Side(s)
  BY <1>1
<1>8. PICK th \in Nat : ground' = ground + th /\ th + c + i + d = Before(s)
  BY <1>1, <1>4 DEF Thrown, NoGain
<1>9. CASE win[s].at = "none"
  <2>1. Side(s) = grid[s] /\ slots' = slots
    BY <1>1, <1>9 DEF Side
  <2>2. ground' + (inv'[s] + grid'[s] + hand'[s]) = ground + (inv[s] + grid[s] + hand[s])
    BY <1>4, <1>5, <1>8, <1>9, <2>1
  <2>. QED
    BY <1>2, <1>6, <2>1, <2>2, PocketBalance
<1>10. CASE Forsaken(s)
  <2>1. win[s].at # "none" /\ d = Side(s)
    BY <1>7, <1>10 DEF Forsaken
  <2>2. slots' = [slots EXCEPT ![Behind(s)] = slots[Behind(s)]]
    BY <1>1, <2>1 DEF Side
  <2>3. slots' = slots
    BY <1>3, <2>2 DEF Storage
  <2>4. ground' + (inv'[s] + grid'[s] + hand'[s]) = ground + (inv[s] + grid[s] + hand[s])
    BY <1>4, <1>5, <1>8, <2>1
  <2>. QED
    BY <1>2, <1>6, <2>3, <2>4, PocketBalance
<1>11. CASE win[s].at # "none" /\ ~Forsaken(s)
  <2>. DEFINE p == win[s].at
  <2>1. p \in Places /\ boxes[p] # None /\ boxes[p] = Behind(s)
    BY <1>0, <1>3, <1>11 DEF Forsaken, Views, Blank
  <2>3. Side(s) = slots[boxes[p]] /\ slots' = [slots EXCEPT ![boxes[p]] = d]
    BY <1>1, <1>11, <2>1 DEF Side
  <2>4. boxes[p] \in Boxes
    BY <1>3, <2>1, ContentNat
  <2>5. \A q \in Places \ {p} :
           boxes'[q] = boxes[q] /\ (boxes[q] # None => slots'[boxes[q]] = slots[boxes[q]])
    <3>. SUFFICES ASSUME NEW q \in Places \ {p}, boxes[q] # None
                  PROVE  slots'[boxes[q]] = slots[boxes[q]]
      BY <1>2
    <3>1. boxes[q] # boxes[p]
      BY <2>1 DEF Distinct
    <3>2. boxes[q] \in Boxes
      BY <1>3, ContentNat
    <3>. QED
      BY <1>3, <2>3, <3>1, <3>2 DEF Storage
  <2>6. Content[p] = Side(s) /\ Content'[p] = d
    <3>1. slots'[boxes[p]] = d
      BY <1>3, <2>3, <2>4 DEF Storage
    <3>. QED
      BY <1>2, <2>1, <2>3, <3>1 DEF Content
  <2>8. ground' + (inv'[s] + grid'[s] + hand'[s]) + Content'[p]
          = ground + (inv[s] + grid[s] + hand[s]) + Content[p]
    <3>2. ground' = ground + th
      BY <1>8
    <3>3. inv'[s] = i /\ grid'[s] = grid[s] /\ hand'[s] = c
      BY <1>5, <1>11
    <3>4. th + c + i + d = hand[s] + inv[s] + Side(s)
      BY <1>4, <1>8
    <3>5. (ground + th) + (i + grid[s] + c) + d = ground + (inv[s] + grid[s] + hand[s]) + Side(s)
      <4>1. SUFFICES ASSUME NEW g, NEW n, NEW y, NEW h, NEW w,
                            g = ground, n = inv[s], y = grid[s], h = hand[s], w = Side(s)
                     PROVE  (g + th) + (i + y + c) + d = g + (n + y + h) + w
        OBVIOUS
      <4>2. /\ g \in Nat /\ n \in Nat /\ y \in Nat /\ h \in Nat /\ w \in Nat
            /\ i \in Nat /\ d \in Nat /\ c \in Nat
        BY <1>4, <4>1
      <4>3. th + c + i + d = h + n + w
        BY <3>4, <4>1
      <4>. QED
        BY <4>2, <4>3
    <3>6. ground' + (inv'[s] + grid'[s] + hand'[s]) + Content'[p]
            = (ground + th) + (i + grid[s] + c) + d
      <4>1. inv'[s] + grid'[s] + hand'[s] = i + grid[s] + c
        BY <3>3
      <4>2. Content'[p] = d
        BY <2>6
      <4>. HIDE DEF p
      <4>. QED
        BY <3>2, <4>1, <4>2, Zenon
    <3>7. ground + (inv[s] + grid[s] + hand[s]) + Side(s)
            = ground + (inv[s] + grid[s] + hand[s]) + Content[p]
      BY <2>6
    <3>. QED
      BY <3>5, <3>6, <3>7, Zenon
  <2>9. supplied' = supplied /\ supplied \in Nat
    BY <1>2, <1>3 DEF Books
  <2>10. ground' \in Nat /\ inv'[s] \in Nat /\ grid'[s] \in Nat /\ hand'[s] \in Nat
         /\ Content[p] \in Nat /\ Content'[p] \in Nat
    BY <1>4, <1>5, <1>8, <1>11, <2>6
  <2>. HIDE DEF p
  <2>11. ground' + (inv'[s] + grid'[s] + hand'[s]) + Content'[p] + supplied
           = ground + (inv[s] + grid[s] + hand[s]) + Content[p] + supplied'
    BY <1>4, <2>8, <2>9, <2>10
  <2>. QED
    BY <1>2, <1>6, <2>1, <2>5, <2>11, TradeBalance
<1>. QED
  BY <1>9, <1>10, <1>11

\* What a click lays into slots that are not found is counted as swallowed.
LEMMA BlankBalance ==
  ASSUME TypeOK, TypeOK', Count = Owed, NEW s \in Players, BlankClick(s)
  PROVE  Count' = Owed'
<1>1. PICK d \in 0 .. InvCap + BoxCap, c \in 0 .. HandCap :
         /\ hand' = [hand EXCEPT ![s] = c]
         /\ ground' = ground + Thrown(hand[s], c + d)
         /\ swallowed' = swallowed + (hand[s] - c - Thrown(hand[s], c + d))
  BY DEF BlankClick
<1>2. UNCHANGED <<inv, grid, boxes, slots, abroad, supplied>>
  BY DEF BlankClick, store, away
<1>3. Taken' = Taken /\ Content' = Content
  BY <1>2 DEF Taken, Content
<1>4. hand'[s] = c /\ \A t \in Players \ {s} : hand'[t] = hand[t]
  BY <1>1 DEF TypeOK
<1>5. /\ inv[s] \in Nat /\ grid[s] \in Nat /\ hand[s] \in Nat /\ c \in Nat /\ d \in Nat
      /\ ground \in Nat /\ supplied \in Nat /\ swallowed \in Nat
  BY CapsNat DEF TypeOK
<1>6. /\ Total(Holding, Players) \in Nat /\ Total(Holding', Players) \in Nat
      /\ Total(Holding, Players) + (inv[s] + grid[s] + c)
           = Total(Holding', Players) + (inv[s] + grid[s] + hand[s])
  BY <1>2, <1>4, HoldingChange
<1>7. Total(Holding, Players) + c = Total(Holding', Players) + hand[s]
  BY <1>5, <1>6
<1>8. Total(Taken, Players) \in Nat /\ Total(Content, Places) \in Nat
  BY CountedTwice
<1>9. PICK th \in Nat : ground' = ground + th /\ swallowed' = swallowed + (hand[s] - c - th)
  BY <1>1, <1>5 DEF Thrown
<1>10. Count' = ground + th + Total(Holding', Players) + Total(Taken, Players)
                  + Total(Content, Places)
  BY <1>3, <1>9 DEF Count
<1>11. Owed' = Owed - (hand[s] - c - th)
  BY <1>2, <1>5, <1>9 DEF Owed
<1>. QED
  BY <1>5, <1>6, <1>7, <1>8, <1>9, <1>10, <1>11 DEF Count, Owed

\* An opening folds the screen, and makes a storage that is accounted for.
LEMMA OpenBalance ==
  ASSUME TypeOK, TypeOK', Count = Owed, NEW s \in Players, Open(s)
  PROVE  Count' = Owed'
<1>. DEFINE p == asked[s]
<1>1. Pockets /\ Storage /\ Views /\ Books
  BY TypeParts
<1>2. p \in Places
  BY <1>1 DEF Open, Views
<1>3. /\ inv' = [inv EXCEPT ![s] = Folded(s).inv]
      /\ grid' = [grid EXCEPT ![s] = Folded(s).grid]
      /\ hand' = [hand EXCEPT ![s] = Folded(s).hand]
      /\ UNCHANGED <<ground, abroad, swallowed>>
  BY DEF Open, away
<1>4. \A t \in Players \ {s} : inv'[t] = inv[t] /\ grid'[t] = grid[t] /\ hand'[t] = hand[t]
  BY <1>1, <1>3 DEF Pockets
<1>5. inv'[s] = Folded(s).inv /\ grid'[s] = Folded(s).grid /\ hand'[s] = Folded(s).hand
  BY <1>1, <1>3 DEF Pockets
<1>6. inv'[s] + grid'[s] + hand'[s] = inv[s] + grid[s] + hand[s]
  BY <1>1, <1>5, FoldedFacts
<1>7. CASE boxes[p] # None
  <2>1. boxes' = [boxes EXCEPT ![p] = boxes[p]] /\ UNCHANGED <<slots, supplied, swallowed>>
    BY <1>7 DEF Open
  <2>2. boxes' = boxes
    BY <1>1, <2>1 DEF Storage
  <2>3. ground' + (inv'[s] + grid'[s] + hand'[s]) = ground + (inv[s] + grid[s] + hand[s])
    BY <1>3, <1>6
  <2>. QED
    BY <1>3, <1>4, <2>1, <2>2, <2>3, PocketBalance
<1>8. CASE boxes[p] = None
  <2>1. /\ boxes' = [boxes EXCEPT ![p] = made + 1] /\ made < MaxBoxes
        /\ slots' = [slots EXCEPT ![made + 1] = Stock[p]]
        /\ supplied' = supplied + Stock[p]
    BY <1>8 DEF Open
  <2>2. made \in Nat /\ made + 1 \in Boxes /\ made + 1 # None
    BY <1>1, <2>1, CapsNat DEF Storage, Boxes, None
  <2>3. \A q \in Places \ {p} :
           boxes'[q] = boxes[q] /\ (boxes[q] # None => slots'[boxes[q]] = slots[boxes[q]])
    <3>. SUFFICES ASSUME NEW q \in Places \ {p}
                  PROVE  boxes'[q] = boxes[q]
                         /\ (boxes[q] # None => slots'[boxes[q]] = slots[boxes[q]])
      OBVIOUS
    <3>1. boxes'[q] = boxes[q]
      BY <1>1, <2>1 DEF Storage
    <3>2. boxes[q] # made + 1
      BY <1>1, <2>2, ContentNat
    <3>3. boxes[q] # None => boxes[q] \in Boxes
      BY <1>1, ContentNat
    <3>4. boxes[q] # None => slots'[boxes[q]] = slots[boxes[q]]
      BY <1>1, <2>1, <3>2, <3>3 DEF Storage
    <3>. QED
      BY <3>1, <3>4
  <2>4. Content[p] = 0 /\ Content'[p] = Stock[p]
    <3>1. boxes'[p] = made + 1
      BY <1>1, <1>2, <2>1 DEF Storage
    <3>2. slots'[made + 1] = Stock[p]
      BY <1>1, <2>1, <2>2 DEF Storage
    <3>. QED
      BY <1>2, <1>8, <2>2, <3>1, <3>2 DEF Content
  <2>5. /\ Stock[p] \in Nat /\ ground \in Nat /\ supplied \in Nat
        /\ inv[s] \in Nat /\ grid[s] \in Nat /\ hand[s] \in Nat
    BY <1>1, <1>2, WindowsAssumption, CapsNat DEF Books, Pockets
  <2>. HIDE DEF p
  <2>6. ground' + (inv'[s] + grid'[s] + hand'[s]) + Content'[p] + supplied
          = ground + (inv[s] + grid[s] + hand[s]) + Content[p] + supplied'
    <3>. DEFINE h == inv[s] + grid[s] + hand[s]
                x == inv'[s] + grid'[s] + hand'[s]
    <3>1. h = x /\ h \in Nat
      BY <1>6, <2>5
    <3>. HIDE DEF h, x
    <3>2. ground' + x + Content'[p] + supplied = ground + h + Content[p] + supplied'
      BY <1>3, <2>1, <2>4, <2>5, <3>1
    <3>. QED
      BY <3>2 DEF h, x
  <2>. QED
    BY <1>2, <1>3, <1>4, <2>3, <2>6, TradeBalance
<1>. QED
  BY <1>7, <1>8

\* A crossing takes along what the snapshot has.
LEMMA FinishBalance ==
  ASSUME TypeOK, TypeOK', Travels, Count = Owed,
         NEW s \in Players, FinishHandover(s), ~torn'
  PROVE  Count' = Owed'
<1>1. /\ crossing[s] # NoCrossing
      /\ inv' = [t \in Players |-> IF t \in {s} THEN 0 ELSE inv[t]]
      /\ grid' = [t \in Players |-> IF t \in {s} THEN 0 ELSE grid[t]]
      /\ hand' = [t \in Players |-> IF t \in {s} THEN 0 ELSE hand[t]]
      /\ abroad' = [abroad EXCEPT ![s] = crossing[s]]
      /\ UNCHANGED <<boxes, slots, ground, supplied, swallowed>>
  BY DEF FinishHandover, Gone, Zeroed, store
<1>2. crossing[s] = inv[s] + grid[s] + hand[s]
  BY DEF FinishHandover
<1>3. abroad[s] = NotAbroad
  BY <1>1 DEF Travels
<1>4. Pockets /\ Storage /\ Views /\ Books
  BY TypeParts
<1>5. inv[s] \in Nat /\ grid[s] \in Nat /\ hand[s] \in Nat
  BY <1>4, CapsNat DEF Pockets
<1>6. inv'[s] = 0 /\ grid'[s] = 0 /\ hand'[s] = 0
  BY <1>1
<1>7. \A t \in Players \ {s} : inv'[t] = inv[t] /\ grid'[t] = grid[t] /\ hand'[t] = hand[t]
  BY <1>1
<1>8. /\ Total(Holding, Players) \in Nat /\ Total(Holding', Players) \in Nat
      /\ Total(Holding, Players) + (inv'[s] + grid'[s] + hand'[s])
           = Total(Holding', Players) + (inv[s] + grid[s] + hand[s])
  BY <1>7, HoldingChange
<1>9. \A t \in Players \ {s} : abroad'[t] = abroad[t]
  BY <1>1, <1>4 DEF Views
<1>10. /\ Total(Taken, Players) \in Nat /\ Total(Taken', Players) \in Nat
       /\ Total(Taken, Players) + Taken'[s] = Total(Taken', Players) + Taken[s]
  BY <1>9, TakenChange
<1>11. Taken[s] = 0 /\ Taken'[s] = inv[s] + grid[s] + hand[s]
  <2>1. abroad'[s] = crossing[s] /\ crossing[s] # NotAbroad
    BY <1>1, <1>4 DEF Views, NoCrossing, NotAbroad
  <2>. QED
    BY <1>2, <1>3, <2>1 DEF Taken
<1>12. Content' = Content /\ Total(Content, Places) \in Nat /\ ground \in Nat /\ ground' = ground
  BY <1>1, CountedTwice DEF Content, Counts
<1>13. Count' = ground + Total(Holding', Players) + Total(Taken', Players) + Total(Content, Places)
  BY <1>12 DEF Count
<1>14. PICK h \in Nat : h = inv[s] + grid[s] + hand[s]
  BY <1>5
<1>15. Total(Holding, Players) = Total(Holding', Players) + h
  <2>1. inv'[s] + grid'[s] + hand'[s] = 0
    BY <1>6
  <2>. QED
    BY <1>8, <1>14, <2>1
<1>16. Total(Taken', Players) = Total(Taken, Players) + h
  BY <1>10, <1>11, <1>14
<1>17. /\ Total(Holding', Players) \in Nat /\ Total(Taken, Players) \in Nat
       /\ Total(Content, Places) \in Nat /\ ground \in Nat /\ h \in Nat
  BY <1>8, <1>10, <1>12, <1>14
<1>18. Count' = Count
  BY <1>13, <1>15, <1>16, <1>17 DEF Count
<1>. QED
  BY <1>1, <1>18, OwedSame

\* No step makes or loses an item, the two cases apart.
LEMMA BalanceStep ==
  ASSUME TypeOK, TypeOK', Travels, Distinct, Count = Owed, ~stale', ~torn', [Next]_vars
  PROVE  Count' = Owed'
<1>1. ASSUME NEW s \in Players, Login(s) PROVE Count' = Owed'
  BY <1>1, StillBalance DEF store, held, away, history, Login
<1>2. ASSUME NEW s \in Players, OnLeave(s) PROVE Count' = Owed'
  <2>1. /\ inv' = [inv EXCEPT ![s] = Folded(s).inv]
        /\ grid' = [t \in Players |-> IF t \in {s} THEN 0 ELSE grid[t]]
        /\ hand' = [t \in Players |-> IF t \in {s} THEN 0 ELSE hand[t]]
        /\ ground' = ground + Dropped(s)
        /\ UNCHANGED <<abroad, boxes, slots, supplied, swallowed>>
    BY <1>2 DEF OnLeave, Gone, SavedAtLeave, Zeroed, store, history
  <2>2. Pockets /\ ground \in Nat
    BY TypeParts DEF Books
  <2>3. /\ inv'[s] = Folded(s).inv /\ grid'[s] = 0 /\ hand'[s] = 0
        /\ \A t \in Players \ {s} : inv'[t] = inv[t] /\ grid'[t] = grid[t] /\ hand'[t] = hand[t]
    BY <2>1, <2>2 DEF Pockets
  <2>4. ground' + (inv'[s] + grid'[s] + hand'[s]) = ground + (inv[s] + grid[s] + hand[s])
    BY <1>2, <2>1, <2>2, <2>3, FoldedFacts, CapsNat
  <2>. QED
    BY <1>2, <2>1, <2>3, <2>4, PocketBalance
<1>3. ASSUME NEW s \in Players, Close(s) PROVE Count' = Owed'
  <2>1. /\ CloseFor({s}) /\ {s} \in SUBSET Players
        /\ UNCHANGED <<abroad, boxes, slots, supplied, swallowed>>
    BY <1>3 DEF Close, store, away, history
  <2>. QED
    BY <2>1, CloseBalance
<1>4. ASSUME NEW s \in Players, Open(s) PROVE Count' = Owed'
  BY <1>4, OpenBalance
<1>5. ASSUME NEW s \in Players, Click(s) PROVE Count' = Owed'
  BY <1>5, ClickBalance
<1>6. ASSUME NEW s \in Players, BeginHandover(s) PROVE Count' = Owed'
  BY <1>6, StillBalance DEF store, held, away, history, BeginHandover
<1>7. ASSUME NEW s \in Players, FinishHandover(s) PROVE Count' = Owed'
  BY <1>7, FinishBalance
<1>8. ASSUME NEW s \in Players, RefuseHandover(s) PROVE Count' = Owed'
  BY <1>8, StillBalance DEF store, held, away, history, RefuseHandover
<1>9. ASSUME NEW s \in Players, PickUp(s) PROVE Count' = Owed'
  <2>1. PICK n \in 1 .. Least(ground, Room(s)) :
           /\ inv' = [inv EXCEPT ![s] = @ + n]
           /\ ground' = ground - n
    BY <1>9 DEF PickUp
  <2>2. /\ Pockets /\ ground \in Nat
        /\ UNCHANGED <<grid, hand, abroad, boxes, slots, supplied, swallowed>>
    BY <1>9, TypeParts DEF PickUp, Books, store, away, history
  <2>3. /\ inv'[s] = inv[s] + n
        /\ \A t \in Players \ {s} : inv'[t] = inv[t]
        /\ inv[s] \in Nat /\ grid[s] \in Nat /\ hand[s] \in Nat
    BY <1>9, <2>1, <2>2, CapsNat DEF Pockets
  <2>4. n \in Int
    OBVIOUS
  <2>5. ground' + (inv'[s] + grid'[s] + hand'[s]) = ground + (inv[s] + grid[s] + hand[s])
    BY <2>1, <2>2, <2>3, <2>4
  <2>. QED
    BY <1>9, <2>2, <2>3, <2>5, PocketBalance
<1>10. ASSUME NEW s \in Players, Toss(s) PROVE Count' = Owed'
  <2>1. PICK n \in 1 .. inv[s] :
           /\ inv' = [inv EXCEPT ![s] = @ - n]
           /\ ground' = ground + n
    BY <1>10 DEF Toss
  <2>2. /\ Pockets /\ ground \in Nat
        /\ UNCHANGED <<grid, hand, abroad, boxes, slots, supplied, swallowed>>
    BY <1>10, TypeParts DEF Toss, Books, store, away, history
  <2>3. /\ inv'[s] = inv[s] - n
        /\ \A t \in Players \ {s} : inv'[t] = inv[t]
        /\ inv[s] \in Nat /\ grid[s] \in Nat /\ hand[s] \in Nat
    BY <1>10, <2>1, <2>2, CapsNat DEF Pockets
  <2>4. n \in Int
    OBVIOUS
  <2>5. ground' + (inv'[s] + grid'[s] + hand'[s]) = ground + (inv[s] + grid[s] + hand[s])
    BY <2>1, <2>2, <2>3, <2>4
  <2>. QED
    BY <1>10, <2>2, <2>3, <2>5, PocketBalance
<1>11. ASSUME NEW s \in Players, Die(s) PROVE Count' = Owed'
  <2>1. /\ inv' = [t \in Players |-> IF t \in {s} THEN 0 ELSE inv[t]]
        /\ grid' = [t \in Players |-> IF t \in {s} THEN 0 ELSE grid[t]]
        /\ hand' = [t \in Players |-> IF t \in {s} THEN 0 ELSE hand[t]]
        /\ ground' = ground + inv[s] + grid[s] + hand[s]
        /\ UNCHANGED <<abroad, boxes, slots, supplied, swallowed>>
    BY <1>11 DEF Die, Zeroed, store, away, history
  <2>2. Pockets /\ ground \in Nat
    BY TypeParts DEF Books
  <2>3. /\ inv'[s] = 0 /\ grid'[s] = 0 /\ hand'[s] = 0
        /\ \A t \in Players \ {s} : inv'[t] = inv[t] /\ grid'[t] = grid[t] /\ hand'[t] = hand[t]
        /\ inv[s] \in Nat /\ grid[s] \in Nat /\ hand[s] \in Nat
    BY <1>11, <2>1, <2>2, CapsNat DEF Pockets
  <2>4. ground' + (inv'[s] + grid'[s] + hand'[s]) = ground + (inv[s] + grid[s] + hand[s])
    BY <2>1, <2>2, <2>3
  <2>. QED
    BY <1>11, <2>1, <2>3, <2>4, PocketBalance
<1>12. ASSUME NEW s \in Players, NEW p \in Places, Ask(s, p) PROVE Count' = Owed'
  BY <1>12, StillBalance DEF store, held, away, history, Ask
<1>13. ASSUME NEW p \in Places, Dig(p) PROVE Count' = Owed'
  BY <1>13, StillBalance DEF store, held, away, history, Dig
<1>14. ASSUME NEW p \in Places, Place(p) PROVE Count' = Owed'
  BY <1>14, StillBalance DEF store, held, away, history, Place
<1>15. ASSUME NEW p \in Places, SimBreak(p) PROVE Count' = Owed'
  <2>1. Spilt(p) /\ UNCHANGED <<abroad, inv, grid, hand, slots, supplied, swallowed>>
    BY <1>15 DEF SimBreak, away, held
  <2>. QED
    BY <1>15, <2>1, SpiltBalance
<1>16. CASE OnBlock
  <2>1. UNCHANGED <<abroad, inv, grid, hand, slots, supplied, swallowed>>
    BY <1>16 DEF OnBlock, away, held
  <2>2. CASE Head(posts).stands
    <3>1. UNCHANGED <<ground, boxes>>
      BY <1>16, <2>2 DEF OnBlock
    <3>. QED
      BY <2>1, <3>1, StillBalance
  <2>3. CASE ~Head(posts).stands
    <3>1. Spilt(Head(posts).at)
      BY <1>16, <2>3 DEF OnBlock
    <3>2. Head(posts).at \in Places
      BY <1>16, TypeParts, HeadPlace DEF OnBlock
    <3>. QED
      BY <2>1, <3>1, <3>2, SpiltBalance
  <2>. QED
    BY <2>2, <2>3
<1>17. CASE Tick
  <2>1. PICK far \in SUBSET Viewers :
           CloseFor(far \cup {s \in Viewers : ~MenuBlockPresent(s)})
    BY <1>17 DEF Tick
  <2>2. far \cup {s \in Viewers : ~MenuBlockPresent(s)} \in SUBSET Players
    BY DEF Viewers, TypeOK
  <2>3. UNCHANGED <<abroad, boxes, slots, supplied, swallowed>>
    BY <1>17 DEF Tick, store, away, history
  <2>. QED
    BY <2>1, <2>2, <2>3, CloseBalance
<1>18. CASE UNCHANGED vars
  BY <1>18, StillBalance DEF vars, store, held, away
<1>19. ASSUME NEW s \in Players, BlankClick(s) PROVE Count' = Owed'
  BY <1>19, BlankBalance
<1>. QED
  BY <1>1, <1>2, <1>3, <1>4, <1>5, <1>6, <1>7, <1>8, <1>9, <1>10, <1>11,
     <1>12, <1>13, <1>14, <1>15, <1>16, <1>17, <1>18, <1>19 DEF Next, WorldStep,
     PlayerStep

\* What has happened stays happened.
LEMMA HistoryStep ==
  ASSUME [Next]_vars
  PROVE  (stale => stale') /\ (torn => torn')
<1>1. ASSUME NEW s \in Players, Click(s) PROVE (stale => stale') /\ (torn => torn')
  BY <1>1 DEF Click
<1>2. ASSUME NEW s \in Players, FinishHandover(s) PROVE (stale => stale') /\ (torn => torn')
  BY <1>2 DEF FinishHandover
<1>3. ASSUME NEW s \in Players,
             \/ Login(s) \/ OnLeave(s) \/ Close(s) \/ Open(s) \/ BlankClick(s)
             \/ BeginHandover(s) \/ RefuseHandover(s) \/ PickUp(s) \/ Toss(s) \/ Die(s)
             \/ \E p \in Places : Ask(s, p)
      PROVE  UNCHANGED <<stale, torn>>
  BY <1>3 DEF Login, OnLeave, Close, Open, BlankClick, BeginHandover, RefuseHandover, PickUp, Toss,
              Die, Ask, history
<1>4. ASSUME WorldStep PROVE UNCHANGED <<stale, torn>>
  BY <1>4 DEF WorldStep, OnBlock, Tick, Dig, Place, SimBreak, history
<1>5. CASE UNCHANGED vars
  BY <1>5 DEF vars
<1>. QED
  BY <1>1, <1>2, <1>3, <1>4, <1>5 DEF Next, PlayerStep

\* The inductive invariant.
Kept == TypeOK /\ Travels /\ Distinct /\ (stale \/ torn \/ Count = Owed)

LEMMA KeptInit == Init => Kept
<1>. SUFFICES ASSUME Init PROVE Kept
  OBVIOUS
<1>1. TypeOK
  BY TypeInit
<1>2. Travels /\ Distinct
  BY DEF Init, Travels, Distinct, NotAbroad, NoCrossing
<1>3. Count = Owed
  <2>1. Total(Holding, Players) = Total(Start, Players)
    <3>1. \A s \in Players : Holding[s] = Start[s]
      <4>1. \A s \in Players : Start[s] \in Nat
        BY WindowsAssumption, CapsNat
      <4>. QED
        BY <4>1 DEF Init, Holding
    <3>. QED
      BY <3>1, PileSame
  <2>2. Total(Taken, Players) = 0
    <3>1. \A s \in Players : 1 .. Taken[s] = {}
      BY DEF Init, Taken
    <3>. QED
      BY <3>1, PileEmpty
  <2>3. Total(Content, Places) = 0
    <3>1. \A p \in Places : 1 .. Content[p] = {}
      BY DEF Init, Content
    <3>. QED
      BY <3>1, PileEmpty
  <2>4. /\ ground = 0 /\ swallowed = 0
        /\ supplied = Total(Start, Players) /\ supplied \in Nat
    BY <1>1 DEF Init, TypeOK
  <2>. QED
    BY <2>1, <2>2, <2>3, <2>4 DEF Count, Owed
<1>. QED
  BY <1>1, <1>2, <1>3 DEF Kept

LEMMA KeptStep ==
  ASSUME Kept, [Next]_vars
  PROVE  Kept'
<1>1. TypeOK /\ Travels /\ Distinct
  BY DEF Kept
<1>2. TypeOK'
  BY <1>1, TypeStep
<1>3. Travels'
  BY <1>1, TravelsStep
<1>4. Distinct'
  BY <1>1, TypeParts, DistinctStep
<1>5. ASSUME ~stale', ~torn' PROVE Count' = Owed'
  <2>1. Count = Owed
    BY <1>5, HistoryStep DEF Kept
  <2>. QED
    BY <1>1, <1>2, <1>5, <2>1, BalanceStep
<1>. QED
  BY <1>2, <1>3, <1>4, <1>5 DEF Kept

\* However clicks, openings, breaks, placements, ticks, pick-ups, deaths,
\* logins, departures and crossings follow each other, and whatever a client
\* declares, every item there ever was is somewhere once, or was laid into the
\* window of a dispenser, hopper or crafter whose storage is gone (handleClick,
\* clickCarry, reclaimCraft, closeWindow, spillContainer, onLeave,
\* finishHandover), until a click goes through a window whose chest was
\* forgotten or a crossing leaves something behind.
THEOREM ConservedAlways == Spec => []Conserved
<1>1. Init => Kept
  BY KeptInit
<1>2. Kept /\ [Next]_vars => Kept'
  BY KeptStep
<1>3. Kept => Conserved
  <2>1. TypeOK => supplied \in Nat /\ swallowed \in Nat
    BY DEF TypeOK
  <2>2. Count = Owed /\ TypeOK => Everything + swallowed = supplied
    BY <2>1, EverythingIs DEF Owed
  <2>. QED
    BY <2>2 DEF Kept, Conserved
<1>. QED
  BY <1>1, <1>2, <1>3, PTL DEF Spec
=============================================================================
