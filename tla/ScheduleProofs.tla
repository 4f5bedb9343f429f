---------------------------- MODULE ScheduleProofs ----------------------------
(***************************************************************************)
(* Theorems about Schedule for every function graph, whatever its size.    *)
(***************************************************************************)
EXTENDS Schedule, Recursion

(* Regions 0 .. n - 1 form a tree in which a holds the ancestors: the       *)
(* ancestors of a region are a chain from the root down to it, numbered     *)
(* upwards.                                                                 *)
TreeOf(a, n) ==
    /\ n \in Nat \ {0}
    /\ a \in [0 .. n - 1 -> SUBSET (0 .. n - 1)]
    /\ \A r \in 0 .. n - 1 : Root \in a[r] /\ r \in a[r]
    /\ \A r \in 0 .. n - 1 : \A s \in a[r] : s <= r /\ a[s] \subseteq a[r]
    /\ \A r \in 0 .. n - 1 : \A s, t \in a[r] : s <= t => s \in a[t]

(* lca() is well defined: the common ancestors of any regions are exactly *)
(* the ancestors of one of them, and of a single region, its own.         *)
LEMMA MeetExists ==
    ASSUME NEW n, NEW a, TreeOf(a, n), NEW rs \in SUBSET (0 .. n - 1), rs # {}
    PROVE  /\ Meet(a, rs) \in 0 .. n - 1
           /\ a[Meet(a, rs)] = {x \in 0 .. n - 1 : \A r \in rs : x \in a[r]}
<1> DEFINE C == {x \in 0 .. n - 1 : \A r \in rs : x \in a[r]}
<1>1. DOMAIN a = 0 .. n - 1
  BY DEF TreeOf
<1>2. Root \in C /\ n - 1 \in Nat
  BY DEF TreeOf, Root
<1>3. PICK m \in C : \A x \in C : x <= m
  BY <1>2, GreatestElement
<1>4. a[m] \subseteq C
  BY <1>3 DEF TreeOf
<1>5. C \subseteq a[m]
  BY <1>3 DEF TreeOf
<1> QED
  BY <1>1, <1>3, <1>4, <1>5 DEF Meet

(* The common ancestor of a set of regions encloses each of them. *)
LEMMA MeetEnclosesAll ==
    ASSUME NEW n, NEW a, TreeOf(a, n), NEW rs \in SUBSET (0 .. n - 1),
           NEW r \in rs
    PROVE  Meet(a, rs) \in a[r]
<1>1. /\ Meet(a, rs) \in 0 .. n - 1
      /\ a[Meet(a, rs)] = {x \in 0 .. n - 1 : \A q \in rs : x \in a[q]}
  BY MeetExists
<1>2. Meet(a, rs) \in a[Meet(a, rs)]
  BY <1>1 DEF TreeOf
<1> QED
  BY <1>1, <1>2

(* The common ancestor of one region is that region. *)
LEMMA MeetOfOne ==
    ASSUME NEW n, NEW a, TreeOf(a, n), NEW r \in 0 .. n - 1
    PROVE  Meet(a, {r}) = r
<1> DEFINE m == Meet(a, {r})
<1>1. m \in 0 .. n - 1 /\ m \in a[r]
  BY MeetExists, MeetEnclosesAll
<1>2. a[m] = {x \in 0 .. n - 1 : \A q \in {r} : x \in a[q]}
  BY MeetExists
<1>3. r \in a[m]
  BY <1>2 DEF TreeOf
<1>4. m <= r /\ r <= m
  BY <1>1, <1>3 DEF TreeOf
<1> QED
  BY <1>1, <1>4 DEF TreeOf

(* new_region(): regions opened under h leave a tree. *)
LEMMA GrowTree ==
    ASSUME NEW n, NEW a, TreeOf(a, n), NEW h \in 0 .. n - 1,
           NEW m \in Nat, n <= m, NEW b,
           b = [r \in 0 .. m - 1 |->
                   IF r \in 0 .. n - 1 THEN a[r] ELSE a[h] \cup {r}]
    PROVE  /\ TreeOf(b, m)
           /\ \A r \in 0 .. n - 1 : b[r] = a[r]
<1>1. \A r \in 0 .. n - 1 : b[r] = a[r] /\ r \in 0 .. m - 1
  BY DEF TreeOf
<1>2. \A r \in 0 .. m - 1 : r \in 0 .. n - 1 \/ b[r] = a[h] \cup {r}
  OBVIOUS
<1>3. a[h] \subseteq 0 .. n - 1 /\ Root \in a[h] /\ n \in Nat \ {0} /\ \A s \in a[h] : s <= h
  BY DEF TreeOf
<1>4. b \in [0 .. m - 1 -> SUBSET (0 .. m - 1)]
  BY <1>1, <1>2, <1>3 DEF TreeOf
<1>5. ASSUME NEW r \in 0 .. m - 1
      PROVE  /\ Root \in b[r] /\ r \in b[r]
             /\ \A s \in b[r] : s <= r /\ b[s] \subseteq b[r]
             /\ \A s, t \in b[r] : s <= t => s \in b[t]
  <2>1. CASE r \in 0 .. n - 1
    BY <2>1, <1>1 DEF TreeOf
  <2>2. CASE r \notin 0 .. n - 1
    <3>1. b[r] = a[h] \cup {r} /\ n <= r
      BY <2>2, <1>2, <1>3
    <3>2. \A s \in a[h] : s < r /\ b[s] = a[s] /\ a[s] \subseteq a[h]
      BY <3>1, <1>1, <1>3 DEF TreeOf
    <3>3. \A s, t \in a[h] : s <= t => s \in a[t]
      BY DEF TreeOf
    <3>4. ASSUME NEW s \in b[r] PROVE s <= r /\ b[s] \subseteq b[r]
      <4>1. CASE s = r
        BY <4>1
      <4>2. CASE s # r
        <5>1. s \in a[h] /\ s \in 0 .. n - 1
          BY <4>2, <3>1, <1>3
        <5>2. s < r /\ b[s] \subseteq a[h]
          BY <5>1, <3>2
        <5> QED
          BY <5>1, <5>2, <3>1
      <4> QED
        BY <4>1, <4>2
    <3>5. ASSUME NEW s \in b[r], NEW t \in b[r], s <= t
          PROVE  s \in b[t]
      <4>1. CASE t = r
        BY <4>1
      <4>2. CASE t # r
        <5>1. t \in a[h] /\ t < r
          BY <4>2, <3>1, <3>2
        <5>2. s \in a[h]
          BY <5>1, <3>1, <3>5, <1>3
        <5> QED
          BY <5>1, <5>2, <3>2, <3>3, <3>5
      <4> QED
        BY <4>1, <4>2
    <3> QED
      BY <3>1, <3>4, <3>5, <1>3
  <2> QED
    BY <2>1, <2>2
<1> QED
  BY <1>1, <1>3, <1>4, <1>5 DEF TreeOf

-----------------------------------------------------------------------------
(* The nodes visited are closed under children, and each but the results   *)
(* was found as the child of one of them.                                  *)
ReachInv ==
    /\ Roots(g) \subseteq reach \cup frontier
    /\ \A u \in reach : Children(g, u) \subseteq reach \cup frontier
    /\ \A d \in (reach \cup frontier) \ Roots(g) :
            \E w \in reach : d \in Children(g, w)
    /\ phase # "visit" => frontier = {}

(* Users are placed before what they use. *)
OrderInv ==
    /\ \A w \in todo : Children(g, w) \cap Values(g) \subseteq todo
    /\ phase # "place" => todo = {}

(* A node stands in a region as soon as it is a result or a placed user *)
(* reads it, and only then.                                             *)
StandingInv ==
    /\ \A d \in Roots(g) : region[d] # Unplaced
    /\ \A d \in Nodes(g) :
            region[d] # Unplaced =>
                d \in Roots(g) \/ (d \in Values(g) /\ Sites(d) # {})
    /\ \A d \in Settled : region[d] # Unplaced

(* PlacedAsDeepAsUsesAllow, for the nodes still on the move as well. *)
DeepInv ==
    \A d \in Nodes(g) \ Roots(g) : region[d] # Unplaced =>
        \A c \in Regions :
            (\A r \in Sites(d) : c \in anc[r]) => c \in anc[region[d]]

IInv ==
    /\ TypeOK
    /\ g \in Graphs
    /\ \A u \in loops : g.node[u].op = "Loop"
    /\ TreeOf(anc, nregions)
    /\ ReachInv /\ OrderInv /\ StandingInv
    /\ DefsDominateUses /\ DeepInv

(* Children are nodes other than the user, and values are nodes. *)
LEMMA GraphFacts ==
    ASSUME NEW f \in Graphs
    PROVE  /\ Roots(f) \subseteq Nodes(f)
           /\ Values(f) \subseteq Nodes(f)
           /\ \A u \in Nodes(f) :
                /\ Children(f, u) \subseteq Nodes(f) \ {u}
                /\ u \notin Values(f) => Children(f, u) = {}
                /\ Operands(f, u) \subseteq Children(f, u)
                /\ \A k \in Parts : Behind(f, u, k) \subseteq Children(f, u)
                /\ \A d \in Children(f, u) \cap Values(f) :
                        \/ d \in Operands(f, u)
                        \/ \E k \in Parts : d \in Behind(f, u, k)
<1>1. Values(f) \subseteq Nodes(f)
  BY DEF Values
<1>2. ASSUME NEW u \in Nodes(f)
      PROVE  /\ Operands(f, u) \subseteq Children(f, u)
             /\ \A k \in Parts : Behind(f, u, k) \subseteq Children(f, u)
             /\ \A d \in Children(f, u) \cap Values(f) :
                     \/ d \in Operands(f, u)
                     \/ \E k \in Parts : d \in Behind(f, u, k)
  <2>1. f.node[u].params \cap Values(f) = {}
    BY ScheduleAssumption
  <2> QED
    BY <2>1 DEF Children
<1> QED
  BY <1>1, <1>2, ScheduleAssumption

(* Where a node is wanted, settled user by settled user. *)
LEMMA SitesFacts ==
    ASSUME NEW d, NEW r
    PROVE  r \in Sites(d) <=>
               \E w \in Settled :
                   \/ d \in Operands(g, w) /\ r = region[w]
                   \/ \E k \in Parts : d \in Behind(g, w, k) /\ r = inner[w][k]
  BY DEF Sites

(* With only the root region and no node placed, the invariant holds. *)
LEMMA InitIInv == Init => IInv
<1> SUFFICES ASSUME Init PROVE IInv
  OBVIOUS
<1>1. g \in Graphs /\ Roots(g) \subseteq Nodes(g)
  BY GraphFacts DEF Init
<1>2. nregions = 1 /\ Regions = {0} /\ 0 .. nregions - 1 = {0}
  BY DEF Init, Regions
<1>3. TreeOf(anc, nregions)
  BY <1>2 DEF Init, TreeOf, Root
<1>4. TypeOK
  BY <1>1, <1>2 DEF Init, TypeOK, Root, Unplaced, NONE
<1>5. Settled = {} /\ \A d : Sites(d) = {}
  BY DEF Init, Settled, Sites
<1>6. ReachInv /\ OrderInv
  BY DEF Init, ReachInv, OrderInv
<1>7. StandingInv /\ DefsDominateUses
  BY <1>1, <1>5 DEF Init, StandingInv, DefsDominateUses, Root, Unplaced
<1>8. DeepInv
  BY DEF Init, DeepInv, Unplaced
<1> QED
  BY <1>1, <1>3, <1>4, <1>6, <1>7, <1>8 DEF Init, IInv

-----------------------------------------------------------------------------
(* What placing u leaves alone, and what it opens. *)
Opens(u) ==
    \A k \in Parts : \/ inner'[u][k] = inner[u][k]
                     \/ inner'[u][k] \in Regions' \ Regions /\ Home(u) \in anc'[inner'[u][k]]

Grows(u) ==
    /\ u \in todo /\ u \in Values(g) /\ u \in reach /\ u \notin Settled
    /\ todo' = todo \ {u} /\ UNCHANGED <<reach, frontier, cone, pre, post>>
    /\ g' = g /\ phase = "place" /\ phase' = "place"
    /\ Settled' = Settled \cup {u} /\ Regions \subseteq Regions'
    /\ \A r \in Regions : anc'[r] = anc[r]
    /\ \A w \in Settled \cup {u} : region'[w] = region[w] /\ region[w] \in Regions
    /\ \A w \in Nodes(g) \ {u} : inner'[w] = inner[w]
    /\ Home(u) = region[u] /\ Opens(u)

(* Placing a node keeps the invariant, whatever regions it opens: the nodes *)
(* placed before stay where they are, and every other one moves up to what  *)
(* encloses its old place and the new demands.                              *)
LEMMA PlaceKeepsIInv ==
    ASSUME IInv, NEW u \in Nodes(g), NEW demands,
           Ready(u), Placed(u), Settle(u, demands),
           TreeOf(anc', nregions'), nregions <= nregions',
           \A r \in Regions : anc'[r] = anc[r],
           inner' \in [Nodes(g) -> [Parts -> Regions' \cup {Unplaced}]],
           \A w \in Nodes(g) \ {u} : inner'[w] = inner[w],
           \A p \in demands : p = <<p[1], p[2]>> /\ p[2] \in Regions' \cup {Home(u)},
           \A d, r : <<d, r>> \in demands <=>
               /\ d \in Values(g)
               /\ \/ d \in Operands(g, u) /\ r = Home(u)
                  \/ \E k \in Parts : d \in Behind(g, u, k) /\ r = inner'[u][k],
           Opens(u)
    PROVE  IInv' /\ Grows(u)
<1> DEFINE W(d) == Wanted(u, demands, d)
<1>1. /\ g \in Graphs /\ g' = g /\ phase = "place" /\ phase' = "place"
      /\ u \in todo /\ u \in reach /\ u \in Values(g) /\ u \notin Settled
      /\ Settled' = Settled \cup {u}
      /\ reach \subseteq Nodes(g) /\ Settled \subseteq Nodes(g) /\ Settled \subseteq Values(g)
      /\ Regions \subseteq Regions' /\ Unplaced \notin Regions' /\ Unplaced \notin Regions
  BY DEF IInv, TypeOK, Ready, Placed, Settled, Regions, TreeOf, Unplaced
<1>2. /\ DOMAIN region = Nodes(g)
      /\ \A d \in Nodes(g) : region[d] \in Regions \cup {Unplaced}
      /\ \A r \in Regions : anc[r] \subseteq Regions
  BY DEF IInv, TypeOK
<1>3. region[u] \in Regions
  <2>1. CASE u \in Roots(g)
    BY <2>1, <1>2 DEF IInv, StandingInv
  <2>2. CASE u \notin Roots(g)
    <3>1. PICK w \in reach : u \in Children(g, w)
      BY <2>2, <1>1 DEF IInv, ReachInv
    <3>2. w \in Values(g) /\ w \notin todo
      BY <3>1, <1>1, GraphFacts DEF Ready
    <3>3. w \in Settled
      BY <3>2, <1>1 DEF Settled
    <3>4. \/ u \in Operands(g, w)
          \/ \E k \in Parts : u \in Behind(g, w, k)
      BY <3>1, <1>1, GraphFacts
    <3>5. region[w] \in Sites(u) \/ \E k \in Parts : inner[w][k] \in Sites(u)
      BY <3>3, <3>4 DEF Sites
    <3>6. PICK r : r \in Sites(u)
      BY <3>5
    <3>7. r \in Regions /\ region[u] \in anc[r]
      BY <3>6, <1>1 DEF IInv, DefsDominateUses
    <3> QED
      BY <3>7, <1>2
  <2> QED
    BY <2>1, <2>2
<1>4. Home(u) = region[u]
  BY <1>1, <1>3 DEF Home
<1>5. ASSUME NEW d \in Nodes(g)
      PROVE  \A r : r \in W(d) <=>
                 \/ r = region[d] /\ region[d] # Unplaced
                 \/ <<d, r>> \in demands
                 \/ d = u /\ r = region[u]
  <2> DEFINE D == demands \cup {<<u, region[u]>>}
  <2>1. \A p \in D : p = <<p[1], p[2]>>
    OBVIOUS
  <2>2. W(d) = ({region[d]} \ {Unplaced}) \cup {p[2] : p \in {q \in D : q[1] = d}}
    BY <1>4 DEF Wanted
  <2>3. \A r : <<d, r>> \in D <=> (<<d, r>> \in demands \/ (d = u /\ r = region[u]))
    OBVIOUS
  <2> HIDE DEF D, W
  <2>4. \A r : <<d, r>>[1] = d /\ <<d, r>>[2] = r
    OBVIOUS
  <2>5. \A r : r \in {p[2] : p \in {q \in D : q[1] = d}} <=> <<d, r>> \in D
    BY <2>1, <2>4
  <2> QED
    BY <2>2, <2>3, <2>5
<1> HIDE DEF W
<1>6. ASSUME NEW d \in Nodes(g) PROVE W(d) \subseteq 0 .. nregions' - 1
  <2>1. \A r : <<d, r>> \in demands => r \in Regions'
    <3> SUFFICES ASSUME NEW r, <<d, r>> \in demands PROVE r \in Regions'
      OBVIOUS
    <3>1. <<d, r>>[2] \in Regions' \cup {Home(u)}
      OBVIOUS
    <3> QED
      BY <3>1, <1>1, <1>3, <1>4
  <2>2. ASSUME NEW r \in W(d) PROVE r \in Regions'
    <3>1. \/ r = region[d] /\ region[d] # Unplaced
          \/ <<d, r>> \in demands
          \/ d = u /\ r = region[u]
      BY <1>5
    <3>2. region[d] \in Regions \cup {Unplaced} /\ Regions \subseteq Regions'
      BY <1>1, <1>2
    <3> QED
      BY <3>1, <3>2, <2>1, <1>3
  <2> QED
    BY <2>2 DEF Regions
<1>7. ASSUME NEW d \in Nodes(g)
      PROVE  /\ W(d) = {} => region'[d] = Unplaced
             /\ W(d) # {} => region'[d] = Meet(anc', W(d))
  BY <1>1 DEF Settle, W
<1>8. DOMAIN region' = Nodes(g)
  BY DEF Settle
<1>9. ASSUME NEW d \in Nodes(g), W(d) # {}
      PROVE  /\ region'[d] \in Regions'
             /\ anc'[region'[d]] = {x \in Regions' : \A r \in W(d) : x \in anc'[r]}
             /\ \A r \in W(d) : region'[d] \in anc'[r]
  BY <1>6, <1>7, <1>9, MeetExists, MeetEnclosesAll DEF Regions
<1>10. ASSUME NEW w \in Settled \cup {u}
       PROVE  region'[w] = region[w] /\ region[w] \in Regions
  <2>1. w \notin Children(g, u)
    <3>1. CASE w = u
      BY <3>1, <1>1, GraphFacts
    <3>2. CASE w \in Settled
      BY <3>2, <1>1 DEF IInv, OrderInv, Settled
    <3> QED
      BY <3>1, <3>2
  <2>2. \A r : <<w, r>> \notin demands
    BY <2>1, <1>1, GraphFacts
  <2>3. region[w] \in Regions
    BY <1>1, <1>2, <1>3 DEF IInv, StandingInv
  <2>4. \A r : r \in W(w) <=> r = region[w]
    <3>1. region[w] # Unplaced /\ w \in Nodes(g)
      BY <2>3, <1>1
    <3>2. \A r : r \in W(w) <=>
              \/ r = region[w] /\ region[w] # Unplaced
              \/ <<w, r>> \in demands
              \/ w = u /\ r = region[u]
      BY <3>1, <1>5
    <3> QED
      BY <3>1, <3>2, <2>2
  <2>5. W(w) = {region[w]}
    BY <2>4
  <2>6. w \in Nodes(g) /\ W(w) # {}
    BY <2>5, <1>1
  <2>7. region'[w] = Meet(anc', {region[w]})
    BY <2>5, <2>6, <1>7
  <2>8. region[w] \in 0 .. nregions' - 1
    BY <2>3, <1>1 DEF Regions
  <2> QED
    BY <2>3, <2>7, <2>8, MeetOfOne
<1>11. ASSUME NEW d \in Values(g), NEW r
       PROVE  r \in Sites(d)' <=> r \in Sites(d) \/ <<d, r>> \in demands
  <2>1. r \in Sites(d)' <=>
            \E w \in Settled \cup {u} :
                \/ d \in Operands(g, w) /\ r = region[w]
                \/ \E k \in Parts : d \in Behind(g, w, k) /\ r = inner'[w][k]
    BY <1>1, <1>10 DEF Sites
  <2>2. \A w \in Settled : inner'[w] = inner[w]
    BY <1>1
  <2> QED
    BY <2>1, <2>2, <1>4, SitesFacts
<1>12. TypeOK'
  <2>1. region' \in [Nodes(g) -> Regions' \cup {Unplaced}]
    <3>1. \A d \in Nodes(g) : region'[d] \in Regions' \cup {Unplaced}
      BY <1>7, <1>9
    <3>2. region' = [d \in Nodes(g) |-> region'[d]]
      BY <1>1 DEF Settle
    <3> QED
      BY <3>1, <3>2
  <2>2. /\ nregions' \in Nat \ {0}
        /\ anc' \in [Regions' -> SUBSET Regions']
    BY DEF TreeOf, Regions
  <2> QED
    BY <2>1, <2>2, <1>1 DEF IInv, TypeOK, Placed, cone
<1>13. ReachInv'
  BY <1>1 DEF IInv, ReachInv, Placed
<1>14. OrderInv'
  BY <1>1 DEF IInv, OrderInv, Placed, Ready
<1>15. StandingInv'
  <2>1. ASSUME NEW d \in Roots(g) PROVE region'[d] # Unplaced
    <3>1. d \in Nodes(g) /\ region[d] # Unplaced
      BY <1>1, GraphFacts DEF IInv, StandingInv
    <3> QED
      BY <3>1, <1>1, <1>5, <1>9
  <2>2. ASSUME NEW d \in Nodes(g), region'[d] # Unplaced, d \notin Roots(g)
        PROVE  d \in Values(g) /\ Sites(d)' # {}
    <3>1. PICK r : r \in W(d)
      BY <2>2, <1>7
    <3>2. CASE <<d, r>> \in demands
      BY <3>2, <1>11
    <3>3. CASE region[d] # Unplaced
      <4>1. d \in Values(g) /\ Sites(d) # {}
        BY <3>3, <2>2 DEF IInv, StandingInv
      <4> QED
        BY <4>1, <1>11
    <3> QED
      BY <3>1, <3>2, <3>3, <1>1, <1>3, <1>5
  <2>3. ASSUME NEW d \in Settled' PROVE region'[d] # Unplaced
    BY <1>1, <1>10
  <2> QED
    BY <2>1, <2>2, <2>3, <1>1 DEF StandingInv
<1>16. DefsDominateUses'
  <2> SUFFICES ASSUME NEW d \in Values(g), NEW r \in Sites(d)'
               PROVE  r \in Regions' /\ region'[d] \in anc'[r]
    BY <1>1 DEF DefsDominateUses
  <2>0. d \in Nodes(g)
    BY DEF Values
  <2>1. CASE <<d, r>> \in demands
    BY <2>0, <2>1, <1>5, <1>6, <1>9 DEF Regions
  <2>2. CASE r \in Sites(d)
    <3>1. r \in Regions /\ region[d] \in anc[r]
      BY <2>2 DEF IInv, DefsDominateUses
    <3>2. region[d] \in Regions /\ region[d] \in W(d)
      BY <3>1, <2>0, <1>1, <1>2, <1>5
    <3>3. region'[d] \in anc'[region[d]]
      BY <3>2, <2>0, <1>9
    <3>4. anc'[region[d]] \subseteq anc'[r]
      BY <3>1, <1>1 DEF TreeOf, Regions
    <3> QED
      BY <3>1, <3>3, <3>4, <1>1
  <2> QED
    BY <2>1, <2>2, <1>11
<1>17. DeepInv'
  <2> SUFFICES ASSUME NEW d \in Nodes(g), d \notin Roots(g), region'[d] # Unplaced,
                      NEW c \in Regions', \A r \in Sites(d)' : c \in anc'[r]
               PROVE  c \in anc'[region'[d]]
    BY <1>1 DEF DeepInv
  <2>1. W(d) # {}
    BY <1>7
  <2>2. ASSUME region[d] # Unplaced PROVE c \in anc'[region[d]]
    <3>1. d \in Values(g) /\ Sites(d) # {}
      BY <2>2 DEF IInv, StandingInv
    <3>2. \A r \in Sites(d) : r \in Regions /\ c \in anc[r]
      BY <3>1, <1>11 DEF IInv, DefsDominateUses
    <3>3. c \in Regions
      BY <3>1, <3>2, <1>2
    <3>4. c \in anc[region[d]]
      BY <2>2, <3>2, <3>3 DEF IInv, DeepInv
    <3> QED
      BY <3>4, <2>2, <1>2
  <2>3. ASSUME NEW r \in W(d) PROVE c \in anc'[r]
    <3>1. CASE <<d, r>> \in demands
      BY <3>1, <1>11
    <3>2. CASE <<d, r>> \notin demands
      BY <3>2, <2>2, <1>1, <1>3, <1>5
    <3> QED
      BY <3>1, <3>2
  <2> QED
    BY <2>1, <2>3, <1>9
<1>18. IInv'
  BY <1>1, <1>12, <1>13, <1>14, <1>15, <1>16, <1>17 DEF IInv, Placed, cone
<1>19. Grows(u)
  BY <1>1, <1>4, <1>10 DEF Grows, Placed
<1> QED
  BY <1>18, <1>19

(* Placing a conditional opens two arms under its own region. *)
LEMMA PlaceCondKeepsIInv ==
    ASSUME IInv, NEW u \in Nodes(g), PlaceCond(u)
    PROVE  IInv' /\ Grows(u)
<1> DEFINE r0 == nregions
           r1 == nregions + 1
           demands == Demand(Operands(g, u), Home(u))
                          \cup Demand(Behind(g, u, "arm0"), r0)
                          \cup Demand(Behind(g, u, "arm1"), r1)
<1>1. /\ Ready(u) /\ Placed(u) /\ Settle(u, demands) /\ g.node[u].op = "Cond"
      /\ nregions' = nregions + 2
      /\ inner' = [inner EXCEPT ![u]["arm0"] = r0, ![u]["arm1"] = r1]
      /\ anc' = [r \in Regions' |->
                    IF r \in Regions THEN anc[r] ELSE anc[Home(u)] \cup {r}]
  BY DEF PlaceCond
<1>2. nregions \in Nat \ {0} /\ Home(u) \in 0 .. nregions - 1
  BY DEF IInv, TypeOK, Home, Regions, Root
<1>3. TreeOf(anc', nregions') /\ \A r \in Regions : anc'[r] = anc[r]
  BY <1>1, <1>2, GrowTree DEF IInv, Regions
<1>4. r0 \in Regions' /\ r1 \in Regions' /\ Regions \subseteq Regions'
  BY <1>1, <1>2 DEF Regions
<1>5. /\ inner' \in [Nodes(g) -> [Parts -> Regions' \cup {Unplaced}]]
      /\ \A w \in Nodes(g) \ {u} : inner'[w] = inner[w]
      /\ inner'[u]["arm0"] = r0 /\ inner'[u]["arm1"] = r1
  <2> HIDE DEF r0, r1
  <2> QED
    BY <1>1, <1>4 DEF IInv, TypeOK, Parts
<1>6. /\ \A k \in Parts : k = "arm0" \/ k = "arm1" \/ Behind(g, u, k) = {}
      /\ "arm0" \in Parts /\ "arm1" \in Parts
  BY <1>1 DEF Parts, Behind
<1>7. \A p \in demands : p = <<p[1], p[2]>> /\ p[2] \in Regions' \cup {Home(u)}
  <2> HIDE DEF r0, r1
  <2> QED
    BY <1>4 DEF Demand
<1>8. \A d, r : <<d, r>> \in demands <=>
          /\ d \in Values(g)
          /\ \/ d \in Operands(g, u) /\ r = Home(u)
             \/ \E k \in Parts : d \in Behind(g, u, k) /\ r = inner'[u][k]
  <2> HIDE DEF r0, r1
  <2> SUFFICES ASSUME NEW d, NEW r
               PROVE  <<d, r>> \in demands <=>
                          /\ d \in Values(g)
                          /\ \/ d \in Operands(g, u) /\ r = Home(u)
                             \/ \E k \in Parts : d \in Behind(g, u, k) /\ r = inner'[u][k]
    OBVIOUS
  <2>1. <<d, r>> \in demands <=>
          /\ d \in Values(g)
          /\ \/ d \in Operands(g, u) /\ r = Home(u)
             \/ d \in Behind(g, u, "arm0") /\ r = r0
             \/ d \in Behind(g, u, "arm1") /\ r = r1
    BY DEF Demand
  <2>2. (\E k \in Parts : d \in Behind(g, u, k) /\ r = inner'[u][k])
        <=> (d \in Behind(g, u, "arm0") /\ r = r0) \/ (d \in Behind(g, u, "arm1") /\ r = r1)
    <3>1. ASSUME NEW k \in Parts, d \in Behind(g, u, k)
          PROVE  k = "arm0" \/ k = "arm1"
      BY <3>1, <1>6
    <3> QED
      BY <3>1, <1>5, <1>6
  <2> HIDE DEF demands
  <2> QED
    BY <2>1, <2>2
<1>9. nregions <= nregions'
  BY <1>1, <1>2
<1>10. Opens(u)
  <2>1. /\ anc'[r0] = anc[Home(u)] \cup {r0} /\ anc'[r1] = anc[Home(u)] \cup {r1}
        /\ r0 \notin Regions /\ r1 \notin Regions
    BY <1>1, <1>2, <1>4 DEF Regions
  <2>2. Home(u) \in anc[Home(u)]
    BY <1>2 DEF IInv, TreeOf
  <2>3. inner'[u]["body"] = inner[u]["body"]
    BY <1>1, <1>4 DEF IInv, TypeOK, Parts
  <2> HIDE DEF r0, r1
  <2> QED
    BY <1>4, <1>5, <2>1, <2>2, <2>3 DEF Opens, Parts
<1> HIDE DEF demands
<1> QED
  BY <1>1, <1>3, <1>5, <1>7, <1>8, <1>9, <1>10, PlaceKeepsIInv

(* Placing a loop opens one body under its own region. *)
LEMMA PlaceLoopKeepsIInv ==
    ASSUME IInv, NEW u \in Nodes(g), PlaceLoop(u)
    PROVE  IInv' /\ Grows(u)
<1> DEFINE b == nregions
           demands == Demand(Operands(g, u), Home(u))
                          \cup Demand(Behind(g, u, "body"), b)
<1>1. /\ Ready(u) /\ Placed(u) /\ Settle(u, demands) /\ g.node[u].op = "Loop"
      /\ nregions' = nregions + 1
      /\ inner' = [inner EXCEPT ![u]["body"] = b]
      /\ anc' = [r \in Regions' |->
                    IF r \in Regions THEN anc[r] ELSE anc[Home(u)] \cup {b}]
  BY DEF PlaceLoop
<1>2. nregions \in Nat \ {0} /\ Home(u) \in 0 .. nregions - 1
  BY DEF IInv, TypeOK, Home, Regions, Root
<1>3. TreeOf(anc', nregions') /\ \A r \in Regions : anc'[r] = anc[r]
  <2>1. anc' = [r \in 0 .. nregions' - 1 |->
                   IF r \in 0 .. nregions - 1 THEN anc[r] ELSE anc[Home(u)] \cup {r}]
    <3>1. \A r \in 0 .. nregions' - 1 : r \in 0 .. nregions - 1 \/ r = b
      BY <1>1, <1>2
    <3>2. Regions' = 0 .. nregions' - 1 /\ Regions = 0 .. nregions - 1
      BY DEF Regions
    <3> HIDE DEF b
    <3> QED
      BY <3>1, <3>2, <1>1
  <2> QED
    BY <2>1, <1>1, <1>2, GrowTree DEF IInv, Regions
<1>4. b \in Regions' /\ Regions \subseteq Regions'
  BY <1>1, <1>2 DEF Regions
<1>5. /\ inner' \in [Nodes(g) -> [Parts -> Regions' \cup {Unplaced}]]
      /\ \A w \in Nodes(g) \ {u} : inner'[w] = inner[w]
      /\ inner'[u]["body"] = b
  <2> HIDE DEF b
  <2> QED
    BY <1>1, <1>4 DEF IInv, TypeOK, Parts
<1>6. /\ \A k \in Parts : k = "body" \/ Behind(g, u, k) = {}
      /\ "body" \in Parts
  BY <1>1 DEF Parts, Behind
<1>7. \A p \in demands : p = <<p[1], p[2]>> /\ p[2] \in Regions' \cup {Home(u)}
  <2> HIDE DEF b
  <2> QED
    BY <1>4 DEF Demand
<1>8. \A d, r : <<d, r>> \in demands <=>
          /\ d \in Values(g)
          /\ \/ d \in Operands(g, u) /\ r = Home(u)
             \/ \E k \in Parts : d \in Behind(g, u, k) /\ r = inner'[u][k]
  <2> HIDE DEF b
  <2> SUFFICES ASSUME NEW d, NEW r
               PROVE  <<d, r>> \in demands <=>
                          /\ d \in Values(g)
                          /\ \/ d \in Operands(g, u) /\ r = Home(u)
                             \/ \E k \in Parts : d \in Behind(g, u, k) /\ r = inner'[u][k]
    OBVIOUS
  <2>1. <<d, r>> \in demands <=>
          /\ d \in Values(g)
          /\ \/ d \in Operands(g, u) /\ r = Home(u)
             \/ d \in Behind(g, u, "body") /\ r = b
    BY DEF Demand
  <2>2. (\E k \in Parts : d \in Behind(g, u, k) /\ r = inner'[u][k])
        <=> (d \in Behind(g, u, "body") /\ r = b)
    <3>1. ASSUME NEW k \in Parts, d \in Behind(g, u, k)
          PROVE  k = "body"
      BY <3>1, <1>6
    <3> QED
      BY <3>1, <1>5, <1>6
  <2> HIDE DEF demands
  <2> QED
    BY <2>1, <2>2
<1>9. nregions <= nregions'
  BY <1>1, <1>2
<1>10. Opens(u)
  <2>1. anc'[b] = anc[Home(u)] \cup {b} /\ b \notin Regions
    BY <1>1, <1>2, <1>4 DEF Regions
  <2>2. Home(u) \in anc[Home(u)]
    BY <1>2 DEF IInv, TreeOf
  <2>3. \A k \in Parts : k # "body" => inner'[u][k] = inner[u][k]
    BY <1>1, <1>4 DEF IInv, TypeOK, Parts
  <2> HIDE DEF b
  <2> QED
    BY <1>4, <1>5, <2>1, <2>2, <2>3 DEF Opens
<1> HIDE DEF demands
<1> QED
  BY <1>1, <1>3, <1>5, <1>7, <1>8, <1>9, <1>10, PlaceKeepsIInv

(* Placing any other node opens no region. *)
LEMMA PlaceOtherKeepsIInv ==
    ASSUME IInv, NEW u \in Nodes(g), PlaceOther(u)
    PROVE  IInv' /\ Grows(u)
<1> DEFINE demands == Demand(Operands(g, u), Home(u))
<1>1. /\ Ready(u) /\ Placed(u) /\ Settle(u, demands)
      /\ nregions' = nregions /\ anc' = anc /\ inner' = inner
      /\ \A k \in Parts : Behind(g, u, k) = {}
  BY DEF PlaceOther, Parts, Behind
<1>2. /\ TreeOf(anc', nregions') /\ nregions <= nregions' /\ Regions' = Regions
      /\ inner' \in [Nodes(g) -> [Parts -> Regions' \cup {Unplaced}]]
  BY <1>1 DEF IInv, TypeOK, Regions
<1>3. \A p \in demands : p = <<p[1], p[2]>> /\ p[2] \in Regions' \cup {Home(u)}
  BY DEF Demand
<1>4. \A d, r : <<d, r>> \in demands <=>
          /\ d \in Values(g)
          /\ \/ d \in Operands(g, u) /\ r = Home(u)
             \/ \E k \in Parts : d \in Behind(g, u, k) /\ r = inner'[u][k]
  BY <1>1 DEF Demand
<1>5. Opens(u)
  BY <1>1 DEF Opens
<1> HIDE DEF demands
<1> QED
  BY <1>1, <1>2, <1>3, <1>4, <1>5, PlaceKeepsIInv

(* One iteration of the placement loop keeps the invariant, and regions only
   grow by it. *)
LEMMA PlaceStep ==
    ASSUME IInv, NEW u \in Nodes(g), Place(u)
    PROVE  IInv' /\ Grows(u)
BY PlaceCondKeepsIInv, PlaceLoopKeepsIInv, PlaceOtherKeepsIInv DEF Place

(* The steps that place nothing. *)
LEMMA OtherStepsKeepIInv ==
    ASSUME IInv, UNCHANGED <<g, tree>>, TypeOK', ReachInv', OrderInv',
           Settled' = Settled, loops' \subseteq {u \in Nodes(g) : g.node[u].op = "Loop"}
    PROVE  IInv'
<1>1. \A d : Sites(d)' = Sites(d)
  BY DEF Sites, tree
<1>2. Regions' = Regions
  BY DEF Regions, tree
<1> QED
  BY <1>1, <1>2 DEF IInv, tree, StandingInv, DefsDominateUses, DeepInv

(* The invariant holds throughout build_schedule(), for every graph. *)
THEOREM Invariance == Spec => []IInv
<1>1. IInv /\ [Next]_vars => IInv'
  <2> SUFFICES ASSUME IInv, [Next]_vars PROVE IInv'
    OBVIOUS
  <2>0. /\ g \in Graphs /\ TypeOK /\ ReachInv /\ OrderInv
        /\ loops \subseteq {u \in Nodes(g) : g.node[u].op = "Loop"}
    BY DEF IInv, TypeOK
  <2>1. CASE Visit
    <3>1. (UNION {Children(g, u) : u \in frontier}) \subseteq Nodes(g)
      BY <2>0, GraphFacts DEF TypeOK
    <3>2. TypeOK'
      BY <2>0, <2>1, <3>1 DEF TypeOK, Visit, tree, cone, Regions
    <3>3. ReachInv'
      <4> DEFINE found == UNION {Children(g, u) : u \in frontier}
      <4>1. /\ reach' = reach \cup frontier /\ g' = g /\ phase' = "visit"
            /\ frontier' = found \ reach'
        BY <2>1 DEF Visit
      <4>0. \A d : d \in found <=> \E x \in frontier : d \in Children(g, x)
        OBVIOUS
      <4> HIDE DEF found
      <4>5. \A d : (\E x \in frontier : d \in Children(g, x)) =>
                        d \in frontier' \/ d \in reach'
        BY <4>0, <4>1
      <4>2. Roots(g) \subseteq reach' \cup frontier'
        BY <2>0, <4>1 DEF ReachInv
      <4>3. ASSUME NEW w \in reach' PROVE Children(g, w) \subseteq reach' \cup frontier'
        <5>1. CASE w \in reach
          BY <5>1, <2>0, <4>1 DEF ReachInv
        <5>2. CASE w \in frontier
          BY <5>2, <4>5
        <5> QED
          BY <5>1, <5>2, <4>1
      <4>4. ASSUME NEW d \in (reach' \cup frontier') \ Roots(g)
            PROVE  \E w \in reach' : d \in Children(g, w)
        BY <2>0, <4>0, <4>1 DEF ReachInv
      <4> QED
        BY <4>1, <4>2, <4>3, <4>4 DEF ReachInv
    <3>4. OrderInv' /\ Settled' = Settled
      BY <2>0, <2>1 DEF OrderInv, Visit, Settled
    <3> QED
      BY <2>0, <2>1, <3>2, <3>3, <3>4, OtherStepsKeepIInv DEF Visit, cone
  <2>2. CASE VisitDone
    <3>1. TypeOK'
      BY <2>0, <2>2 DEF TypeOK, VisitDone, tree, cone, Regions
    <3>2. ReachInv' /\ Settled' = Settled
      BY <2>0, <2>2 DEF ReachInv, VisitDone, Settled
    <3>3. OrderInv'
      BY <2>0, <2>2 DEF OrderInv, ReachInv, VisitDone
    <3> QED
      BY <2>0, <2>2, <3>1, <3>2, <3>3, OtherStepsKeepIInv DEF VisitDone, cone
  <2>3. ASSUME NEW u \in Nodes(g), Place(u) PROVE IInv'
    BY <2>3, PlaceStep
  <2>4. CASE PlaceDone
    <3>1. TypeOK'
      BY <2>0, <2>4 DEF TypeOK, PlaceDone, tree, cone, Regions
    <3>2. ReachInv' /\ OrderInv' /\ Settled' = Settled
      BY <2>0, <2>4 DEF ReachInv, OrderInv, PlaceDone, Settled
    <3>3. loops' \subseteq {u \in Nodes(g) : g.node[u].op = "Loop"}
      BY <2>0, <2>4 DEF PlaceDone, TypeOK
    <3> QED
      BY <2>4, <3>1, <3>2, <3>3, OtherStepsKeepIInv DEF PlaceDone
  <2>5. ASSUME NEW u \in Nodes(g), StartCone(u) PROVE IInv'
    <3>1. TestNeeds(u) \subseteq Nodes(g)
      <4>1. TestNeeds(u) \subseteq Behind(g, u, "body") /\ "body" \in Parts
        BY <2>0, <2>5 DEF StartCone, TestNeeds, Behind, Parts
      <4> QED
        BY <2>0, <4>1, GraphFacts
    <3>2. TypeOK'
      BY <2>0, <2>5, <3>1 DEF TypeOK, StartCone, tree, Regions
    <3>3. ReachInv' /\ OrderInv' /\ Settled' = Settled
      BY <2>0, <2>5 DEF ReachInv, OrderInv, StartCone, Settled
    <3> QED
      BY <2>0, <2>5, <3>2, <3>3, OtherStepsKeepIInv DEF StartCone
  <2>6. CASE Cone
    <3>1. (UNION {Children(g, u) : u \in stk}) \subseteq Nodes(g)
      BY <2>0, GraphFacts DEF TypeOK
    <3>2. TypeOK'
      BY <2>0, <2>6, <3>1 DEF TypeOK, Cone, tree, Regions
    <3>3. ReachInv' /\ OrderInv' /\ Settled' = Settled
      BY <2>0, <2>6 DEF ReachInv, OrderInv, Cone, Settled
    <3> QED
      BY <2>0, <2>6, <3>2, <3>3, OtherStepsKeepIInv DEF Cone
  <2>7. CASE Bucket
    <3>1. TypeOK'
      BY <2>0, <2>7 DEF TypeOK, Bucket, tree, cone, Regions
    <3>2. ReachInv' /\ OrderInv' /\ Settled' = Settled
      BY <2>0, <2>7 DEF ReachInv, OrderInv, Bucket, Settled
    <3> QED
      BY <2>0, <2>7, <3>1, <3>2, OtherStepsKeepIInv DEF Bucket, cone
  <2>8. CASE UNCHANGED vars
    <3>1. TypeOK'
      BY <2>0, <2>8 DEF TypeOK, vars, tree, cone, Regions
    <3>2. ReachInv' /\ OrderInv' /\ Settled' = Settled
      BY <2>0, <2>8 DEF ReachInv, OrderInv, vars, Settled
    <3> QED
      BY <2>0, <2>8, <3>1, <3>2, OtherStepsKeepIInv DEF vars, cone
  <2> QED
    BY <2>1, <2>2, <2>3, <2>4, <2>5, <2>6, <2>7, <2>8 DEF Next, Terminated
<1> QED
  BY InitIInv, <1>1, PTL DEF Spec

(* The tables of build_schedule() keep their shapes. *)
THEOREM TypeCorrect == Spec => []TypeOK
<1>1. IInv => TypeOK
  BY DEF IInv
<1> QED
  BY <1>1, Invariance, PTL

(* Whatever the graph, a value is emitted where all its readers find it. *)
THEOREM DefinitionsDominateUses == Spec => []DefsDominateUses
<1>1. IInv => DefsDominateUses
  BY DEF IInv
<1> QED
  BY <1>1, Invariance, PTL

(* Whatever the graph, a value is emitted in the deepest region that         *)
(* encloses all its readers.                                                 *)
THEOREM PlacementIsDeepest == Spec => []PlacedAsDeepAsUsesAllow
<1>1. IInv => PlacedAsDeepAsUsesAllow
  <2> SUFFICES ASSUME IInv, NEW d \in Settled, d \notin Roots(g)
               PROVE  \A c \in Regions :
                          (\A r \in Sites(d) : c \in anc[r]) => c \in anc[region[d]]
    BY DEF PlacedAsDeepAsUsesAllow
  <2>1. d \in Nodes(g) /\ region[d] # Unplaced
    BY DEF IInv, StandingInv, TypeOK, Settled
  <2> QED
    BY <2>1 DEF IInv, DeepInv
<1> QED
  BY <1>1, Invariance, PTL

-----------------------------------------------------------------------------
(* What Leads computes: the least set that holds where it starts and is     *)
(* closed under the edges.                                                  *)
Nearer(s, e) == s \cup {p[2] : p \in {q \in e : q[1] \in s}}

ClosedUnder(e, X) == \A p \in e : p[1] \in X => p[2] \in X

(* Leads, a recursive function, is the last of a chain of steps along the edges. *)
LEMMA LeadsUnfold ==
    ASSUME NEW f, NEW from \in SUBSET Nodes(f), NEW e \in SUBSET (Nodes(f) \X Nodes(f)),
           IsFiniteSet(Nodes(f))
    PROVE  \E c \in [Nat -> SUBSET Nodes(f)] :
              /\ c[0] = from
              /\ \A n \in Nat : c[n + 1] = Nearer(c[n], e)
              /\ Leads(f, from, e) = c[Cardinality(Nodes(f))]
<1> DEFINE S == SUBSET Nodes(f)
           step == [s \in Nat \X S |-> Nearer(s[2], e)]
<1>1. from \in S /\ step \in [Nat \X S -> S]
  BY DEF Nearer
<1>2. PICK c : Recurses(c, S, from, step)
  <2> HIDE DEF S, step
  <2> QED
    BY <1>1, RecursionExists
<1>3. /\ c \in [Nat -> S] /\ c[0] = from
      /\ \A n \in Nat : c[n + 1] = Nearer(c[n], e)
  <2>1. c \in [Nat -> S] /\ c[0] = from /\ \A n \in Nat : c[n + 1] = step[<<n, c[n]>>]
    BY <1>2 DEF Recurses
  <2>2. ASSUME NEW n \in Nat PROVE step[<<n, c[n]>>] = Nearer(c[n], e)
    <3>1. <<n, c[n]>> \in Nat \X S /\ <<n, c[n]>>[2] = c[n]
      BY <2>1
    <3> HIDE DEF S
    <3> QED
      BY <3>1
  <2> HIDE DEF step
  <2> QED
    BY <2>1, <2>2
<1> DEFINE Recurs(h) == h = [k \in Nat |-> IF k = 0 THEN from ELSE Nearer(h[k - 1], e)]
<1>4. Recurs(c)
  <2>1. ASSUME NEW k \in Nat, k # 0 PROVE c[k] = Nearer(c[k - 1], e)
    <3>1. k - 1 \in Nat /\ (k - 1) + 1 = k
      BY <2>1
    <3> QED
      BY <1>3, <3>1
  <2> QED
    BY <1>3, <2>1
<1> DEFINE within == CHOOSE h : Recurs(h)
<1>5. Recurs(within)
  <2> HIDE DEF Recurs
  <2> QED
    BY <1>4
<1>6. Leads(f, from, e) = within[Cardinality(Nodes(f))]
  BY DEF Leads, Nearer
<1>7. ASSUME NEW n \in Nat PROVE within[n] = c[n]
  <2> DEFINE T == {k \in Nat : within[k] = c[k]}
  <2>1. 0 \in T
    BY <1>3, <1>5
  <2>2. ASSUME NEW k \in Nat, k \in T PROVE k + 1 \in T
    <3>1. within[k] = c[k] /\ k + 1 \in Nat /\ k + 1 # 0 /\ (k + 1) - 1 = k
      BY <2>2
    <3>2. within[k + 1] = Nearer(within[k], e)
      BY <1>5, <3>1
    <3> QED
      BY <1>3, <3>1, <3>2
  <2> HIDE DEF T
  <2>3. Nat \subseteq T
    BY <2>1, <2>2, SetInduction
  <2> QED
    BY <2>3 DEF T
<1>8. Cardinality(Nodes(f)) \in Nat
  BY FS_CardinalityType
<1> HIDE DEF within
<1> QED
  BY <1>3, <1>6, <1>7, <1>8

(* The chain is as long as there are nodes, so it has stopped growing: Leads is
   closed under the edges. *)
LEMMA LeadsIsClosed ==
    ASSUME NEW f, NEW from \in SUBSET Nodes(f), NEW e \in SUBSET (Nodes(f) \X Nodes(f)),
           IsFiniteSet(Nodes(f))
    PROVE  /\ Leads(f, from, e) \subseteq Nodes(f)
           /\ from \subseteq Leads(f, from, e)
           /\ ClosedUnder(e, Leads(f, from, e))
<1>1. PICK c \in [Nat -> SUBSET Nodes(f)] :
              /\ c[0] = from
              /\ \A n \in Nat : c[n + 1] = Nearer(c[n], e)
              /\ Leads(f, from, e) = c[Cardinality(Nodes(f))]
  BY LeadsUnfold
<1> DEFINE N == Nodes(f)
           k == Cardinality(N)
<1>2. k \in Nat
  BY FS_CardinalityType
<1>3. \A n \in Nat : c[n] \subseteq c[n + 1]
  BY <1>1 DEF Nearer
<1>4. ASSUME NEW n \in Nat, c[n + 1] = c[n] PROVE c[n + 2] = c[n + 1]
  <2>1. n + 1 \in Nat /\ (n + 1) + 1 = n + 2
    OBVIOUS
  <2>2. c[(n + 1) + 1] = Nearer(c[n + 1], e)
    BY <1>1, <2>1
  <2> QED
    BY <1>1, <1>4, <2>1, <2>2
<1>5. c[k + 1] = c[k]
  <2>1. k <= k
    BY <1>2
  <2>2. c \in [Nat -> SUBSET N] /\ IsFiniteSet(N) /\ Cardinality(N) <= k
    BY <2>1
  <2> HIDE DEF N, k
  <2> QED
    BY <1>2, <1>3, <1>4, <2>2, GrowthStops
<1>6. from \subseteq c[k]
  <2> DEFINE T == {n \in Nat : from \subseteq c[n]}
  <2>1. 0 \in T /\ \A n \in Nat : n \in T => n + 1 \in T
    BY <1>1, <1>3
  <2> HIDE DEF T
  <2>2. k \in T
    BY <1>2, <2>1, SetInduction
  <2> QED
    BY <2>2 DEF T
<1>7. ASSUME NEW p \in e, p[1] \in c[k] PROVE p[2] \in c[k]
  <2>1. p[2] \in Nearer(c[k], e)
    BY <1>7 DEF Nearer
  <2> QED
    BY <1>1, <1>2, <1>5, <2>1
<1> QED
  BY <1>1, <1>2, <1>6, <1>7 DEF ClosedUnder

(* Every set closed under the edges that holds the start holds Leads. *)
LEMMA LeadsIsLeast ==
    ASSUME NEW f, NEW from \in SUBSET Nodes(f), NEW e \in SUBSET (Nodes(f) \X Nodes(f)),
           IsFiniteSet(Nodes(f)), NEW X, from \subseteq X, ClosedUnder(e, X)
    PROVE  Leads(f, from, e) \subseteq X
<1>1. PICK c \in [Nat -> SUBSET Nodes(f)] :
              /\ c[0] = from
              /\ \A n \in Nat : c[n + 1] = Nearer(c[n], e)
              /\ Leads(f, from, e) = c[Cardinality(Nodes(f))]
  BY LeadsUnfold
<1> DEFINE T == {n \in Nat : c[n] \subseteq X}
<1>2. 0 \in T /\ \A n \in Nat : n \in T => n + 1 \in T
  <2>1. ASSUME NEW n \in Nat, n \in T PROVE Nearer(c[n], e) \subseteq X
    BY <2>1 DEF Nearer, ClosedUnder
  <2> QED
    BY <1>1, <2>1
<1> HIDE DEF T
<1>3. Cardinality(Nodes(f)) \in T
  BY <1>2, SetInduction, FS_CardinalityType
<1> QED
  BY <1>1, <1>3 DEF T

(* The edges around some gates. *)
LEMMA EdgesFacts ==
    ASSUME NEW f \in Graphs, NEW gates
    PROVE  /\ EdgesAround(f, gates) \in SUBSET (Nodes(f) \X Nodes(f))
           /\ \A u, d : <<u, d>> \in EdgesAround(f, gates) <=>
                 /\ u \in Nodes(f)
                 /\ \/ d \in Operands(f, u)
                    \/ \E k \in Parts : d \in Behind(f, u, k) /\ <<u, k>> \notin gates
<1> DEFINE Past(u) == Operands(f, u) \cup
                      UNION {Behind(f, u, k) : k \in {j \in Parts : <<u, j>> \notin gates}}
<1>1. EdgesAround(f, gates) = UNION {{u} \X Past(u) : u \in Nodes(f)}
  BY DEF EdgesAround
<1>2. \A u, d : d \in Past(u) <=>
          \/ d \in Operands(f, u)
          \/ \E k \in Parts : d \in Behind(f, u, k) /\ <<u, k>> \notin gates
  OBVIOUS
<1>3. ASSUME NEW u \in Nodes(f) PROVE Past(u) \subseteq Nodes(f)
  BY <1>2, GraphFacts
<1> HIDE DEF Past
<1>4. \A u, d : <<u, d>> \in EdgesAround(f, gates) <=> u \in Nodes(f) /\ d \in Past(u)
  BY <1>1
<1>5. EdgesAround(f, gates) \in SUBSET (Nodes(f) \X Nodes(f))
  BY <1>1, <1>3
<1> QED
  BY <1>2, <1>4, <1>5

-----------------------------------------------------------------------------
ChildrenWithin(X) == \A u \in X : Children(g, u) \subseteq X

(* No node is visited that the results do not lead to. *)
LeastInv ==
    \A X \in SUBSET Nodes(g) :
        Roots(g) \subseteq X /\ ChildrenWithin(X) => reach \cup frontier \subseteq X

(* The regions a placed node opens lie under its own, and no two loops      *)
(* share a body.                                                            *)
InnerInv ==
    /\ \A w \in Nodes(g), k \in Parts :
          inner[w][k] # Unplaced =>
              w \in Settled /\ inner[w][k] \in Regions /\ region[w] \in anc[inner[w][k]]
    /\ \A w, v \in Nodes(g) :
          inner[w]["body"] # Unplaced /\ inner[w]["body"] = inner[v]["body"] => w = v

(* What is reached without passing part k of node w. *)
Around(w, k) == Leads(g, Roots(g), EdgesAround(g, {<<w, k>>}))

(* StaysBehindItsGate, of the nodes placed so far. *)
GateInv ==
    \A w \in Nodes(g), k \in Parts :
        inner[w][k] # Unplaced =>
            \A d \in Settled \ Around(w, k) : inner[w][k] \in anc[region[d]]

(* The nodes of a region that are marked. *)
Marked(r) == {d \in is_pre : region[d] = r}

(* Of the body of a loop still to come, nothing is marked; of the body of   *)
(* the loop being walked, what was seen so far; of any other, its part of   *)
(* a set closed under children.                                             *)
ConeOf(w) ==
    LET b == inner[w]["body"]
    IN  /\ w \in loops => Marked(b) = {}
        /\ w \notin loops /\ w = walk /\ stk # {} =>
              /\ Marked(b) = {d \in seen : region[d] = b}
              /\ \A u \in seen : Children(g, u) \subseteq seen \cup stk
        /\ w \notin loops /\ ~ (w = walk /\ stk # {}) =>
              \E X \in SUBSET Nodes(g) :
                  ChildrenWithin(X) /\ Marked(b) = {d \in X : region[d] = b}

ConeInv ==
    /\ phase \in {"visit", "place"} => is_pre = {} /\ stk = {}
    /\ stk # {} => walk \in Nodes(g) \ loops
    /\ \A d \in is_pre : \E w \in Nodes(g) : region[d] = inner[w]["body"]
    /\ \A w \in Nodes(g) : inner[w]["body"] # Unplaced => ConeOf(w)

BucketInv ==
    phase = "done" =>
        /\ stk = {} /\ loops = {}
        /\ \A r \in Regions :
              /\ pre[r] = {d \in reach \cap Values(g) : region[d] = r} \cap is_pre
              /\ post[r] = {d \in reach \cap Values(g) : region[d] = r} \ is_pre

JInv == LeastInv /\ InnerInv /\ GateInv /\ ConeInv /\ BucketInv

(* Placing a node opens no region but new ones, under its own. *)
LEMMA PlaceInner ==
    ASSUME IInv, IInv', InnerInv, NEW u \in Nodes(g), Grows(u)
    PROVE  InnerInv'
<1>1. /\ g' = g /\ Settled' = Settled \cup {u} /\ Regions \subseteq Regions' /\ u \notin Settled
      /\ \A r \in Regions : anc'[r] = anc[r]
      /\ \A w \in Settled \cup {u} : region'[w] = region[w]
      /\ \A w \in Nodes(g) \ {u} : inner'[w] = inner[w]
      /\ Home(u) = region[u] /\ Opens(u)
  BY DEF Grows
<1>2. \A k \in Parts : inner[u][k] = Unplaced
  BY <1>1 DEF InnerInv
<1>3. ASSUME NEW w \in Nodes(g), NEW k \in Parts, inner'[w][k] # Unplaced
      PROVE  /\ w \in Settled' /\ inner'[w][k] \in Regions'
             /\ region'[w] \in anc'[inner'[w][k]]
  <2>1. CASE w = u
    BY <1>1, <1>2, <1>3, <2>1 DEF Opens
  <2>2. CASE w # u
    <3>1. /\ inner'[w][k] = inner[w][k] /\ w \in Settled /\ inner[w][k] \in Regions
          /\ region[w] \in anc[inner[w][k]]
      BY <1>1, <1>3, <2>2 DEF InnerInv
    <3> QED
      BY <1>1, <3>1
  <2> QED
    BY <2>1, <2>2
<1>4. "body" \in Parts /\ Unplaced \notin Regions
  BY DEF Parts, Unplaced, Regions, IInv, TypeOK
<1>5. ASSUME NEW w \in Nodes(g), inner'[w]["body"] # Unplaced
      PROVE  (w # u /\ inner'[w]["body"] = inner[w]["body"] /\ inner[w]["body"] \in Regions)
             \/ (w = u /\ inner'[w]["body"] \notin Regions)
  BY <1>1, <1>2, <1>4, <1>5 DEF InnerInv, Opens
<1>6. ASSUME NEW w \in Nodes(g), NEW v \in Nodes(g), inner'[w]["body"] # Unplaced,
             inner'[w]["body"] = inner'[v]["body"]
      PROVE  w = v
  <2>1. inner'[v]["body"] # Unplaced
    BY <1>6
  <2>2. w # u /\ v # u => inner[w]["body"] = inner[v]["body"] /\ inner[w]["body"] # Unplaced
    BY <1>1, <1>6
  <2> QED
    BY <1>5, <1>6, <2>1, <2>2 DEF InnerInv
<1> QED
  BY <1>1, <1>3, <1>6 DEF InnerInv

(* Nothing settled is behind a part of a node that is settled only now: its *)
(* users come first.                                                        *)
LEMMA SettledAround ==
    ASSUME IInv, IInv', LeastInv, NEW u \in Nodes(g), Grows(u), NEW k \in Parts
    PROVE  Settled' \subseteq Around(u, k)
<1> DEFINE L == Around(u, k)
           E == EdgesAround(g, {<<u, k>>})
           X == (L \cap reach) \cup (reach \ Settled')
<1>1. /\ g \in Graphs /\ g' = g /\ frontier = {} /\ reach \subseteq Nodes(g)
      /\ Roots(g) \subseteq reach /\ \A v \in reach : Children(g, v) \subseteq reach
      /\ u \in todo /\ todo' = todo \ {u}
      /\ Settled' = (reach \cap Values(g)) \ todo'
      /\ \A w \in todo : Children(g, w) \cap Values(g) \subseteq todo
      /\ \A w \in todo' : Children(g, w) \cap Values(g) \subseteq todo'
  BY DEF IInv, TypeOK, ReachInv, OrderInv, Grows, Settled
<1>2. /\ Roots(g) \subseteq L /\ ClosedUnder(E, L)
  <2>1. IsFiniteSet(Nodes(g)) /\ Roots(g) \in SUBSET Nodes(g)
    BY <1>1, ScheduleAssumption
  <2> QED
    BY <1>1, <2>1, EdgesFacts, LeadsIsClosed DEF Around
<1> HIDE DEF L, E
<1>3. ASSUME NEW v \in X, NEW d \in Children(g, v) PROVE d \in X
  <2>1. v \in reach /\ v \in Nodes(g) /\ d \in reach
    BY <1>1
  <2>2. CASE d \notin Settled'
    BY <2>1, <2>2
  <2>3. CASE d \in Settled'
    <3>1. d \in Values(g) /\ d \notin todo' /\ v \in Values(g)
      BY <1>1, <2>1, <2>3, GraphFacts
    <3>2. v # u
      <4>1. v = u => d \in todo /\ d # u
        BY <1>1, <3>1, GraphFacts
      <4> QED
        BY <1>1, <3>1, <4>1
    <3>3. v \notin todo'
      BY <1>1, <3>1
    <3>4. v \in L
      BY <1>1, <2>1, <3>1, <3>3
    <3>5. <<v, d>> \in E
      <4>1. \A j \in Parts : <<v, j>> \notin {<<u, k>>}
        BY <3>2
      <4>2. d \in Operands(g, v) \/ \E j \in Parts : d \in Behind(g, v, j)
        BY <1>1, <2>1, <3>1, GraphFacts
      <4> QED
        BY <1>1, <2>1, <4>1, <4>2, EdgesFacts DEF E
    <3>6. <<v, d>>[1] = v /\ <<v, d>>[2] = d
      OBVIOUS
    <3>7. d \in L
      BY <1>2, <3>4, <3>5, <3>6 DEF ClosedUnder
    <3> QED
      BY <2>1, <3>7
  <2> QED
    BY <2>2, <2>3
<1>4. X \in SUBSET Nodes(g) /\ Roots(g) \subseteq X
  BY <1>1, <1>2
<1>5. reach \subseteq X
  <2>1. ChildrenWithin(X)
    <3> HIDE DEF X
    <3> QED
      BY <1>3 DEF ChildrenWithin
  <2> HIDE DEF X
  <2> QED
    BY <1>4, <2>1 DEF LeastInv
<1>6. Settled' \subseteq reach
  BY <1>1
<1> QED
  BY <1>5, <1>6 DEF L

(* A node just settled stands behind every gate it is only needed behind:   *)
(* so does each of its readers.                                             *)
LEMMA PlaceGate ==
    ASSUME IInv, IInv', LeastInv, InnerInv, GateInv, NEW u \in Nodes(g), Grows(u)
    PROVE  GateInv'
<1>1. /\ g' = g /\ g \in Graphs /\ Settled' = Settled \cup {u} /\ Regions \subseteq Regions'
      /\ \A r \in Regions : anc'[r] = anc[r]
      /\ \A w \in Settled \cup {u} : region'[w] = region[w] /\ region[w] \in Regions
      /\ \A w \in Nodes(g) \ {u} : inner'[w] = inner[w]
      /\ Settled \subseteq Nodes(g)
  BY DEF Grows, IInv, TypeOK, Settled
<1>2. SUFFICES ASSUME NEW w \in Nodes(g), NEW k \in Parts, inner'[w][k] # Unplaced,
                      NEW d \in Settled', d \notin Around(w, k)
               PROVE  inner'[w][k] \in anc'[region'[d]]
  <2>1. \A w, k : Around(w, k)' = Around(w, k)
    BY <1>1 DEF Around
  <2> QED
    BY <1>1, <2>1 DEF GateInv
<1> DEFINE G == inner[w][k]
<1>3. w # u
  BY <1>2, SettledAround
<1>4. inner'[w][k] = G /\ G # Unplaced /\ G \in Regions
  BY <1>1, <1>2, <1>3 DEF InnerInv
<1>5. \A v \in Settled : v \notin Around(w, k) => G \in anc[region[v]]
  BY <1>4 DEF GateInv
<1> HIDE DEF G
<1>6. CASE d \in Settled
  <2>1. G \in anc[region[d]] /\ region'[d] = region[d] /\ region[d] \in Regions
    BY <1>1, <1>2, <1>5, <1>6
  <2> QED
    BY <1>1, <1>4, <2>1
<1>7. CASE d \notin Settled
  <2>1. d = u
    BY <1>1, <1>2, <1>7
  <2> DEFINE E == EdgesAround(g, {<<w, k>>})
  <2>2. /\ Roots(g) \subseteq Around(w, k)
        /\ ClosedUnder(E, Around(w, k))
    <3>1. IsFiniteSet(Nodes(g)) /\ Roots(g) \in SUBSET Nodes(g)
      BY <1>1, ScheduleAssumption
    <3> QED
      BY <1>1, <3>1, EdgesFacts, LeadsIsClosed DEF Around
  <2>3. ASSUME NEW v \in Settled, <<v, u>> \in E PROVE G \in anc[region[v]]
    <3>1. <<v, u>>[1] = v /\ <<v, u>>[2] = u
      OBVIOUS
    <3>2. v \notin Around(w, k)
      BY <1>2, <2>1, <2>2, <2>3, <3>1 DEF ClosedUnder
    <3> QED
      BY <1>5, <3>2
  <2>4. ASSUME NEW v \in Settled', u \in Operands(g, v) PROVE G \in anc'[region'[v]]
    <3>1. v \in Nodes(g)
      BY <1>1
    <3>2. v \in Settled
      BY <1>1, <2>4, <3>1, GraphFacts
    <3>3. <<v, u>> \in E
      BY <1>1, <2>4, <3>1, EdgesFacts
    <3>4. G \in anc[region[v]]
      BY <2>3, <3>2, <3>3
    <3> QED
      BY <1>1, <3>2, <3>4
  <2>5. ASSUME NEW v \in Settled', NEW j \in Parts, u \in Behind(g, v, j),
               inner'[v][j] \in Regions'
        PROVE  G \in anc'[inner'[v][j]]
    <3>1. v \in Nodes(g)
      BY <1>1
    <3>2. v \in Settled /\ v # u
      BY <1>1, <2>5, <3>1, GraphFacts
    <3>3. CASE v = w /\ j = k
      <4>1. G \in anc'[G]
        BY <1>1, <1>4 DEF IInv, TreeOf, Regions
      <4> QED
        BY <1>4, <3>3, <4>1
    <3>4. CASE ~ (v = w /\ j = k)
      <4>1. <<v, u>> \in E
        <5>1. <<v, j>> \notin {<<w, k>>}
          BY <3>4
        <5> QED
          BY <1>1, <2>5, <3>1, <5>1, EdgesFacts
      <4>2. G \in anc[region[v]]
        BY <2>3, <3>2, <4>1
      <4>3. inner[v][j] # Unplaced /\ inner'[v][j] = inner[v][j]
        <5>1. inner'[v][j] # Unplaced
          BY <2>5 DEF Regions, Unplaced
        <5> QED
          BY <1>1, <3>1, <3>2, <5>1
      <4>4. inner[v][j] \in Regions /\ region[v] \in anc[inner[v][j]]
        BY <3>1, <4>3 DEF InnerInv
      <4>5. anc[region[v]] \subseteq anc[inner[v][j]]
        BY <4>4 DEF IInv, TreeOf, Regions
      <4> QED
        BY <1>1, <4>2, <4>3, <4>4, <4>5
    <3> QED
      BY <3>3, <3>4
  <2>6. u \in Values(g) /\ u \notin Roots(g)
    BY <1>2, <2>1, <2>2 DEF Grows
  <2>7. ASSUME NEW r \in Sites(u)' PROVE G \in anc'[r]
    <3>1. r \in Regions'
      BY <1>1, <2>6, <2>7 DEF IInv, DefsDominateUses
    <3>2. \E v \in Settled' :
              \/ u \in Operands(g, v) /\ r = region'[v]
              \/ \E j \in Parts : u \in Behind(g, v, j) /\ r = inner'[v][j]
      BY <1>1, <2>7 DEF Sites
    <3> QED
      BY <2>4, <2>5, <3>1, <3>2
  <2>8. region'[u] # Unplaced /\ G \in Regions'
    <3>1. region'[u] \in Regions
      BY <1>1
    <3> QED
      BY <1>1, <1>4, <3>1 DEF Regions, Unplaced
  <2>9. G \in anc'[region'[u]]
    BY <1>1, <2>6, <2>7, <2>8 DEF IInv, DeepInv
  <2> QED
    BY <1>4, <2>1, <2>9
<1> QED
  BY <1>6, <1>7

(* Before the walks, nothing is marked. *)
LEMMA NothingMarked == is_pre = {} /\ stk = {} => ConeInv
<1> SUFFICES ASSUME is_pre = {}, stk = {} PROVE ConeInv
  OBVIOUS
<1>1. \A r : Marked(r) = {}
  BY DEF Marked
<1>2. {} \in SUBSET Nodes(g) /\ ChildrenWithin({}) /\ \A r : {d \in {} : region[d] = r} = {}
  BY DEF ChildrenWithin
<1>3. \A w : ConeOf(w)
  BY <1>1, <1>2 DEF ConeOf
<1> QED
  BY <1>3 DEF ConeInv

(* Placing a node keeps the second invariant. *)
LEMMA PlaceKeepsJInv ==
    ASSUME IInv, JInv, NEW u \in Nodes(g), Place(u)
    PROVE  JInv'
<1>1. IInv' /\ Grows(u)
  BY PlaceStep
<1>2. InnerInv' /\ GateInv'
  BY <1>1, PlaceInner, PlaceGate DEF JInv
<1>3. LeastInv'
  BY <1>1 DEF JInv, LeastInv, Grows, ChildrenWithin
<1>4. is_pre' = {} /\ stk' = {} /\ phase' = "place"
  BY <1>1 DEF JInv, ConeInv, Grows, cone
<1>5. (is_pre = {} /\ stk = {} => ConeInv)'
  BY NothingMarked, PTL
<1>6. ConeInv' /\ BucketInv'
  BY <1>4, <1>5 DEF BucketInv
<1> QED
  BY <1>2, <1>3, <1>6 DEF JInv

(* The steps that place nothing leave the places as they are. *)
LEMMA SamePlaces ==
    ASSUME UNCHANGED <<g, tree>>, Settled' = Settled, InnerInv, GateInv
    PROVE  InnerInv' /\ GateInv'
<1>1. /\ g' = g /\ region' = region /\ inner' = inner /\ anc' = anc /\ Regions' = Regions
      /\ \A w, k : Around(w, k)' = Around(w, k)
  BY DEF tree, Regions, Around
<1> QED
  BY <1>1 DEF InnerInv, GateInv

(* Starting on a loop marks nothing yet. *)
LEMMA StartConeStep ==
    ASSUME IInv, ConeInv, InnerInv, NEW u \in Nodes(g), StartCone(u)
    PROVE  ConeInv'
<1>1. /\ u \in loops /\ loops' = loops \ {u} /\ stk = {} /\ walk' = u /\ seen' = {}
      /\ g' = g /\ region' = region /\ inner' = inner /\ is_pre' = is_pre /\ phase' = "cone"
      /\ \A r : Marked(r)' = Marked(r)
      /\ \A X : ChildrenWithin(X)' = ChildrenWithin(X)
  BY DEF StartCone, tree, Marked, ChildrenWithin
<1>2. ASSUME NEW w \in Nodes(g), inner[w]["body"] # Unplaced PROVE ConeOf(w)'
  <2> DEFINE b == inner[w]["body"]
  <2>1. ConeOf(w)
    BY <1>2 DEF ConeInv
  <2>2. CASE w = u
    <3>1. Marked(b) = {}
      BY <1>1, <2>1, <2>2 DEF ConeOf
    <3>2. {} \in SUBSET Nodes(g) /\ ChildrenWithin({}) /\ {d \in {} : region[d] = b} = {}
      BY DEF ChildrenWithin
    <3> QED
      BY <1>1, <2>2, <3>1, <3>2 DEF ConeOf
  <2>3. CASE w # u
    BY <1>1, <2>1, <2>3 DEF ConeOf
  <2> QED
    BY <2>2, <2>3
<1> QED
  BY <1>1, <1>2 DEF ConeInv

(* One more round of the walk marks, of the body, what it has seen. *)
LEMMA ConeStep ==
    ASSUME IInv, ConeInv, InnerInv, Cone
    PROVE  ConeInv'
<1>1. /\ stk # {} /\ seen' = seen \cup stk
      /\ is_pre' = is_pre \cup {d \in stk : region[d] = inner[walk]["body"]}
      /\ stk' = (UNION {Children(g, d) : d \in stk}) \ seen'
      /\ g' = g /\ region' = region /\ inner' = inner /\ phase' = "cone"
      /\ loops' = loops /\ walk' = walk
      /\ \A X : ChildrenWithin(X)' = ChildrenWithin(X)
      /\ seen \cup stk \subseteq Nodes(g)
  BY DEF Cone, tree, ChildrenWithin, IInv, TypeOK
<1>2. walk \in Nodes(g) \ loops
  BY <1>1 DEF ConeInv
<1>3. ASSUME NEW w \in Nodes(g), inner[w]["body"] # Unplaced PROVE ConeOf(w)'
  <2> DEFINE b == inner[w]["body"]
  <2>1. ConeOf(w)
    BY <1>3 DEF ConeInv
  <2>2. CASE w = walk
    <3>1. /\ Marked(b) = {d \in seen : region[d] = b}
          /\ \A v \in seen : Children(g, v) \subseteq seen \cup stk
      BY <1>1, <1>2, <2>1, <2>2 DEF ConeOf
    <3>2. Marked(b)' = {d \in seen' : region[d] = b}
      BY <1>1, <2>2, <3>1 DEF Marked
    <3>3. \A v \in seen' : Children(g, v) \subseteq seen' \cup stk'
      BY <1>1, <3>1
    <3>4. stk' = {} => seen' \in SUBSET Nodes(g) /\ ChildrenWithin(seen')
      BY <1>1, <3>3 DEF ChildrenWithin
    <3> QED
      BY <1>1, <1>2, <2>2, <3>2, <3>3, <3>4 DEF ConeOf
  <2>3. CASE w # walk
    <3>1. inner[walk]["body"] # b
      BY <1>2, <1>3, <2>3 DEF InnerInv
    <3>2. Marked(b)' = Marked(b)
      BY <1>1, <3>1 DEF Marked
    <3> QED
      BY <1>1, <2>1, <2>3, <3>2 DEF ConeOf
  <2> QED
    BY <2>2, <2>3
<1>4. \A d \in is_pre' : \E w \in Nodes(g) : region[d] = inner[w]["body"]
  BY <1>1, <1>2 DEF ConeInv
<1> QED
  BY <1>1, <1>2, <1>3, <1>4 DEF ConeInv

(* What the gates and the cones rest on holds throughout. *)
THEOREM ConesAndGates == Spec => []JInv
<1>1. Init => JInv
  <2> SUFFICES ASSUME Init PROVE JInv
    OBVIOUS
  <2>1. LeastInv
    BY DEF Init, LeastInv
  <2>2. Settled = {} /\ \A w \in Nodes(g), k \in Parts : inner[w][k] = Unplaced
    BY DEF Init, Settled
  <2>3. InnerInv /\ GateInv
    BY <2>2 DEF InnerInv, GateInv, Parts
  <2>4. ConeInv /\ BucketInv
    BY NothingMarked DEF Init, BucketInv
  <2> QED
    BY <2>1, <2>3, <2>4 DEF JInv
<1>2. IInv /\ JInv /\ [Next]_vars => JInv'
  <2> SUFFICES ASSUME IInv, JInv, [Next]_vars PROVE JInv'
    OBVIOUS
  <2>0. g \in Graphs /\ TypeOK /\ LeastInv /\ InnerInv /\ GateInv /\ ConeInv /\ BucketInv
        /\ OrderInv
    BY DEF JInv, IInv
  <2>n. (is_pre = {} /\ stk = {} => ConeInv)'
    BY NothingMarked, PTL
  <2>1. CASE Visit
    <3>1. /\ g' = g /\ reach' = reach \cup frontier /\ phase = "visit" /\ phase' = "visit"
          /\ frontier' \subseteq UNION {Children(g, u) : u \in frontier}
      BY <2>1 DEF Visit
    <3>2. LeastInv'
      BY <2>0, <3>1 DEF LeastInv, ChildrenWithin
    <3>3. Settled' = Settled /\ UNCHANGED <<g, tree>>
      BY <2>1 DEF Visit, Settled
    <3>4. ConeInv' /\ BucketInv'
      BY <2>0, <2>1, <2>n, <3>1 DEF Visit, cone, ConeInv, BucketInv
    <3> QED
      BY <2>0, <3>2, <3>3, <3>4, SamePlaces DEF JInv
  <2>2. CASE VisitDone
    <3>1. LeastInv'
      BY <2>0, <2>2 DEF LeastInv, ChildrenWithin, VisitDone
    <3>2. Settled' = Settled /\ UNCHANGED <<g, tree>>
      BY <2>2 DEF VisitDone, Settled
    <3>3. ConeInv' /\ BucketInv'
      BY <2>0, <2>2, <2>n DEF VisitDone, cone, ConeInv, BucketInv
    <3> QED
      BY <2>0, <3>1, <3>2, <3>3, SamePlaces DEF JInv
  <2>3. ASSUME NEW u \in Nodes(g), Place(u) PROVE JInv'
    BY <2>3, PlaceKeepsJInv
  <2>4. CASE PlaceDone
    <3>1. LeastInv'
      BY <2>0, <2>4 DEF LeastInv, ChildrenWithin, PlaceDone
    <3>2. Settled' = Settled /\ UNCHANGED <<g, tree>>
      BY <2>4 DEF PlaceDone, Settled
    <3>3. ConeInv' /\ BucketInv'
      BY <2>0, <2>4, <2>n DEF PlaceDone, ConeInv, BucketInv
    <3> QED
      BY <2>0, <3>1, <3>2, <3>3, SamePlaces DEF JInv
  <2>5. ASSUME NEW u \in Nodes(g), StartCone(u) PROVE JInv'
    <3>1. LeastInv'
      BY <2>0, <2>5 DEF LeastInv, ChildrenWithin, StartCone
    <3>2. Settled' = Settled /\ UNCHANGED <<g, tree>>
      BY <2>5 DEF StartCone, Settled
    <3>3. ConeInv' /\ BucketInv'
      BY <2>0, <2>5, StartConeStep DEF StartCone, BucketInv
    <3> QED
      BY <2>0, <3>1, <3>2, <3>3, SamePlaces DEF JInv
  <2>6. CASE Cone
    <3>1. LeastInv'
      BY <2>0, <2>6 DEF LeastInv, ChildrenWithin, Cone
    <3>2. Settled' = Settled /\ UNCHANGED <<g, tree>>
      BY <2>6 DEF Cone, Settled
    <3>3. ConeInv' /\ BucketInv'
      BY <2>0, <2>6, ConeStep DEF Cone, BucketInv
    <3> QED
      BY <2>0, <3>1, <3>2, <3>3, SamePlaces DEF JInv
  <2>7. ASSUME UNCHANGED <<g, reach, frontier, tree, cone>>, Settled' = Settled,
               phase \in {"visit", "place"} \/ phase' = phase \/ phase' = "done"
        PROVE  LeastInv' /\ InnerInv' /\ GateInv' /\ ConeInv'
    <3>1. LeastInv'
      BY <2>0, <2>7 DEF LeastInv, ChildrenWithin
    <3>2. InnerInv' /\ GateInv'
      BY <2>0, <2>7, SamePlaces
    <3>3. /\ \A X : ChildrenWithin(X)' = ChildrenWithin(X)
          /\ \A r : Marked(r)' = Marked(r)
      BY <2>7 DEF ChildrenWithin, Marked, tree, cone
    <3>4. \A w : ConeOf(w)' = ConeOf(w)
      BY <2>7, <3>3 DEF ConeOf, tree, cone
    <3>5. ConeInv'
      BY <2>0, <2>7, <3>4 DEF ConeInv, tree, cone
    <3> QED
      BY <3>1, <3>2, <3>5
  <2>8. CASE Bucket
    <3>1. LeastInv' /\ InnerInv' /\ GateInv' /\ ConeInv'
      BY <2>7, <2>8 DEF Bucket, Settled
    <3>2. BucketInv'
      BY <2>8 DEF Bucket, BucketInv, Regions, tree, cone
    <3> QED
      BY <3>1, <3>2 DEF JInv
  <2>9. CASE UNCHANGED vars
    <3>1. LeastInv' /\ InnerInv' /\ GateInv' /\ ConeInv'
      BY <2>7, <2>9 DEF vars, Settled
    <3>2. BucketInv'
      BY <2>0, <2>9 DEF vars, BucketInv, Regions, tree, cone
    <3> QED
      BY <3>1, <3>2 DEF JInv
  <2> QED
    BY <2>1, <2>2, <2>3, <2>4, <2>5, <2>6, <2>8, <2>9 DEF Next, Terminated
<1> QED
  BY <1>1, <1>2, Invariance, PTL DEF Spec

(* Whatever the graph, what only an arm or a loop body needs stays in it. *)
THEOREM GatesHold == Spec => []StaysBehindItsGate
<1>1. IInv /\ JInv => StaysBehindItsGate
  <2> SUFFICES ASSUME IInv, JInv, phase \in {"cone", "done"}, NEW w \in reach, NEW k \in Parts,
                      inner[w][k] # Unplaced, NEW d \in reach \cap Values(g),
                      d \notin Around(w, k)
               PROVE  inner[w][k] \in anc[region[d]]
    BY DEF StaysBehindItsGate, Around
  <2>1. d \in Settled /\ w \in Nodes(g)
    BY DEF Settled, IInv, OrderInv, TypeOK
  <2> QED
    BY <2>1 DEF JInv, GateInv
<1> QED
  BY <1>1, Invariance, ConesAndGates, PTL

(* Whatever the graph, nothing before an exit test depends on what is       *)
(* computed after it.                                                       *)
THEOREM TestsComeFirst == Spec => []PreNeverReadsPost
<1>1. IInv /\ JInv => PreNeverReadsPost
  <2> SUFFICES ASSUME IInv, JInv, phase = "done", NEW r \in Regions
               PROVE  post[r] \cap Leads(g, pre[r], EdgesAround(g, {})) = {}
    BY DEF PreNeverReadsPost
  <2>1. /\ g \in Graphs /\ reach \subseteq Nodes(g) /\ stk = {} /\ loops = {}
        /\ pre[r] = {d \in reach \cap Values(g) : region[d] = r} \cap is_pre
        /\ post[r] = {d \in reach \cap Values(g) : region[d] = r} \ is_pre
    BY DEF IInv, TypeOK, JInv, BucketInv
  <2>2. PICK X \in SUBSET Nodes(g) : ChildrenWithin(X) /\ Marked(r) = {d \in X : region[d] = r}
    <3>1. CASE \E w \in Nodes(g) : inner[w]["body"] = r
      <4>1. PICK w \in Nodes(g) : inner[w]["body"] = r
        BY <3>1
      <4>2. r # Unplaced
        BY DEF Regions, Unplaced
      <4>3. ConeOf(w)
        BY <4>1, <4>2 DEF JInv, ConeInv
      <4> QED
        BY <2>1, <4>1, <4>3 DEF ConeOf
    <3>2. CASE ~ \E w \in Nodes(g) : inner[w]["body"] = r
      <4>1. Marked(r) = {}
        BY <3>2 DEF Marked, JInv, ConeInv
      <4>2. {} \in SUBSET Nodes(g) /\ ChildrenWithin({}) /\ {d \in {} : region[d] = r} = {}
        BY DEF ChildrenWithin
      <4> QED
        BY <4>1, <4>2
    <3> QED
      BY <3>1, <3>2
  <2>3. pre[r] \subseteq X /\ pre[r] \in SUBSET Nodes(g)
    BY <2>1, <2>2 DEF Marked
  <2> DEFINE E == EdgesAround(g, {})
  <2>4. ClosedUnder(E, X)
    <3> SUFFICES ASSUME NEW p \in E, p[1] \in X PROVE p[2] \in X
      BY DEF ClosedUnder
    <3>1. p = <<p[1], p[2]>> /\ p[1] \in Nodes(g)
      BY <2>1, EdgesFacts
    <3>2. p[2] \in Operands(g, p[1]) \/ \E k \in Parts : p[2] \in Behind(g, p[1], k)
      <4>1. <<p[1], p[2]>> \in E
        BY <3>1
      <4>2. \A u, d : <<u, d>> \in E <=>
                /\ u \in Nodes(g)
                /\ \/ d \in Operands(g, u)
                   \/ \E k \in Parts : d \in Behind(g, u, k) /\ <<u, k>> \notin {}
        BY <2>1, EdgesFacts
      <4> HIDE DEF E
      <4> QED
        BY <4>1, <4>2
    <3>3. p[2] \in Children(g, p[1])
      BY <2>1, <3>1, <3>2, GraphFacts
    <3> QED
      BY <2>2, <3>3 DEF ChildrenWithin
  <2>5. Leads(g, pre[r], E) \subseteq X
    BY <2>1, <2>3, <2>4, EdgesFacts, ScheduleAssumption, LeadsIsLeast
  <2>6. post[r] \cap X = {}
    BY <2>1, <2>2 DEF Marked
  <2> QED
    BY <2>5, <2>6
<1> QED
  BY <1>1, Invariance, ConesAndGates, PTL
=============================================================================
