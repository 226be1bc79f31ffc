-------------------------- MODULE ForkChoiceProofs --------------------------
(***************************************************************************)
(* What ForkChoice promises, for any tree of blocks, any votes, any number *)
(* of validators and any bounds: where the head and the safe target may    *)
(* be, what the node votes for, and what pruning and the bookkeeping of    *)
(* votes keep intact.                                                      *)
(*                                                                         *)
(* The order: trees and the LMD-GHOST descent over one (no state), the     *)
(* vote buffers, the inductive invariant IInv handler by handler, and the  *)
(* properties.                                                             *)
(***************************************************************************)
EXTENDS ForkChoice, FiniteSetTheorems, TLAPS

\* The time the provers have for a leaf; the leaves that are pure logic name Zenon.
USE SMTT(30), ZenonT(30)

\* A set of naturals has a least element.  (Initial segments are finite sets, and
\* inclusion is well founded on those.)
LEMMA LeastNatural ==
    ASSUME NEW S \in SUBSET Nat, S # {}
    PROVE  \E m \in S : \A k \in S : m <= k
<1> DEFINE R == StrictSubsetOrdering(Nat)
           T == {0 .. m : m \in S}
<1>1. IsWellFoundedOn(R, FiniteSubsetsOf(Nat))
  BY FS_StrictSubsetOrderingWellFounded
<1>2. ASSUME NEW m \in S PROVE 0 .. m \in FiniteSubsetsOf(Nat)
  <2>1. IsFiniteSet(0 .. m)
    BY FS_Interval
  <2> QED
    BY <2>1 DEF FiniteSubsetsOf
<1>3. T \subseteq FiniteSubsetsOf(Nat) /\ T # {}
  BY ZenonT(30), <1>2
<1> HIDE DEF R
<1>4. PICK X \in T : \A Y \in T : ~(<<Y, X>> \in R)
  BY ZenonT(30), <1>1, <1>3, WFMin
<1>5. PICK m \in S : X = 0 .. m
  BY <1>4
<1>6. ASSUME NEW k \in S, k < m PROVE FALSE
  <2>1. <<0 .. k, 0 .. m>> \in R
    BY <1>6 DEF R, StrictSubsetOrdering
  <2> QED
    BY ZenonT(30), <1>4, <1>5, <2>1
<1> QED
  BY <1>6

\* A bounded one has a greatest element.
LEMMA GreatestNatural ==
    ASSUME NEW S \in SUBSET Nat, S # {}, NEW bound \in Nat, \A k \in S : k <= bound
    PROVE  \E m \in S : \A k \in S : k <= m
<1> DEFINE T == {bound - k : k \in S}
<1>1. \A k \in S : bound - k \in Nat
  OBVIOUS
<1>2. T \in SUBSET Nat /\ T # {}
  BY ZenonT(30), <1>1
<1> HIDE DEF T
<1>3. PICK n \in T : \A k \in T : n <= k
  BY <1>2, LeastNatural
<1>4. PICK m \in S : n = bound - m
  BY DEF T
<1>5. \A k \in S : bound - k \in T
  BY DEF T
<1>6. \A k \in S : k <= m
  BY <1>3, <1>4, <1>5
<1> QED
  BY <1>6

-----------------------------------------------------------------------------
\* A block and all before it.
Chain(b) == {b} \cup Ancestors[b]

\* Ancestry is transitive, goes back to the genesis block and does not branch.
Linear(b) ==
    /\ Genesis \in Chain(b)
    /\ \A a \in Chain(b) : Ancestors[a] \subseteq Ancestors[b]
    /\ \A c, d \in Chain(b) : c \in Chain(d) \/ d \in Chain(c)
    /\ \A a \in Ancestors[b] : SlotOf[a] < SlotOf[b]

\* By induction on the slot of the block.
LEMMA ChainsAreLinear == \A b \in Blocks : Linear(b)
<1> DEFINE Counter == {b \in Blocks : ~Linear(b)}
           S == {SlotOf[b] : b \in Counter}
<1> SUFFICES ASSUME Counter # {} PROVE FALSE
  OBVIOUS
<1>1. S \in SUBSET Nat /\ S # {}
  BY TreeAssumption
<1>2. PICK m \in S : \A k \in S : m <= k
  BY ZenonT(30), <1>1, LeastNatural
<1>3. PICK b \in Counter : SlotOf[b] = m
  BY <1>2
<1>4. CASE b = Genesis
  BY <1>3, <1>4, TreeAssumption DEF Linear, Chain
<1>5. CASE b # Genesis
  <2> DEFINE p == ParentOf[b]
  <2>1. /\ b \in Blocks /\ p \in Blocks
        /\ Ancestors[b] = {p} \cup Ancestors[p]
        /\ \A a \in Ancestors[b] : SlotOf[a] < SlotOf[b]
        /\ Ancestors[p] \subseteq Blocks
    BY <1>3, <1>5, TreeAssumption
  <2>2. SlotOf[p] \in Nat /\ SlotOf[b] \in Nat /\ SlotOf[p] < SlotOf[b]
    BY <2>1, TreeAssumption
  <2> HIDE DEF p
  <2>3. Linear(p)
    <3>1. SUFFICES ASSUME p \in Counter PROVE FALSE
      BY <2>1
    <3>2. SlotOf[p] \in S
      BY <3>1
    <3> QED
      BY <1>2, <1>3, <2>2, <3>2
  <2>4. Chain(b) = {b} \cup Chain(p)
    BY <2>1 DEF Chain
  <2>5. /\ Genesis \in Chain(b)
        /\ \A a \in Chain(b) : Ancestors[a] \subseteq Ancestors[b]
    BY <2>1, <2>3, <2>4 DEF Linear, Chain
  <2>6. \A c, d \in Chain(b) : c \in Chain(d) \/ d \in Chain(c)
    BY <2>3, <2>4 DEF Linear, Chain
  <2> QED
    BY <1>3, <2>1, <2>5, <2>6 DEF Linear
<1> QED
  BY <1>4, <1>5

\* The same, as facts about two blocks of a chain.
LEMMA OnOneChain ==
    ASSUME NEW b \in Blocks, NEW c \in Chain(b), NEW d \in Chain(b)
    PROVE  /\ c \in Blocks
           /\ Chain(c) \subseteq Chain(b)
           /\ SlotOf[c] <= SlotOf[b]
           /\ SlotOf[c] <= SlotOf[d] => c \in Chain(d)
<1>1. Linear(b)
  BY ChainsAreLinear
<1>2. c \in Blocks /\ d \in Blocks
  BY TreeAssumption DEF Chain
<1>3. Linear(c) /\ Linear(d)
  BY <1>2, ChainsAreLinear
<1>4. SlotOf[b] \in Nat /\ SlotOf[c] \in Nat /\ SlotOf[d] \in Nat
  BY <1>2, TreeAssumption
<1>5. Chain(c) \subseteq Chain(b) /\ SlotOf[c] <= SlotOf[b]
  BY <1>1, <1>4 DEF Linear, Chain
<1>6. ASSUME SlotOf[c] <= SlotOf[d] PROVE c \in Chain(d)
  BY <1>1, <1>3, <1>4, <1>6 DEF Linear, Chain
<1> QED
  BY <1>2, <1>5, <1>6

-----------------------------------------------------------------------------
\* Among some blocks there is one that max_by_key can return.
LEMMA BestExists ==
    ASSUME NEW S \in SUBSET Blocks, S # {}, NEW w, NEW bound \in Nat,
           \A c \in S : w[c] \in Nat /\ w[c] <= bound /\ Rank[c] <= bound
    PROVE  \E c \in S : \A d \in S : w[d] < w[c] \/ (w[d] = w[c] /\ Rank[d] <= Rank[c])
<1> DEFINE weights == {w[c] : c \in S}
<1>1. weights \in SUBSET Nat /\ weights # {} /\ \A k \in weights : k <= bound
  OBVIOUS
<1> HIDE DEF weights
<1>2. PICK most \in weights : \A k \in weights : k <= most
  BY ZenonT(30), <1>1, GreatestNatural
<1> DEFINE heaviest == {c \in S : w[c] = most}
           ranks == {Rank[c] : c \in heaviest}
<1>3. heaviest # {} /\ \A c \in S : w[c] <= most
  BY <1>2 DEF weights
<1>4. ranks \in SUBSET Nat /\ ranks # {} /\ \A k \in ranks : k <= bound
  BY <1>3, TreeAssumption
<1> HIDE DEF ranks
<1>5. PICK highest \in ranks : \A k \in ranks : k <= highest
  BY ZenonT(30), <1>4, GreatestNatural
<1>6. PICK c \in heaviest : Rank[c] = highest
  BY DEF ranks
<1>7. \A d \in heaviest : Rank[d] <= Rank[c]
  BY <1>5, <1>6 DEF ranks
<1>8. ASSUME NEW d \in S PROVE w[d] < w[c] \/ (w[d] = w[c] /\ Rank[d] <= Rank[c])
  <2>1. w[c] = most /\ w[c] \in Nat /\ w[d] \in Nat /\ w[d] <= most
    BY <1>3
  <2>2. CASE w[d] = most
    BY <1>7, <2>1, <2>2
  <2>3. CASE w[d] # most
    BY <2>1, <2>3
  <2> QED
    BY <2>2, <2>3
<1> QED
  BY <1>8

\* The descent ends: from the last block it can reach there is no child to go to.
LEMMA GhostExists ==
    ASSUME NEW blocks \in SUBSET Blocks, NEW start \in blocks, NEW w,
           NEW min_score \in Nat, NEW bound \in Nat,
           \A b \in blocks : w[b] \in Nat /\ w[b] <= bound /\ Rank[b] <= bound /\ SlotOf[b] <= bound
    PROVE  \E b \in blocks : /\ reached(b, start, blocks, w, min_score)
                             /\ children(b, blocks, w, min_score) = {}
<1> DEFINE R == {b \in blocks : reached(b, start, blocks, w, min_score)}
           slots == {SlotOf[b] : b \in R}
<1>1. start \in R
  <2>1. \A c \in {start} \cup Ancestors[start] : start \notin Ancestors[c]
    BY ChainsAreLinear, TreeAssumption DEF Linear, Chain
  <2> QED
    BY <2>1 DEF reached
<1>2. slots \in SUBSET Nat /\ slots # {} /\ \A k \in slots : k <= bound
  BY <1>1, TreeAssumption
<1>3. PICK last \in slots : \A k \in slots : k <= last
  BY ZenonT(30), <1>2, GreatestNatural
<1>4. PICK b \in R : SlotOf[b] = last
  BY <1>3
<1> HIDE DEF R
<1>5. \A c \in R : SlotOf[c] <= SlotOf[b]
  BY <1>3, <1>4
<1>6. b \in blocks /\ reached(b, start, blocks, w, min_score)
  BY DEF R
<1> DEFINE next == children(b, blocks, w, min_score)
<1>7. ASSUME next # {} PROVE FALSE
  <2>1. next \in SUBSET Blocks /\ \A c \in next : w[c] \in Nat /\ w[c] <= bound /\ Rank[c] <= bound
    BY DEF children
  <2> HIDE DEF next
  <2>2. PICK c \in next : \A d \in next : w[d] < w[c] \/ (w[d] = w[c] /\ Rank[d] <= Rank[c])
    BY ZenonT(30), <1>7, <2>1, BestExists
  <2>3. c \in blocks \ {Genesis} /\ c \in Blocks /\ ParentOf[c] = b
    BY DEF next, children
  <2>4. best_child(c, blocks, w, min_score)
    BY <2>2, <2>3 DEF best_child, next
  <2>5. Ancestors[c] = {b} \cup Ancestors[b] /\ SlotOf[b] < SlotOf[c]
    BY <2>3, TreeAssumption
  <2>6. start \in Ancestors[c]
    BY <1>6, <2>5 DEF reached
  <2>7. reached(c, start, blocks, w, min_score)
    BY <1>6, <2>4, <2>5, <2>6 DEF reached
  <2>8. SlotOf[c] <= SlotOf[b]
    BY <1>5, <2>3, <2>7 DEF R
  <2> QED
    BY <2>3, <2>5, <2>8, <1>6, TreeAssumption
<1> QED
  BY <1>6, <1>7

\* The votes for a block, counted over finitely many voters.
LEMMA WeightType ==
    ASSUME NEW b, NEW s, NEW blocks, NEW attestations, IsFiniteSet(DOMAIN attestations)
    PROVE  /\ weight(b, s, blocks, attestations) \in Nat
           /\ weight(b, s, blocks, attestations) <= Cardinality(DOMAIN attestations)
<1> DEFINE V == {v \in DOMAIN attestations : b \in walk(attestations[v].head.root, s, blocks)}
<1>1. V \in SUBSET (DOMAIN attestations)
  OBVIOUS
<1> HIDE DEF V
<1>2. /\ IsFiniteSet(V) /\ Cardinality(V) <= Cardinality(DOMAIN attestations)
      /\ Cardinality(V) \in Nat
  BY <1>1, FS_Subset, FS_CardinalityType
<1> QED
  BY <1>2 DEF weight, V

\* The weights compute_lmd_ghost_head compares.
weights(start, blocks, attestations) ==
    [b \in blocks |-> weight(b, SlotOf[start], blocks, attestations)]

(***************************************************************************)
(* What compute_lmd_ghost_head returns: a block that the descent reaches   *)
(* and that has no child to go on to.                                      *)
(***************************************************************************)
LEMMA GhostHead ==
    ASSUME NEW blocks \in SUBSET Blocks, NEW start \in blocks, NEW attestations,
           IsFiniteSet(DOMAIN attestations), NEW min_score \in Nat, NEW bound \in Nat,
           \A b \in blocks : Rank[b] <= bound /\ SlotOf[b] <= bound,
           NEW found, found = compute_lmd_ghost_head(start, blocks, attestations, min_score)
    PROVE  /\ found \in blocks
           /\ reached(found, start, blocks, weights(start, blocks, attestations), min_score)
           /\ children(found, blocks, weights(start, blocks, attestations), min_score) = {}
<1> DEFINE w == weights(start, blocks, attestations)
           voters == Cardinality(DOMAIN attestations)
           top == IF voters > bound THEN voters ELSE bound
<1>1. voters \in Nat
  BY FS_CardinalityType
<1>2. \A b \in blocks : w[b] \in Nat /\ w[b] <= voters
  BY WeightType DEF weights
<1> HIDE DEF w, voters
<1>3. top \in Nat /\ bound <= top /\ voters <= top
  BY <1>1
<1>4. \A b \in blocks : w[b] \in Nat /\ w[b] <= top /\ Rank[b] <= top /\ SlotOf[b] <= top
  <2> TAKE b \in blocks
  <2>1. w[b] \in Nat /\ Rank[b] \in Nat /\ SlotOf[b] \in Nat /\ w[b] <= voters
    BY <1>2, TreeAssumption
  <2> QED
    BY <1>1, <1>3, <2>1
<1> HIDE DEF top
<1>5. \E b \in blocks : /\ reached(b, start, blocks, w, min_score)
                        /\ children(b, blocks, w, min_score) = {}
  BY ZenonT(30), <1>3, <1>4, GhostExists
<1>6. found = CHOOSE b \in blocks : /\ reached(b, start, blocks, w, min_score)
                                    /\ children(b, blocks, w, min_score) = {}
  BY ZenonT(30) DEF compute_lmd_ghost_head, w, weights
<1> QED
  BY <1>5, <1>6 DEF w

\* The votes that weight counts are support.
LEMMA WeightIsSupport ==
    ASSUME NEW b, NEW s, NEW blocks, NEW all, blocks \subseteq all, NEW attestations,
           IsFiniteSet(DOMAIN attestations)
    PROVE  /\ weight(b, s, blocks, attestations) \in Nat
           /\ Cardinality(Support(b, all, attestations)) \in Nat
           /\ weight(b, s, blocks, attestations) <= Cardinality(Support(b, all, attestations))
  <1> DEFINE V == {v \in DOMAIN attestations : b \in walk(attestations[v].head.root, s, blocks)}
             W == Support(b, all, attestations)
  <1>1. W \in SUBSET (DOMAIN attestations)
    BY DEF Support
  <1>2. V \in SUBSET W
    <2> SUFFICES ASSUME NEW v \in V PROVE v \in W
      OBVIOUS
    <2> DEFINE root == attestations[v].head.root
    <2>1. b \in walk(root, s, blocks) /\ v \in DOMAIN attestations
      OBVIOUS
    <2> HIDE DEF root
    <2>2. root \in blocks /\ OnChain(b, root)
      BY <2>1 DEF walk, OnChain
    <2> QED
      BY <2>1, <2>2 DEF Support, root
  <1> HIDE DEF V, W
  <1>3. IsFiniteSet(W)
    BY <1>1, FS_Subset
  <1>4. /\ IsFiniteSet(V) /\ Cardinality(V) \in Nat /\ Cardinality(W) \in Nat
        /\ Cardinality(V) <= Cardinality(W)
    BY <1>2, <1>3, FS_Subset, FS_CardinalityType
  <1> QED
    BY <1>4 DEF weight, V, W

\* When the LiveChain has every block from a slot on, the walk of compute_block_weights
\* misses no support of a block after the start.
LEMMA SupportIsWeight ==
    ASSUME NEW all \in SUBSET Blocks, \A b \in all : Ancestors[b] \subseteq all,
           NEW low \in Nat, NEW blocks \in SUBSET all,
           \A b \in all : SlotOf[b] >= low => b \in blocks,
           NEW s \in Nat, low <= s, NEW c \in blocks, SlotOf[c] > s,
           NEW attestations, IsFiniteSet(DOMAIN attestations)
    PROVE  Cardinality(Support(c, all, attestations)) <= weight(c, s, blocks, attestations)
  <1> DEFINE V == {v \in DOMAIN attestations : c \in walk(attestations[v].head.root, s, blocks)}
             W == Support(c, all, attestations)
  <1>1. V \in SUBSET (DOMAIN attestations)
    OBVIOUS
  <1>2. W \in SUBSET V
    <2> SUFFICES ASSUME NEW v \in W PROVE v \in V
      OBVIOUS
    <2> DEFINE root == attestations[v].head.root
    <2>1. v \in DOMAIN attestations /\ root \in all /\ c \in {root} \cup Ancestors[root]
      BY DEF Support, OnChain
    <2> HIDE DEF root
    <2>2. ASSUME NEW d \in {root} \cup Ancestors[root], c \in Ancestors[d] PROVE d \in blocks
      <3>1. d \in all /\ d \in Blocks /\ c \in Blocks
        BY <2>1
      <3>2. SlotOf[c] < SlotOf[d]
        BY <2>2, <3>1, TreeAssumption
      <3>3. SlotOf[c] \in Nat /\ SlotOf[d] \in Nat
        BY <3>1, TreeAssumption
      <3> QED
        BY <3>1, <3>2, <3>3
    <2>3. c \in walk(root, s, blocks)
      BY <2>1, <2>2 DEF walk
    <2> QED
      BY <2>1, <2>3 DEF root
  <1> HIDE DEF V, W
  <1>3. IsFiniteSet(V)
    BY <1>1, FS_Subset
  <1>4. Cardinality(W) <= Cardinality(V)
    BY <1>2, <1>3, FS_Subset
  <1> QED
    BY <1>4 DEF weight, V, W

\* What update_head promises of its result.
Heaviest(blocks, all, start, found, attestations) ==
    \A b \in blocks, c \in blocks :
        (/\ b # Genesis /\ c # Genesis
         /\ ParentOf[b] = ParentOf[c]
         /\ OnChain(b, found)
         /\ OnChain(start, ParentOf[b]))
        => Cardinality(Support(c, all, attestations)) <= Cardinality(Support(b, all, attestations))

\* The end of a descent without a minimum is what HeadIsHeaviest asks for.
LEMMA GhostIsHeaviest ==
    ASSUME NEW all \in SUBSET Blocks, \A b \in all : Ancestors[b] \subseteq all,
           NEW low \in Nat, NEW blocks \in SUBSET all,
           \A b \in all : SlotOf[b] >= low => b \in blocks,
           NEW start \in blocks, low <= SlotOf[start],
           NEW attestations, IsFiniteSet(DOMAIN attestations), NEW found \in blocks,
           reached(found, start, blocks, weights(start, blocks, attestations), 0),
           children(found, blocks, weights(start, blocks, attestations), 0) = {}
    PROVE  /\ OnChain(start, found)
           /\ \A b \in all \ {Genesis} : ParentOf[b] # found
           /\ Heaviest(blocks, all, start, found, attestations)
  <1> DEFINE w == weights(start, blocks, attestations)
             s == SlotOf[start]
  <1>1. \A b \in blocks : w[b] = weight(b, s, blocks, attestations) /\ w[b] \in Nat
    BY WeightType DEF weights
  <1> HIDE DEF w
  <1>2. s \in Nat /\ \A b \in all : b \in Blocks /\ SlotOf[b] \in Nat
    BY TreeAssumption
  <1>3. start = found \/ start \in Ancestors[found]
    BY DEF reached
  <1>4. ASSUME NEW b \in all \ {Genesis}, ParentOf[b] = found PROVE FALSE
    <2>1. SlotOf[found] < SlotOf[b]
      BY <1>4, TreeAssumption
    <2>2. s <= SlotOf[found]
      BY <1>2, <1>3, OnOneChain DEF Chain
    <2>3. b \in blocks
      BY <1>2, <2>1, <2>2
    <2>4. b \in children(found, blocks, w, 0)
      BY <1>1, <1>4, <2>3 DEF children
    <2> QED
      BY <2>4 DEF w
  <1>5. ASSUME NEW b \in blocks, NEW c \in blocks, b # Genesis, c # Genesis,
               ParentOf[b] = ParentOf[c], OnChain(b, found), OnChain(start, ParentOf[b])
        PROVE  Cardinality(Support(c, all, attestations)) <= Cardinality(Support(b, all, attestations))
    <2>1. start \in Ancestors[b] /\ start \in Ancestors[c]
      BY <1>2, <1>5, TreeAssumption DEF OnChain
    <2>2. best_child(b, blocks, w, 0)
      BY <1>5, <2>1 DEF reached, OnChain, w
    <2>3. c \in children(ParentOf[b], blocks, w, 0)
      BY <1>1, <1>5 DEF children
    <2>4. w[c] <= w[b]
      BY <1>1, <2>2, <2>3 DEF best_child
    <2>5. s < SlotOf[c]
      BY <1>2, <1>5, <2>1, TreeAssumption
    <2>6. Cardinality(Support(c, all, attestations)) <= w[c]
      BY <1>1, <1>2, <2>5, SupportIsWeight
    <2>7. /\ w[b] <= Cardinality(Support(b, all, attestations))
          /\ Cardinality(Support(b, all, attestations)) \in Nat
      BY <1>1, WeightIsSupport
    <2>8. Cardinality(Support(c, all, attestations)) \in Nat
      BY WeightIsSupport
    <2> QED
      BY <1>1, <2>4, <2>6, <2>7, <2>8
  <1> QED
    BY <1>3, <1>4, <1>5 DEF OnChain, Heaviest

-----------------------------------------------------------------------------
\* The order of the entries of keys_of.
Precedes(e, f) == e[1] < f[1] \/ (e[1] = f[1] /\ e[2] < f[2])

\* In a finite set of entries there is an n-th one: how many precede an entry is
\* different for each, so all numbers below the size occur.
LEMMA NthExists ==
    ASSUME NEW E \in SUBSET (Nat \X Nat), IsFiniteSet(E), NEW n \in 1 .. Cardinality(E)
    PROVE  \E e \in E : Cardinality({f \in E : Precedes(f, e)}) = n - 1
<1> DEFINE P(e) == {f \in E : Precedes(f, e)}
           size == Cardinality(E)
           T == 0 .. size - 1
           rank == [e \in E |-> Cardinality(P(e))]
<1>1. size \in Nat
  BY FS_CardinalityType
<1>2. ASSUME NEW e \in E
      PROVE  IsFiniteSet(P(e)) /\ Cardinality(P(e)) \in T
  <2>1. P(e) \in SUBSET E /\ e \notin P(e)
    BY DEF Precedes
  <2> HIDE DEF P
  <2>2. IsFiniteSet(P(e)) /\ Cardinality(P(e)) <= size /\ size # Cardinality(P(e))
    BY <2>1, FS_Subset
  <2>3. Cardinality(P(e)) \in Nat
    BY <2>2, FS_CardinalityType
  <2> QED
    BY <1>1, <2>2, <2>3
<1>3. ASSUME NEW e \in E, NEW f \in E, Precedes(e, f)
      PROVE  Cardinality(P(e)) # Cardinality(P(f))
  <2>1. P(e) \in SUBSET P(f) /\ e \in P(f) /\ e \notin P(e)
    BY <1>3 DEF Precedes
  <2>2. IsFiniteSet(P(f))
    BY <1>2
  <2> HIDE DEF P
  <2> QED
    BY <2>1, <2>2, FS_Subset
<1>4. \A e, f \in E : e # f => Precedes(e, f) \/ Precedes(f, e)
  BY DEF Precedes
<1>5. rank \in Injection(E, T)
  <2>1. rank \in [E -> T]
    BY <1>2
  <2>2. \A e, f \in E : rank[e] = rank[f] => e = f
    BY <1>3, <1>4
  <2> HIDE DEF rank
  <2> QED
    BY <2>1, <2>2 DEF Injection, IsInjective
<1>6. IsFiniteSet(T) /\ Cardinality(T) = size
  <2> HIDE DEF size
  <2>1. size - 1 \in Int /\ 0 \in Int
    BY <1>1
  <2>2. IsFiniteSet(T) /\ Cardinality(T) = IF 0 > size - 1 THEN 0 ELSE (size - 1) - 0 + 1
    BY <2>1, FS_Interval
  <2> QED
    BY <1>1, <2>2
<1> HIDE DEF rank, T
<1>7. rank \in Surjection(E, T)
  BY ZenonT(30), <1>5, <1>6, FS_Injection DEF size
<1>8. n - 1 \in T
  BY <1>1 DEF T
<1>9. PICK e \in E : rank[e] = n - 1
  BY <1>7, <1>8 DEF Surjection
<1> QED
  BY ZenonT(30), <1>9 DEF rank

\* The entries made of aggregates are votes of validators.
LEMMA KeysType ==
    ASSUME NEW aggregates \in Seq(AggregatedAttestation)
    PROVE  keys_of(aggregates) \in Seq(SignatureKeys)
<1> DEFINE E == {e \in (DOMAIN aggregates) \X Validators :
                     e[2] \in aggregates[e[1]].participants}
           nth(n) == CHOOSE e \in E : Cardinality({f \in E : Precedes(f, e)}) = n - 1
<1>1. IsFiniteSet(DOMAIN aggregates) /\ DOMAIN aggregates \subseteq Nat
  <2>1. Len(aggregates) \in Nat /\ DOMAIN aggregates = 1 .. Len(aggregates)
    OBVIOUS
  <2> QED
    BY <2>1, FS_Interval
<1>2. IsFiniteSet(Validators) /\ Validators \subseteq Nat
  BY FS_Interval, VotesAssumption DEF Validators
<1>3. E \in SUBSET ((DOMAIN aggregates) \X Validators)
  OBVIOUS
<1>4. E \in SUBSET (Nat \X Nat)
  BY ZenonT(30), <1>1, <1>2
<1> HIDE DEF E
<1>5. IsFiniteSet(E)
  <2>1. IsFiniteSet((DOMAIN aggregates) \X Validators)
    BY <1>1, <1>2, FS_Product
  <2> QED
    BY <1>3, <2>1, FS_Subset
<1>6. Cardinality(E) \in Nat
  BY <1>5, FS_CardinalityType
<1>7. keys_of(aggregates)
          = [n \in 1 .. Cardinality(E) |-> <<nth(n)[2], aggregates[nth(n)[1]].data>>]
  BY ZenonT(30) DEF keys_of, E, Precedes
<1>8. ASSUME NEW n \in 1 .. Cardinality(E)
      PROVE  <<nth(n)[2], aggregates[nth(n)[1]].data>> \in SignatureKeys
  <2>1. \E e \in E : Cardinality({f \in E : Precedes(f, e)}) = n - 1
    BY ZenonT(30), <1>4, <1>5, NthExists
  <2>2. nth(n) \in E
    BY ZenonT(30), <2>1
  <2> HIDE DEF nth
  <2>3. nth(n)[1] \in DOMAIN aggregates /\ nth(n)[2] \in Validators
    BY <1>3, <2>2
  <2>4. aggregates[nth(n)[1]] \in AggregatedAttestation
    BY <2>3
  <2> QED
    BY <2>3, <2>4 DEF SignatureKeys, AggregatedAttestation
<1> HIDE DEF nth
<1> QED
  BY <1>6, <1>7, <1>8

\* push_batch never exceeds the capacity, and drops nothing that fits.
LEMMA PushBatch ==
    ASSUME NEW S, NEW buffer \in Seq(S), NEW capacity \in Nat, NEW keys \in Seq(S)
    PROVE  /\ push_batch(buffer, capacity, keys) \in Seq(S)
           /\ Len(push_batch(buffer, capacity, keys)) <= capacity
           /\ \/ Len(push_batch(buffer, capacity, keys)) = capacity
              \/ unique_keys(buffer) \cup unique_keys(keys)
                     \subseteq unique_keys(push_batch(buffer, capacity, keys))
<1> DEFINE all == buffer \o keys
           excess == Len(all) - capacity
<1>1. all \in Seq(S) /\ Len(all) = Len(buffer) + Len(keys) /\ Len(all) \in Nat
  OBVIOUS
<1>2. CASE excess > 0
  <2>1. push_batch(buffer, capacity, keys) = SubSeq(all, excess + 1, Len(all))
    BY <1>2 DEF push_batch
  <2> HIDE DEF all
  <2>2. /\ SubSeq(all, excess + 1, Len(all)) \in Seq(S)
        /\ Len(SubSeq(all, excess + 1, Len(all))) = capacity
    BY <1>1, <1>2
  <2> QED
    BY <2>1, <2>2
<1>3. CASE ~(excess > 0)
  <2>1. push_batch(buffer, capacity, keys) = all
    BY <1>3 DEF push_batch
  <2>2. unique_keys(buffer) \subseteq unique_keys(all)
    <3> SUFFICES ASSUME NEW i \in DOMAIN buffer PROVE buffer[i] \in unique_keys(all)
      BY DEF unique_keys
    <3>1. i \in DOMAIN all /\ all[i] = buffer[i]
      OBVIOUS
    <3> QED
      BY <3>1 DEF unique_keys
  <2>3. unique_keys(keys) \subseteq unique_keys(all)
    <3> SUFFICES ASSUME NEW i \in DOMAIN keys PROVE keys[i] \in unique_keys(all)
      BY DEF unique_keys
    <3>1. Len(buffer) + i \in DOMAIN all /\ all[Len(buffer) + i] = keys[i]
      OBVIOUS
    <3> QED
      BY <3>1 DEF unique_keys
  <2> HIDE DEF all
  <2> QED
    BY <1>1, <1>3, <2>1, <2>2, <2>3
<1> QED
  BY <1>2, <1>3

(***************************************************************************)
(* The chain part of the inductive invariant: the imported blocks are      *)
(* closed under ancestors, so the checkpoints of a new block are imported, *)
(* and there are only so many of them, so the descent of fork choice ends. *)
(***************************************************************************)
ChainInv ==
    /\ imported \subseteq Blocks
    /\ live \subseteq imported
    /\ {justified, finalized} \subseteq imported
    /\ \A b \in imported : Ancestors[b] \subseteq imported
    /\ LiveChainComplete

\* compute_lmd_ghost_head ends because slots and ranks have a bound.
Bounded(blocks) ==
    \E bound \in Nat : \A b \in blocks : Rank[b] <= bound /\ SlotOf[b] <= bound

\* Where fork choice has left the head and the safe target.
HeadInv ==
    /\ head \in live
    /\ safe_target \in imported
    /\ OnChain(justified, head)

\* The types of the tables of votes.
TablesInv ==
    /\ attestation_data \subseteq AttestationData
    /\ gossip_signatures \subseteq SignatureKeys
    /\ new_payloads \in Seq(SignatureKeys)
    /\ known_payloads \in Seq(SignatureKeys)
    /\ Len(new_payloads) <= NEW_PAYLOAD_CAP
    /\ Len(known_payloads) <= AGGREGATED_PAYLOAD_CAP

ClockInv == time \in StartTime .. MaxTime /\ gossiped \in 0 .. MaxGossip

VoteInv ==
    /\ IsFiniteSet(gossip_signatures)
    /\ CounterIsExact
    /\ SignaturesHaveData

(***************************************************************************)
(* Inserting one signature keeps the counter beside the table exact.       *)
(***************************************************************************)
LEMMA InsertCounts ==
    ASSUME NEW signatures, IsFiniteSet(signatures), NEW key,
           insert_gossip_signature(signatures, Cardinality(signatures), key)
    PROVE  /\ IsFiniteSet(gossip_signatures')
           /\ gossip_signatures_count' = Cardinality(gossip_signatures')
           /\ gossip_signatures' = signatures \cup {key}
  <1>1. gossip_signatures' = signatures \cup {key}
    BY DEF insert_gossip_signature
  <1>2. CASE key \in signatures
    <2>1. signatures \cup {key} = signatures
      BY <1>2
    <2> QED
      BY <1>1, <1>2, <2>1 DEF insert_gossip_signature
  <1>3. CASE key \notin signatures
    <2>1. /\ IsFiniteSet(signatures \cup {key})
          /\ Cardinality(signatures \cup {key}) = Cardinality(signatures) + 1
      BY <1>3, FS_AddElement
    <2> QED
      BY <1>1, <1>3, <2>1 DEF insert_gossip_signature
  <1> QED
    BY <1>2, <1>3

(***************************************************************************)
(* Removing some of the signatures: the counter is reduced by how many.    *)
(***************************************************************************)
LEMMA RemoveCounts ==
    ASSUME NEW signatures, IsFiniteSet(signatures), NEW kept \in SUBSET signatures
    PROVE  /\ IsFiniteSet(kept)
           /\ Cardinality(signatures) - Cardinality(signatures \ kept) = Cardinality(kept)
  <1>1. IsFiniteSet(kept) /\ IsFiniteSet(signatures \ kept)
    BY FS_Subset, FS_Difference
  <1>2. Cardinality(kept) \in Nat /\ Cardinality(signatures \ kept) \in Nat
    BY <1>1, FS_CardinalityType
  <1>3. signatures \cap kept = kept
    OBVIOUS
  <1>4. /\ Cardinality(signatures) \in Nat
        /\ Cardinality(signatures \ kept) = Cardinality(signatures) - Cardinality(kept)
    BY ZenonT(30), <1>3, FS_Difference, FS_CardinalityType
  <1> QED
    BY <1>1, <1>2, <1>4

(***************************************************************************)
(* Importing a block.                                                      *)
(***************************************************************************)
LEMMA OnBlockChain ==
    ASSUME ChainInv, NEW b \in Blocks \ {Genesis}, OnBlock(b)
    PROVE  ChainInv'
  <1> USE DEF ChainInv, LiveChainComplete
  <1>1. /\ b \notin imported
        /\ ParentOf[b] \in imported
        /\ imported' = imported \cup {b}
        /\ justified' = later(Post[b].justified, justified)
        /\ finalized' = later(Post[b].finalized, finalized)
        /\ live' = {b} \cup (IF finalized' # finalized
                              THEN prune_live_chain(live, SlotOf[finalized']) ELSE live)
    BY DEF OnBlock
  <1>2. Ancestors[b] \subseteq imported
    BY <1>1, TreeAssumption
  <1>3. {Post[b].justified, Post[b].finalized} \subseteq imported
    BY <1>2, CheckpointsAssumption
  <1>4. {justified', finalized'} \subseteq imported'
    BY <1>1, <1>3 DEF later
  <1>5. \A c \in imported' : Ancestors[c] \subseteq imported'
    BY <1>1, <1>2
  <1>6. \A c \in Blocks : SlotOf[c] \in Nat
    BY TreeAssumption
  <1>7. SlotOf[Post[b].finalized] <= SlotOf[Post[b].justified]
    BY CheckpointsAssumption
  <1>8. SlotOf[finalized'] <= SlotOf[justified']
    BY <1>1, <1>3, <1>6, <1>7 DEF later
  <1>9. SlotOf[finalized] <= SlotOf[finalized']
    BY <1>1, <1>3, <1>6 DEF later
  <1>10. ASSUME NEW c \in imported', SlotOf[c] >= SlotOf[finalized']
         PROVE  c \in live'
    <2>1. CASE c = b
      BY <1>1, <2>1
    <2>2. CASE c \in imported
      <3>1. SlotOf[c] >= SlotOf[finalized]
        BY <1>4, <1>6, <1>9, <1>10, <1>1, <2>2
      <3>2. c \in live
        BY <3>1, <2>2
      <3> QED
        BY <1>1, <1>10, <3>2 DEF prune_live_chain
    <2> QED
      BY <1>1, <2>1, <2>2
  <1>11. live' \subseteq imported' /\ imported' \subseteq Blocks
    BY <1>1 DEF prune_live_chain
  <1> QED
    BY <1>4, <1>5, <1>8, <1>10, <1>11

\* Importing a block, the votes: pruned, then the vote of the proposer is added.
LEMMA OnBlockVotes ==
    ASSUME VoteInv, NEW b \in Blocks \ {Genesis}, OnBlock(b)
    PROVE  VoteInv'
  <1> DEFINE slot == SlotOf[finalized']
             kept_data == IF finalized' # finalized
                          THEN prune_attestation_data(attestation_data, slot)
                          ELSE attestation_data
             kept == IF finalized' # finalized
                     THEN prune_gossip_signatures(gossip_signatures, slot)
                     ELSE gossip_signatures
             count == gossip_signatures_count - Cardinality(gossip_signatures \ kept)
  <1>1. /\ kept_data \cup {ProposerVote[b][2]} \subseteq attestation_data'
        /\ \/ insert_gossip_signature(kept, count, ProposerVote[b])
           \/ gossip_signatures' = kept /\ gossip_signatures_count' = count
    BY DEF OnBlock
  <1>2. kept \in SUBSET gossip_signatures
    BY DEF prune_gossip_signatures
  <1>3. \A k \in kept : k[2] \in kept_data
    BY DEF VoteInv, SignaturesHaveData, prune_gossip_signatures, prune_attestation_data
  <1> HIDE DEF kept, kept_data
  <1>4. IsFiniteSet(kept) /\ count = Cardinality(kept)
    BY <1>2, RemoveCounts DEF VoteInv, CounterIsExact
  <1> HIDE DEF count
  <1>5. CASE insert_gossip_signature(kept, count, ProposerVote[b])
    <2>1. /\ IsFiniteSet(gossip_signatures')
          /\ gossip_signatures_count' = Cardinality(gossip_signatures')
          /\ gossip_signatures' = kept \cup {ProposerVote[b]}
      BY <1>4, <1>5, InsertCounts
    <2> QED
      BY <1>1, <1>3, <2>1 DEF VoteInv, CounterIsExact, SignaturesHaveData
  <1>6. CASE gossip_signatures' = kept /\ gossip_signatures_count' = count
    BY <1>1, <1>3, <1>4, <1>6 DEF VoteInv, CounterIsExact, SignaturesHaveData
  <1> QED
    BY ZenonT(30), <1>1, <1>5, <1>6

(***************************************************************************)
(* A gossiped vote, and the aggregation of interval 2.                     *)
(***************************************************************************)
LEMMA OnGossipAttestationVotes ==
    ASSUME VoteInv, NEW key, OnGossipAttestation(key)
    PROVE  VoteInv'
  <1>1. /\ attestation_data' = attestation_data \cup {key[2]}
        /\ \/ insert_gossip_signature(gossip_signatures, gossip_signatures_count, key)
           \/ UNCHANGED <<gossip_signatures, gossip_signatures_count>>
    BY DEF OnGossipAttestation
  <1>2. CASE insert_gossip_signature(gossip_signatures, gossip_signatures_count, key)
    <2>1. /\ IsFiniteSet(gossip_signatures')
          /\ gossip_signatures_count' = Cardinality(gossip_signatures')
          /\ gossip_signatures' = gossip_signatures \cup {key}
      BY <1>2, InsertCounts DEF VoteInv, CounterIsExact
    <2> QED
      BY <1>1, <2>1 DEF VoteInv, CounterIsExact, SignaturesHaveData
  <1>3. CASE UNCHANGED <<gossip_signatures, gossip_signatures_count>>
    BY <1>1, <1>3 DEF VoteInv, CounterIsExact, SignaturesHaveData
  <1> QED
    BY <1>1, <1>2, <1>3

\* The signatures of the groups that aggregation succeeds for go, and are counted off.
LEMMA AggregateVotes ==
    ASSUME VoteInv, aggregate_committee_signatures
    PROVE  VoteInv'
  <1>1. PICK done \in SUBSET gossip_signatures :
            /\ gossip_signatures' = gossip_signatures \ done
            /\ gossip_signatures_count' = gossip_signatures_count - Cardinality(done)
            /\ attestation_data' = attestation_data
    BY ZenonT(30) DEF aggregate_committee_signatures
  <1> DEFINE kept == gossip_signatures \ done
  <1>2. /\ kept \in SUBSET gossip_signatures
        /\ gossip_signatures \ kept = done
        /\ gossip_signatures' = kept
    BY <1>1
  <1> HIDE DEF kept
  <1>3. IsFiniteSet(kept) /\ gossip_signatures_count - Cardinality(done) = Cardinality(kept)
    BY <1>2, RemoveCounts DEF VoteInv, CounterIsExact
  <1> QED
    BY ZenonT(30), <1>1, <1>2, <1>3 DEF VoteInv, CounterIsExact, SignaturesHaveData

-----------------------------------------------------------------------------
(***************************************************************************)
(* The types of the tables.                                                *)
(***************************************************************************)
LEMMA OnBlockTables ==
    ASSUME TablesInv, NEW b \in Blocks \ {Genesis}, OnBlock(b)
    PROVE  TablesInv'
  <1>1. ProposerVote[b] \in SignatureKeys /\ Body[b] \in Seq(AggregatedAttestation)
    BY VotesAssumption
  <1>2. keys_of(Body[b]) \in Seq(SignatureKeys)
    BY <1>1, KeysType
  <1>3. /\ known_payloads' = push_batch(known_payloads, AGGREGATED_PAYLOAD_CAP, keys_of(Body[b]))
        /\ new_payloads' = new_payloads
    BY DEF OnBlock
  <1>4. /\ known_payloads' \in Seq(SignatureKeys)
        /\ Len(known_payloads') <= AGGREGATED_PAYLOAD_CAP
    BY <1>2, <1>3, PushBatch, BoundsAssumption DEF TablesInv
  <1> DEFINE in_body == {Body[b][i].data : i \in DOMAIN Body[b]}
  <1>5. attestation_data' \subseteq attestation_data \cup in_body \cup {ProposerVote[b][2]}
    <2> DEFINE kept == IF finalized' # finalized
                       THEN prune_attestation_data(attestation_data, SlotOf[finalized'])
                       ELSE attestation_data
    <2>1. attestation_data' = kept \cup in_body \cup {ProposerVote[b][2]}
      BY DEF OnBlock
    <2>2. kept \subseteq attestation_data
      BY DEF prune_attestation_data
    <2> HIDE DEF in_body, kept
    <2> QED
      BY ZenonT(30), <2>1, <2>2
  <1>6. \A i \in DOMAIN Body[b] : Body[b][i].data \in AttestationData
    <2>1. \A i \in DOMAIN Body[b] : Body[b][i] \in AggregatedAttestation
      BY <1>1
    <2> QED
      BY <2>1 DEF AggregatedAttestation
  <1>7. ProposerVote[b][2] \in AttestationData
    BY <1>1 DEF SignatureKeys
  <1>8. attestation_data' \subseteq AttestationData
    BY ZenonT(30), <1>5, <1>6, <1>7 DEF TablesInv
  <1>9. gossip_signatures' \subseteq gossip_signatures \cup {ProposerVote[b]}
    BY DEF OnBlock, insert_gossip_signature, prune_gossip_signatures
  <1> QED
    BY <1>1, <1>3, <1>4, <1>8, <1>9 DEF TablesInv

\* A gossiped vote or aggregate is well formed.
LEMMA GossipTables ==
    ASSUME TablesInv
    PROVE  /\ \A key \in Votes : OnGossipAttestation(key) => TablesInv'
           /\ \A aggregate \in Aggregates :
                  OnGossipAggregatedAttestation(aggregate) => TablesInv'
  <1>1. ASSUME NEW key \in Votes, OnGossipAttestation(key) PROVE TablesInv'
    <2>1. key \in SignatureKeys /\ key[2] \in AttestationData
      BY VotesAssumption DEF SignatureKeys
    <2>2. /\ gossip_signatures' \subseteq gossip_signatures \cup {key}
          /\ attestation_data' = attestation_data \cup {key[2]}
          /\ UNCHANGED <<new_payloads, known_payloads>>
      BY <1>1 DEF OnGossipAttestation, insert_gossip_signature
    <2> QED
      BY <2>1, <2>2 DEF TablesInv
  <1>2. ASSUME NEW aggregate \in Aggregates, OnGossipAggregatedAttestation(aggregate)
        PROVE  TablesInv'
    <2>1. aggregate \in AggregatedAttestation /\ aggregate.data \in AttestationData
      BY VotesAssumption DEF AggregatedAttestation
    <2>2. <<aggregate>> \in Seq(AggregatedAttestation)
      BY <2>1
    <2>3. keys_of(<<aggregate>>) \in Seq(SignatureKeys)
      BY ZenonT(30), <2>2, KeysType
    <2>4. /\ new_payloads' = push_batch(new_payloads, NEW_PAYLOAD_CAP, keys_of(<<aggregate>>))
          /\ attestation_data' = attestation_data \cup {aggregate.data}
          /\ UNCHANGED <<gossip_signatures, known_payloads>>
      BY <1>2 DEF OnGossipAggregatedAttestation
    <2>5. new_payloads' \in Seq(SignatureKeys) /\ Len(new_payloads') <= NEW_PAYLOAD_CAP
      BY <2>3, <2>4, PushBatch, BoundsAssumption DEF TablesInv
    <2> QED
      BY <2>1, <2>4, <2>5 DEF TablesInv
  <1> QED
    BY <1>1, <1>2

\* Promotion moves entries from one buffer to the other.
LEMMA AcceptTables ==
    ASSUME TablesInv, accept_new_attestations
    PROVE  TablesInv'
  <1>1. /\ known_payloads' = push_batch(known_payloads, AGGREGATED_PAYLOAD_CAP, new_payloads)
        /\ new_payloads' = <<>>
        /\ UNCHANGED <<attestation_data, gossip_signatures>>
    BY DEF accept_new_attestations, promote
  <1>2. /\ known_payloads' \in Seq(SignatureKeys)
        /\ Len(known_payloads') <= AGGREGATED_PAYLOAD_CAP
    BY <1>1, PushBatch, BoundsAssumption DEF TablesInv
  <1> QED
    BY <1>1, <1>2, BoundsAssumption DEF TablesInv

\* The data of finitely many signatures is finite.
LEMMA FiniteData ==
    ASSUME NEW S \in SUBSET SignatureKeys, IsFiniteSet(S), NEW T \in SUBSET {k[2] : k \in S}
    PROVE  IsFiniteSet(T)
  <1> DEFINE U == {k \in S : k[2] \in T}
             f == [k \in U |-> k[2]]
  <1>1. IsFiniteSet(U)
    BY FS_Subset
  <1>2. f \in Surjection(U, T)
    BY DEF Surjection
  <1> QED
    BY <1>1, <1>2, FS_Surjection

\* The groups of an aggregation are votes of validators.
LEMMA AggregateTables ==
    ASSUME TablesInv, VoteInv, aggregate_committee_signatures
    PROVE  TablesInv'
  <1> DEFINE ready == {k[2] : k \in {l \in gossip_signatures : l[2] \in attestation_data}}
             group(data) == [data |-> data,
                             participants |-> {v \in Validators : <<v, data>> \in gossip_signatures}]
             aggregates(order) == [i \in DOMAIN order |-> group(order[i])]
  <1>0. PICK aggregated \in SUBSET ready :
            /\ \E order \in orders(aggregated) :
                   new_payloads' = push_batch(new_payloads, NEW_PAYLOAD_CAP,
                                              keys_of(aggregates(order)))
            /\ gossip_signatures' \subseteq gossip_signatures
            /\ UNCHANGED <<attestation_data, known_payloads>>
    BY ZenonT(30) DEF aggregate_committee_signatures
  <1>1. PICK order \in orders(aggregated) :
            new_payloads' = push_batch(new_payloads, NEW_PAYLOAD_CAP, keys_of(aggregates(order)))
    BY ZenonT(30), <1>0
  <1>2. aggregated \in SUBSET {k[2] : k \in gossip_signatures}
    BY <1>1
  <1>3. aggregated \subseteq AttestationData
    BY <1>2 DEF TablesInv, SignatureKeys
  <1>4. Cardinality(aggregated) \in Nat
    BY <1>2, FiniteData, FS_CardinalityType DEF TablesInv, VoteInv
  <1>5. order \in [1 .. Cardinality(aggregated) -> aggregated]
    BY <1>1 DEF orders
  <1>6. \A i \in DOMAIN order : group(order[i]) \in AggregatedAttestation
    BY <1>3, <1>5 DEF AggregatedAttestation
  <1>7. aggregates(order) \in Seq(AggregatedAttestation)
    <2> HIDE DEF group
    <2> QED
      BY <1>4, <1>5, <1>6
  <1> HIDE DEF aggregates, group
  <1>8. keys_of(aggregates(order)) \in Seq(SignatureKeys)
    BY <1>7, KeysType
  <1>9. new_payloads' \in Seq(SignatureKeys) /\ Len(new_payloads') <= NEW_PAYLOAD_CAP
    BY <1>1, <1>8, PushBatch, BoundsAssumption DEF TablesInv
  <1> QED
    BY <1>0, <1>9 DEF TablesInv

-----------------------------------------------------------------------------
(***************************************************************************)
(* The head and the safe target.                                           *)
(***************************************************************************)
\* extract_latest_attestations finds votes of validators only.
LEMMA Extracted ==
    ASSUME NEW keys \in SUBSET SignatureKeys, NEW table,
           NEW attestations \in extract_latest_attestations(keys, table)
    PROVE  IsFiniteSet(DOMAIN attestations)
  <1> DEFINE known == {k \in keys : k[2] \in table}
             voters == {k[1] : k \in known}
  <1>1. DOMAIN attestations = voters
    BY DEF extract_latest_attestations
  <1>2. voters \in SUBSET Validators
    BY DEF SignatureKeys
  <1>3. IsFiniteSet(Validators)
    BY FS_Interval, VotesAssumption DEF Validators
  <1> HIDE DEF voters
  <1> QED
    BY <1>1, <1>2, <1>3, FS_Subset

\* The entries of a buffer have the type of the entries.
LEMMA UniqueKeys ==
    ASSUME NEW S, NEW buffer \in Seq(S)
    PROVE  unique_keys(buffer) \in SUBSET S
  BY DEF unique_keys

\* What update_head leaves: the end of the descent over the new LiveChain.
LEMMA UpdateHead ==
    ASSUME ChainInv', TablesInv', Bounded(imported'),
           NEW attestations \in extract_latest_attestations(unique_keys(known_payloads'),
                                                            attestation_data'),
           head' = compute_lmd_ghost_head(justified', live', attestations, 0)
    PROVE  LET w == weights(justified', live', attestations)
           IN  /\ head' \in live'
               /\ reached(head', justified', live', w, 0)
               /\ children(head', live', w, 0) = {}
  <1>1. IsFiniteSet(DOMAIN attestations)
    BY Extracted, UniqueKeys DEF TablesInv
  <1>2. live' \in SUBSET Blocks /\ justified' \in live'
    BY TreeAssumption DEF ChainInv, LiveChainComplete
  <1>3. PICK bound \in Nat : \A b \in live' : Rank[b] <= bound /\ SlotOf[b] <= bound
    BY DEF Bounded, ChainInv
  <1> QED
    BY SMTT(90), <1>1, <1>2, <1>3, GhostHead

\* The new head is in the LiveChain, after the justified block.
LEMMA UpdateHeadInv ==
    ASSUME ChainInv', TablesInv', Bounded(imported'), update_head
    PROVE  head' \in live' /\ OnChain(justified', head')
  <1>1. PICK attestations \in extract_latest_attestations(unique_keys(known_payloads'),
                                                          attestation_data') :
            head' = compute_lmd_ghost_head(justified', live', attestations, 0)
    BY DEF update_head
  <1>2. /\ head' \in live'
        /\ reached(head', justified', live', weights(justified', live', attestations), 0)
    BY <1>1, UpdateHead
  <1> QED
    BY <1>2 DEF reached, OnChain

\* The same for update_safe_target, which changes nothing else.
LEMMA UpdateSafeTarget ==
    ASSUME ChainInv, TablesInv, Bounded(imported),
           NEW attestations \in extract_latest_attestations(unique_keys(known_payloads)
                                                                \cup unique_keys(new_payloads),
                                                            attestation_data),
           safe_target' = compute_lmd_ghost_head(justified, live, attestations, min_target_score)
    PROVE  /\ safe_target' \in live
           /\ reached(safe_target', justified, live, weights(justified, live, attestations),
                      min_target_score)
           /\ IsFiniteSet(DOMAIN attestations)
  <1>1. unique_keys(known_payloads) \cup unique_keys(new_payloads) \in SUBSET SignatureKeys
    BY UniqueKeys DEF TablesInv
  <1>2. IsFiniteSet(DOMAIN attestations)
    BY <1>1, Extracted
  <1>3. live \in SUBSET Blocks /\ justified \in live
    BY TreeAssumption DEF ChainInv, LiveChainComplete
  <1>4. PICK bound \in Nat : \A b \in live : Rank[b] <= bound /\ SlotOf[b] <= bound
    BY DEF Bounded, ChainInv
  <1>5. min_target_score \in Nat
    BY VotesAssumption DEF min_target_score
  <1> QED
    BY ZenonT(30), <1>2, <1>3, <1>4, <1>5, GhostHead

-----------------------------------------------------------------------------
(***************************************************************************)
(* The inductive invariant.  HeadInv needs ChainInv (the descent starts in *)
(* the LiveChain) and TablesInv (finitely many voters); VoteIsValid needs all*)
(* of the first three.                                                     *)
(***************************************************************************)
IInv ==
    /\ ChainInv
    /\ Bounded(imported)
    /\ HeadInv
    /\ VoteInv
    /\ TablesInv
    /\ ClockInv

\* The genesis block alone satisfies it.
LEMMA Initially == Init => IInv
  <1> SUFFICES ASSUME Init PROVE IInv
    OBVIOUS
  <1>1. ChainInv
    BY TreeAssumption DEF Init, ChainInv, LiveChainComplete
  <1>2. VoteInv
    BY FS_EmptySet DEF Init, VoteInv, CounterIsExact, SignaturesHaveData
  <1>3. HeadInv
    BY DEF Init, HeadInv, OnChain
  <1>4. TablesInv
    BY BoundsAssumption DEF Init, TablesInv
  <1>5. ClockInv
    BY BoundsAssumption DEF Init, ClockInv
  <1>6. Bounded(imported)
    <2>1. Rank[Genesis] \in Nat /\ SlotOf[Genesis] \in Nat
      BY TreeAssumption
    <2>2. Rank[Genesis] + SlotOf[Genesis] \in Nat
      BY <2>1
    <2>3. \A b \in imported : /\ Rank[b] <= Rank[Genesis] + SlotOf[Genesis]
                              /\ SlotOf[b] <= Rank[Genesis] + SlotOf[Genesis]
      BY <2>1 DEF Init
    <2> QED
      BY <2>2, <2>3 DEF Bounded
  <1> QED
    BY <1>1, <1>2, <1>3, <1>4, <1>5, <1>6 DEF IInv

\* One more block is still a bounded set.
LEMMA BoundedAdd ==
    ASSUME NEW S \in SUBSET Blocks, Bounded(S), NEW b \in Blocks
    PROVE  Bounded(S \cup {b})
  <1>1. PICK bound \in Nat : \A c \in S : Rank[c] <= bound /\ SlotOf[c] <= bound
    BY DEF Bounded
  <1>2. \A c \in Blocks : Rank[c] \in Nat /\ SlotOf[c] \in Nat
    BY TreeAssumption
  <1> DEFINE more == bound + Rank[b] + SlotOf[b]
  <1>3. more \in Nat /\ \A c \in S \cup {b} : Rank[c] <= more /\ SlotOf[c] <= more
    BY <1>1, <1>2
  <1> QED
    BY <1>3 DEF Bounded

\* Importing a block, all together.
LEMMA OnBlockStep ==
    ASSUME IInv, NEW b \in Blocks \ {Genesis}, OnBlock(b)
    PROVE  IInv'
  <1>1. ChainInv' /\ VoteInv' /\ TablesInv'
    BY ZenonT(30), OnBlockChain, OnBlockVotes, OnBlockTables DEF IInv
  <1>2. imported' = imported \cup {b} /\ update_head /\ UNCHANGED <<safe_target, time, gossiped>>
    BY DEF OnBlock
  <1>3. Bounded(imported')
    BY <1>2, BoundedAdd DEF IInv, ChainInv
  <1>4. head' \in live' /\ OnChain(justified', head')
    BY <1>1, <1>2, <1>3, UpdateHeadInv
  <1>5. HeadInv' /\ ClockInv'
    BY <1>2, <1>4 DEF IInv, HeadInv, ClockInv
  <1> QED
    BY <1>1, <1>3, <1>5 DEF IInv

\* The other handlers do not change the chain.
LEMMA ChainFrame ==
    ASSUME IInv, UNCHANGED chain
    PROVE  /\ ChainInv' /\ Bounded(imported')
           /\ \A b \in imported : b \in imported'
           /\ \A b \in live : b \in live'
           /\ UNCHANGED <<head, safe_target>> => HeadInv'
  BY DEF IInv, chain, ChainInv, LiveChainComplete, HeadInv, OnChain

\* Promotion recomputes the head.
LEMMA AcceptStep ==
    ASSUME IInv, accept_new_attestations
    PROVE  ChainInv' /\ Bounded(imported') /\ HeadInv' /\ VoteInv' /\ TablesInv'
  <1>1. UNCHANGED chain /\ UNCHANGED safe_target /\ update_head
    BY DEF accept_new_attestations
  <1>2. ChainInv' /\ Bounded(imported') /\ safe_target' \in imported'
    BY <1>1, ChainFrame DEF IInv, HeadInv
  <1>3. VoteInv'
    BY DEF IInv, accept_new_attestations, VoteInv, CounterIsExact, SignaturesHaveData
  <1>4. TablesInv'
    BY AcceptTables DEF IInv
  <1>5. head' \in live' /\ OnChain(justified', head')
    BY <1>1, <1>2, <1>4, UpdateHeadInv
  <1> QED
    BY <1>2, <1>3, <1>4, <1>5 DEF HeadInv

\* The intervals of a slot.
LEMMA OnTickStep ==
    ASSUME IInv, OnTick
    PROVE  IInv'
  <1>1. UNCHANGED chain /\ time < MaxTime /\ time' = time + 1 /\ UNCHANGED gossiped
    BY DEF OnTick
  <1>2. ClockInv'
    BY <1>1, BoundsAssumption DEF IInv, ClockInv
  <1>3. CASE accept_new_attestations
    BY <1>2, <1>3, AcceptStep DEF IInv
  <1>4. CASE aggregate_committee_signatures
    <2>1. UNCHANGED <<head, safe_target>>
      BY <1>4 DEF aggregate_committee_signatures
    <2>2. VoteInv' /\ TablesInv'
      BY <1>4, AggregateVotes, AggregateTables DEF IInv
    <2> QED
      BY <1>1, <1>2, <2>1, <2>2, ChainFrame DEF IInv
  <1>5. CASE update_safe_target /\ UNCHANGED <<head, votes>>
    <2>1. PICK attestations \in
              extract_latest_attestations(unique_keys(known_payloads)
                                              \cup unique_keys(new_payloads), attestation_data) :
                  safe_target' = compute_lmd_ghost_head(justified, live, attestations,
                                                        min_target_score)
      BY <1>5 DEF update_safe_target
    <2>2. safe_target' \in live
      BY <2>1, UpdateSafeTarget DEF IInv
    <2>3. HeadInv'
      BY <1>1, <1>5, <2>2 DEF IInv, HeadInv, ChainInv, chain, OnChain
    <2>4. VoteInv' /\ TablesInv'
      BY <1>5 DEF IInv, votes, VoteInv, TablesInv, CounterIsExact, SignaturesHaveData
    <2> QED
      BY <1>1, <1>2, <2>3, <2>4, ChainFrame DEF IInv
  <1>6. CASE UNCHANGED <<head, safe_target, votes>>
    <2>1. VoteInv' /\ TablesInv'
      BY <1>6 DEF IInv, votes, VoteInv, TablesInv, CounterIsExact, SignaturesHaveData
    <2> QED
      BY <1>1, <1>2, <1>6, <2>1, ChainFrame DEF IInv
  <1> QED
    BY <1>3, <1>4, <1>5, <1>6 DEF OnTick

\* Every step keeps the invariant.
LEMMA Step == IInv /\ [Next]_vars => IInv'
  <1> SUFFICES ASSUME IInv, [Next]_vars PROVE IInv'
    OBVIOUS
  <1>1. ASSUME NEW key \in Votes, OnGossipAttestation(key) PROVE IInv'
    <2>1. UNCHANGED <<chain, head, safe_target, time>> /\ gossiped < MaxGossip
          /\ gossiped' = gossiped + 1
      BY <1>1 DEF OnGossipAttestation
    <2>2. ClockInv'
      BY <2>1, BoundsAssumption DEF IInv, ClockInv
    <2>3. VoteInv' /\ TablesInv'
      BY <1>1, OnGossipAttestationVotes, GossipTables DEF IInv
    <2> QED
      BY <2>1, <2>2, <2>3, ChainFrame DEF IInv
  <1>2. ASSUME NEW aggregate \in Aggregates, OnGossipAggregatedAttestation(aggregate)
        PROVE  IInv'
    <2>1. UNCHANGED <<chain, head, safe_target, time>> /\ gossiped < MaxGossip
          /\ gossiped' = gossiped + 1
      BY <1>2 DEF OnGossipAggregatedAttestation
    <2>2. ClockInv'
      BY <2>1, BoundsAssumption DEF IInv, ClockInv
    <2>3. VoteInv'
      BY <1>2 DEF IInv, OnGossipAggregatedAttestation, VoteInv, CounterIsExact, SignaturesHaveData
    <2>4. TablesInv'
      BY <1>2, GossipTables DEF IInv
    <2> QED
      BY <2>1, <2>2, <2>3, <2>4, ChainFrame DEF IInv
  <1>3. CASE ProposeBlock
    <2>1. accept_new_attestations /\ UNCHANGED <<time, gossiped>>
      BY <1>3 DEF ProposeBlock
    <2>2. ClockInv'
      BY <2>1 DEF IInv, ClockInv
    <2> QED
      BY <2>1, <2>2, AcceptStep DEF IInv
  <1>4. CASE UNCHANGED vars
    <2>1. UNCHANGED <<chain, head, safe_target>>
      BY <1>4 DEF vars
    <2>2. VoteInv' /\ TablesInv' /\ ClockInv'
      BY <1>4 DEF IInv, vars, votes, VoteInv, TablesInv, ClockInv, CounterIsExact, SignaturesHaveData
    <2> QED
      BY <2>1, <2>2, ChainFrame DEF IInv
  <1> QED
    BY <1>1, <1>2, <1>3, <1>4, OnBlockStep, OnTickStep DEF Next

\* So it holds in every state.
LEMMA IInvAlways == Spec => []IInv
  BY Initially, Step, PTL DEF Spec

-----------------------------------------------------------------------------
\* Going back from b, the first block that satisfies a test which the genesis block does.
LEMMA FirstBack ==
    ASSUME NEW b \in Blocks, NEW stops \in SUBSET Chain(b), Genesis \in stops
    PROVE  LET first == CHOOSE c \in stops : \A d \in stops : SlotOf[d] <= SlotOf[c]
           IN  first \in stops
  <1> DEFINE slots == {SlotOf[c] : c \in stops}
  <1>1. \A c \in stops : c \in Blocks /\ SlotOf[c] \in Nat /\ SlotOf[c] <= SlotOf[b]
    BY OnOneChain, TreeAssumption
  <1>2. slots \in SUBSET Nat /\ slots # {} /\ SlotOf[b] \in Nat /\ \A k \in slots : k <= SlotOf[b]
    BY <1>1, TreeAssumption
  <1>3. PICK m \in slots : \A k \in slots : k <= m
    BY ZenonT(30), <1>2, GreatestNatural
  <1>4. \E c \in stops : \A d \in stops : SlotOf[d] <= SlotOf[c]
    BY <1>3
  <1> QED
    BY <1>4

\* Every chain goes back to the genesis block.
LEMMA GenesisFirst ==
    ASSUME NEW b \in Blocks
    PROVE  Genesis \in Chain(b) /\ SlotOf[Genesis] <= SlotOf[b]
  <1>1. Genesis \in Chain(b)
    BY ChainsAreLinear DEF Linear
  <1> QED
    BY <1>1, OnOneChain

\* The target before the clamp is on the chain of the head, and can be justified unless
\* it is as old as the finalized block.
LEMMA TargetOnChain ==
    ASSUME ChainInv, HeadInv
    PROVE  LET target == to_justifiable(towards_safe_target)
           IN  /\ target \in Chain(head)
               /\ \/ SlotOf[target] <= SlotOf[finalized]
                  \/ slot_is_justifiable_after(SlotOf[target], SlotOf[finalized])
  <1>1. head \in Blocks /\ safe_target \in Blocks /\ finalized \in Blocks
    BY DEF ChainInv, HeadInv
  <1> DEFINE back == {head} \cup Ancestors[head]
             stops == {c \in back :
                         \/ SlotOf[c] <= SlotOf[safe_target]
                         \/ Cardinality({d \in back : c \in Ancestors[d]})
                                = JUSTIFICATION_LOOKBACK_SLOTS}
             t == towards_safe_target
  <1>2. t = CHOOSE c \in stops : \A d \in stops : SlotOf[d] <= SlotOf[c]
    BY ZenonT(30) DEF towards_safe_target
  <1>3. stops \in SUBSET Chain(head) /\ Genesis \in stops
    BY <1>1, GenesisFirst DEF Chain
  <1> HIDE DEF stops, t
  <1>4. t \in Chain(head)
    BY <1>1, <1>2, <1>3, FirstBack
  <1>5. t \in Blocks /\ Chain(t) \subseteq Chain(head)
    BY <1>1, <1>4, OnOneChain
  <1> DEFINE ends == {c \in {t} \cup Ancestors[t] :
                        \/ SlotOf[c] <= SlotOf[finalized]
                        \/ slot_is_justifiable_after(SlotOf[c], SlotOf[finalized])}
             target == to_justifiable(t)
  <1>6. target = CHOOSE c \in ends : \A d \in ends : SlotOf[d] <= SlotOf[c]
    BY ZenonT(30) DEF to_justifiable
  <1>7. ends \in SUBSET Chain(t) /\ Genesis \in ends
    BY <1>1, <1>5, GenesisFirst DEF Chain
  <1>8. target \in ends
    <2> HIDE DEF ends, target
    <2> QED
      BY <1>5, <1>6, <1>7, FirstBack
  <1> HIDE DEF target
  <1>9. target \in Chain(head)
    BY ZenonT(30), <1>5, <1>7, <1>8
  <1> QED
    BY <1>8, <1>9 DEF target, t

\* The vote the node would cast is valid in every state of the invariant.
LEMMA VoteValid == IInv => VoteIsValid
  <1> SUFFICES ASSUME IInv PROVE VoteIsValid
    OBVIOUS
  <1> DEFINE unclamped == to_justifiable(towards_safe_target)
             target == get_attestation_target
             slot == time \div INTERVALS_PER_SLOT
             data == produce_attestation_data(slot)
  <1>1. /\ head \in Blocks /\ head \in imported
        /\ justified \in imported /\ finalized \in Blocks /\ justified \in Chain(head)
        /\ Ancestors[head] \subseteq imported
        /\ SlotOf[finalized] <= SlotOf[justified]
    BY DEF IInv, ChainInv, HeadInv, LiveChainComplete, OnChain, Chain
  <1>2. /\ unclamped \in Chain(head)
        /\ \/ SlotOf[unclamped] <= SlotOf[finalized]
           \/ slot_is_justifiable_after(SlotOf[unclamped], SlotOf[finalized])
    BY TargetOnChain DEF IInv
  <1>3. target = IF SlotOf[unclamped] < SlotOf[justified] THEN justified ELSE unclamped
    BY DEF get_attestation_target
  <1> HIDE DEF unclamped, target
  <1>4. \A c \in Chain(head) : c \in Blocks /\ c \in imported /\ SlotOf[c] \in Nat
    BY <1>1, OnOneChain, TreeAssumption DEF Chain
  <1>5. target \in Chain(head) /\ SlotOf[justified] <= SlotOf[target]
    BY <1>1, <1>2, <1>3, <1>4
  <1>6. justified \in Chain(target) /\ SlotOf[target] <= SlotOf[head]
    BY <1>1, <1>5, OnOneChain
  <1>7. target = justified \/ slot_is_justifiable_after(SlotOf[target], SlotOf[finalized])
    <2>1. CASE SlotOf[unclamped] < SlotOf[justified]
      BY <1>3, <2>1
    <2>2. CASE ~(SlotOf[unclamped] < SlotOf[justified]) /\ SlotOf[unclamped] <= SlotOf[finalized]
      <3>1. target = unclamped
        BY <1>3, <2>2
      <3>2. SlotOf[target] <= SlotOf[justified]
        BY <1>1, <1>4, <1>5, <2>2, <3>1, TreeAssumption
      <3>3. SlotOf[target] = SlotOf[justified]
        BY <1>1, <1>4, <1>5, <3>2
      <3>4. target \in Chain(justified) /\ justified \in Blocks
        BY <1>1, <1>4, <1>5, <3>2, OnOneChain
      <3>5. SlotOf[target] \in Nat /\ \A a \in Ancestors[justified] : SlotOf[a] < SlotOf[justified]
        BY <1>4, <1>5, <3>4, TreeAssumption, ChainsAreLinear DEF Linear
      <3> QED
        BY <3>3, <3>4, <3>5 DEF Chain
    <2> QED
      BY <1>2, <1>3, <2>1, <2>2
  <1>8. /\ data.slot = slot
        /\ data.head.root = head /\ data.head.slot = SlotOf[head]
        /\ data.target.root = target /\ data.target.slot = SlotOf[target]
        /\ data.source.root = justified /\ data.source.slot = SlotOf[justified]
        /\ target = justified => data.target = data.source
    BY DEF produce_attestation_data, Checkpoint, target
  <1>9. slot \in Int
    BY BoundsAssumption DEF IInv, ClockInv
  <1> HIDE DEF data
  <1>10. validate_attestation_data(data)
    <2>1. {data.source.root, data.target.root, data.head.root} \subseteq imported
      BY <1>1, <1>4, <1>5, <1>8
    <2>2. slot <= slot + 1
      BY <1>9
    <2> HIDE DEF slot
    <2>3. data.slot <= time \div INTERVALS_PER_SLOT + 1
      BY <1>8, <2>2 DEF slot
    <2> QED
      BY <1>5, <1>6, <1>8, <2>1, <2>3 DEF validate_attestation_data
  <1>11. OnChain(data.target.root, head) /\ OnChain(data.source.root, data.target.root)
    BY <1>5, <1>6, <1>8 DEF OnChain, Chain
  <1>12. \/ data.target = data.source
         \/ slot_is_justifiable_after(data.target.slot, SlotOf[finalized])
    BY <1>7, <1>8
  <1> QED
    BY <1>10, <1>11, <1>12 DEF VoteIsValid, data, slot

(***************************************************************************)
(* What the node's validators would sign is at any time a vote that the    *)
(* node's own validation accepts: source, target and head on one chain, in *)
(* order, the target the source or in a slot that can be justified.        *)
(***************************************************************************)
THEOREM VoteTheorem == Spec => []VoteIsValid
  BY IInvAlways, VoteValid, PTL

(***************************************************************************)
(* The types, and that the checkpoints, the head and the safe target always*)
(* are imported blocks and the buffers within their capacities.            *)
(***************************************************************************)
THEOREM TypeTheorem == Spec => []TypeOK
  <1>1. ASSUME IInv PROVE TypeOK
    <2>1. gossip_signatures_count \in Nat
      BY <1>1, FS_CardinalityType DEF IInv, VoteInv, CounterIsExact
    <2>2. unique_keys(new_payloads) \cup unique_keys(known_payloads) \subseteq SignatureKeys
      BY <1>1, UniqueKeys DEF IInv, TablesInv
    <2>3. justified \in live
      BY <1>1 DEF IInv, ChainInv, LiveChainComplete
    <2> QED
      BY <1>1, <2>1, <2>2, <2>3 DEF IInv, ChainInv, HeadInv, TablesInv, ClockInv, TypeOK
  <1> QED
    BY <1>1, IInvAlways, PTL

-----------------------------------------------------------------------------
(***************************************************************************)
(* The safe target.                                                        *)
(***************************************************************************)
\* A block other than the start has been chosen as a child with enough votes.
LEMMA SafeTargetMoves ==
    ASSUME IInv, update_safe_target
    PROVE  \/ safe_target' = justified
           \/ /\ OnChain(justified, safe_target')
              /\ \E attestations \in extract_latest_attestations(unique_keys(known_payloads)
                                                                    \cup unique_keys(new_payloads),
                                                                attestation_data) :
                     3 * Cardinality(Support(safe_target', imported, attestations)) >= 2 * N
  <1>1. PICK attestations \in
            extract_latest_attestations(unique_keys(known_payloads)
                                            \cup unique_keys(new_payloads), attestation_data) :
                safe_target' = compute_lmd_ghost_head(justified, live, attestations,
                                                      min_target_score)
    BY DEF update_safe_target
  <1> DEFINE w == weights(justified, live, attestations)
             found == safe_target'
  <1>2. /\ found \in live /\ reached(found, justified, live, w, min_target_score)
        /\ IsFiniteSet(DOMAIN attestations)
    BY <1>1, UpdateSafeTarget DEF IInv
  <1>3. CASE found = justified
    BY ZenonT(30), <1>3
  <1>4. CASE found # justified
    <2>1. justified \in Ancestors[found] /\ best_child(found, live, w, min_target_score)
      BY ZenonT(30), <1>2, <1>4 DEF reached
    <2>2. w[found] >= min_target_score
      BY <2>1 DEF best_child, children
    <2>3. w[found] = weight(found, SlotOf[justified], live, attestations)
      BY <1>2 DEF weights
    <2> DEFINE size == Cardinality(Support(found, imported, attestations))
    <2>4. w[found] \in Nat /\ size \in Nat /\ w[found] <= size
      BY ZenonT(30), <1>2, <2>3, WeightIsSupport DEF IInv, ChainInv
    <2> HIDE DEF w, size
    <2>5. 3 * size >= 2 * N
      BY <2>2, <2>4, VotesAssumption DEF min_target_score
    <2> QED
      BY ZenonT(30), <1>1, <2>1, <2>5 DEF OnChain, size
  <1> QED
    BY ZenonT(30), <1>3, <1>4

(***************************************************************************)
(* update_safe_target moves the safe target only to the justified block or *)
(* to one after it that two thirds of all validators vote for.             *)
(***************************************************************************)
THEOREM SafeTargetTheorem == Spec => SafeTargetHasSupermajority
  <1> DEFINE A == safe_target' # safe_target =>
                      \/ safe_target' = justified
                      \/ /\ OnChain(justified, safe_target')
                         /\ \E attestations \in
                                extract_latest_attestations(unique_keys(known_payloads)
                                                                \cup unique_keys(new_payloads),
                                                            attestation_data) :
                                3 * Cardinality(Support(safe_target', imported, attestations)) >= 2 * N
  <1>1. ASSUME IInv, [Next]_vars PROVE [A]_vars
    <2>1. CASE UNCHANGED safe_target
      BY <2>1
    <2>2. CASE update_safe_target
      BY <1>1, <2>2, SafeTargetMoves
    <2>3. UNCHANGED safe_target \/ update_safe_target
      BY ZenonT(30), <1>1 DEF Next, vars, OnBlock, OnGossipAttestation, OnGossipAggregatedAttestation,
                  ProposeBlock, OnTick, accept_new_attestations, aggregate_committee_signatures
    <2> QED
      BY <2>1, <2>2, <2>3
  <1> QED
    BY <1>1, IInvAlways, PTL DEF Spec, SafeTargetHasSupermajority

-----------------------------------------------------------------------------
(***************************************************************************)
(* The votes that are known.                                               *)
(***************************************************************************)
\* The known entries stay, or the buffer is full.
LEMMA KnownKeysStay ==
    ASSUME IInv, [Next]_vars
    PROVE  \/ unique_keys(known_payloads) \subseteq unique_keys(known_payloads')
           \/ Len(known_payloads') = AGGREGATED_PAYLOAD_CAP
  <1>1. ASSUME NEW b \in Blocks \ {Genesis}, OnBlock(b)
        PROVE  \/ unique_keys(known_payloads) \subseteq unique_keys(known_payloads')
               \/ Len(known_payloads') = AGGREGATED_PAYLOAD_CAP
    <2>1. keys_of(Body[b]) \in Seq(SignatureKeys)
      BY VotesAssumption, KeysType
    <2>2. known_payloads' = push_batch(known_payloads, AGGREGATED_PAYLOAD_CAP, keys_of(Body[b]))
      BY ZenonT(30), <1>1 DEF OnBlock
    <2> QED
      BY ZenonT(30), <2>1, <2>2, PushBatch, BoundsAssumption DEF IInv, TablesInv
  <1>2. ASSUME accept_new_attestations
        PROVE  \/ unique_keys(known_payloads) \subseteq unique_keys(known_payloads')
               \/ Len(known_payloads') = AGGREGATED_PAYLOAD_CAP
    <2>1. known_payloads' = push_batch(known_payloads, AGGREGATED_PAYLOAD_CAP, new_payloads)
      BY <1>2 DEF accept_new_attestations, promote
    <2> QED
      BY <2>1, PushBatch, BoundsAssumption DEF IInv, TablesInv
  <1>3. \/ \E b \in Blocks \ {Genesis} : OnBlock(b)
        \/ accept_new_attestations
        \/ UNCHANGED known_payloads
    BY ZenonT(30) DEF Next, vars, votes, OnGossipAttestation, OnGossipAggregatedAttestation,
           ProposeBlock, OnTick, aggregate_committee_signatures
  <1> QED
    BY <1>1, <1>2, <1>3

\* The data of a vote stays unless it is at most as new as the finalized block.
LEMMA DataStays ==
    ASSUME [Next]_vars
    PROVE  \A d \in attestation_data : d \in attestation_data' \/ ~(d.slot > SlotOf[finalized'])
  <1>1. ASSUME NEW b \in Blocks \ {Genesis}, OnBlock(b), NEW d \in attestation_data
        PROVE  d \in attestation_data' \/ ~(d.slot > SlotOf[finalized'])
    <2> DEFINE kept == IF finalized' # finalized
                       THEN prune_attestation_data(attestation_data, SlotOf[finalized'])
                       ELSE attestation_data
    <2>1. kept \subseteq attestation_data'
      BY ZenonT(30), <1>1 DEF OnBlock
    <2> QED
      BY <2>1 DEF prune_attestation_data
  <1>2. \/ \E b \in Blocks \ {Genesis} : OnBlock(b)
        \/ attestation_data \subseteq attestation_data'
    BY ZenonT(30) DEF Next, vars, votes, OnGossipAttestation, OnGossipAggregatedAttestation,
           ProposeBlock, OnTick, accept_new_attestations, aggregate_committee_signatures
  <1> QED
    BY <1>1, <1>2

(***************************************************************************)
(* No handler makes a validator's latest known vote older, but for what    *)
(* finalization or a full buffer drops.                                    *)
(***************************************************************************)
THEOREM VotesTheorem == Spec => VotesNeverRegress
  <1> DEFINE A == \A v \in Validators : \A s \in KnownSlots(v) :
                      \/ \E t \in KnownSlots(v)' : t >= s
                      \/ s <= SlotOf[finalized']
                      \/ Len(known_payloads') = AGGREGATED_PAYLOAD_CAP
  <1>1. ASSUME IInv, [Next]_vars, IInv' PROVE A
    <2> SUFFICES ASSUME NEW v \in Validators, NEW s \in KnownSlots(v),
                        ~(s <= SlotOf[finalized']),
                        Len(known_payloads') # AGGREGATED_PAYLOAD_CAP
                 PROVE  \E t \in KnownSlots(v)' : t >= s
      OBVIOUS
    <2>1. PICK l \in unique_keys(known_payloads) :
              l[1] = v /\ l[2] \in attestation_data /\ s = l[2].slot
      BY DEF KnownSlots
    <2>2. s \in Nat
      <3>1. l[2] \in AttestationData
        BY <1>1, <2>1 DEF IInv, TablesInv
      <3> QED
        BY <2>1, <3>1 DEF AttestationData
    <2>3. SlotOf[finalized'] \in Nat
      BY <1>1, TreeAssumption DEF IInv, ChainInv
    <2>4. l[2] \in attestation_data'
      BY <1>1, <2>1, <2>2, <2>3, DataStays
    <2>5. l \in unique_keys(known_payloads')
      BY <1>1, KnownKeysStay
    <2>6. s \in KnownSlots(v)'
      BY <2>1, <2>4, <2>5 DEF KnownSlots
    <2> QED
      BY <2>2, <2>6
  <1>2. ASSUME IInv, [Next]_vars, IInv' PROVE [A]_vars
    BY <1>1, <1>2
  <1> HIDE DEF A
  <1>3. Spec => [][A]_vars
    BY <1>2, IInvAlways, PTL DEF Spec
  <1> QED
    BY <1>3, PTL DEF A, VotesNeverRegress

-----------------------------------------------------------------------------
(***************************************************************************)
(* The head is heaviest.                                                   *)
(***************************************************************************)
\* update_head is such a descent.
LEMMA UpdateHeadHeaviest ==
    ASSUME IInv', update_head
    PROVE  /\ OnChain(justified', head')
           /\ \A b \in imported' \ {Genesis} : ParentOf[b] # head'
           /\ \E attestations \in extract_latest_attestations(unique_keys(known_payloads'),
                                                              attestation_data') :
                  Heaviest(live', imported', justified', head', attestations)
  <1>1. PICK attestations \in extract_latest_attestations(unique_keys(known_payloads'),
                                                          attestation_data') :
            head' = compute_lmd_ghost_head(justified', live', attestations, 0)
    BY DEF update_head
  <1> DEFINE w == weights(justified', live', attestations)
             low == SlotOf[finalized']
  <1>2. /\ head' \in live'
        /\ reached(head', justified', live', w, 0)
        /\ children(head', live', w, 0) = {}
    BY <1>1, UpdateHead DEF IInv
  <1>3. IsFiniteSet(DOMAIN attestations)
    BY Extracted, UniqueKeys DEF IInv, TablesInv
  <1>4. /\ imported' \in SUBSET Blocks
        /\ \A b \in imported' : Ancestors[b] \subseteq imported'
        /\ live' \in SUBSET imported'
        /\ \A b \in imported' : SlotOf[b] >= low => b \in live'
        /\ justified' \in live' /\ finalized' \in Blocks
        /\ low <= SlotOf[justified']
    BY DEF IInv, ChainInv, LiveChainComplete
  <1>5. low \in Nat
    BY <1>4, TreeAssumption
  <1> HIDE DEF low
  <1> QED
    BY ZenonT(30), <1>1, <1>2, <1>3, <1>4, <1>5, GhostIsHeaviest

(***************************************************************************)
(* Whenever blocks or votes enter fork choice, the head is a leaf after the*)
(* justified block, and no block on the way to it has a sibling with more  *)
(* support.  The walk over the pruned LiveChain counts what the tree does, *)
(* because LiveChainComplete keeps every block from the finalized slot on. *)
(***************************************************************************)
THEOREM HeadTheorem == Spec => HeadIsHeaviest
  <1> DEFINE A == (known_payloads' # known_payloads \/ imported' # imported) =>
                      /\ OnChain(justified', head')
                      /\ \A b \in imported' \ {Genesis} : ParentOf[b] # head'
                      /\ \E attestations \in
                             extract_latest_attestations(unique_keys(known_payloads'),
                                                         attestation_data') :
                             Heaviest(live', imported', justified', head', attestations)
  <1>1. ASSUME IInv', [Next]_vars PROVE [A]_vars
    <2>1. update_head \/ UNCHANGED <<known_payloads, imported>>
      BY ZenonT(30), <1>1 DEF Next, vars, votes, chain, OnBlock, OnGossipAttestation,
                  OnGossipAggregatedAttestation, ProposeBlock, OnTick, accept_new_attestations,
                  aggregate_committee_signatures
    <2>2. CASE update_head
      BY <1>1, <2>2, UpdateHeadHeaviest
    <2>3. CASE UNCHANGED <<known_payloads, imported>>
      BY <2>3
    <2> QED
      BY <2>1, <2>2, <2>3
  <1> HIDE DEF A
  <1>2. Spec => [][A]_vars
    BY <1>1, IInvAlways, PTL DEF Spec
  <1> QED
    BY <1>2, PTL DEF A, Heaviest, HeadIsHeaviest

(***************************************************************************)
(* The LiveChain keeps every imported block from the finalized slot on, so *)
(* the row of the justified block, where fork choice starts, is never      *)
(* pruned.                                                                 *)
(***************************************************************************)
THEOREM LiveChainTheorem == Spec => []LiveChainComplete
  <1>1. IInv => LiveChainComplete
    BY DEF IInv, ChainInv
  <1> QED
    BY <1>1, IInvAlways, PTL

(***************************************************************************)
(* Every gossip signature has its data: pruning by finalization takes both *)
(* or none, and each handler writes the data with the signature.           *)
(***************************************************************************)
THEOREM SignaturesTheorem == Spec => []SignaturesHaveData
  <1>1. IInv => SignaturesHaveData
    BY DEF IInv, VoteInv
  <1> QED
    BY <1>1, IInvAlways, PTL

(***************************************************************************)
(* The counter of gossip signatures equals the size of the table, so the   *)
(* saturating subtractions of prune and delete never saturate.             *)
(***************************************************************************)
THEOREM CounterTheorem == Spec => []CounterIsExact
  <1>1. IInv => CounterIsExact
    BY DEF IInv, VoteInv
  <1> QED
    BY <1>1, IInvAlways, PTL
=============================================================================
