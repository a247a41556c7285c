---------------------------- MODULE RoutingProofs ----------------------------
(***************************************************************************)
(* Proofs of the properties of Routing.  What a route is made of follows   *)
(* from what ranking a finite set returns; that every member has a rank    *)
(* follows from counting, since ranks are distinct.                        *)
(***************************************************************************)
EXTENDS Routing, FiniteSetTheorems, FunctionTheorems, TLAPS

-----------------------------------------------------------------------------
(* Ranks.                                                                  *)

\* A finite set with a strict total order has one member of each rank: pre[x] are
\* the members below x.
LEMMA Ranks ==
    ASSUME NEW S, IsFiniteSet(S), NEW pre \in [S -> SUBSET S],
           \A x \in S : x \notin pre[x],
           \A x, y \in S : x # y => x \in pre[y] \/ y \in pre[x],
           \A x, y \in S : y \in pre[x] => pre[y] \subseteq pre[x]
    PROVE  /\ Cardinality(S) \in Nat
           /\ \A x \in S : Cardinality(pre[x]) \in Nat
           /\ \A k \in 1 .. Cardinality(S) : \E x \in S : Cardinality(pre[x]) = k - 1
           /\ \A x, y \in S : Cardinality(pre[x]) = Cardinality(pre[y]) => x = y
<1> DEFINE n == Cardinality(S)
           rank == [x \in S |-> Cardinality(pre[x]) + 1]
<1>1. n \in Nat
  BY FS_CardinalityType
<1>2. ASSUME NEW x \in S
      PROVE  Cardinality(pre[x]) \in Nat /\ Cardinality(pre[x]) + 1 <= n
  <2>1. pre[x] \in SUBSET (S \ {x})
    OBVIOUS
  <2>2. IsFiniteSet(S \ {x}) /\ Cardinality(S \ {x}) = n - 1
    BY FS_RemoveElement
  <2>3. IsFiniteSet(pre[x]) /\ Cardinality(pre[x]) <= n - 1
    BY <2>1, <2>2, FS_Subset
  <2> QED
    BY <2>3, <1>1, FS_CardinalityType
<1>3. ASSUME NEW x \in S, NEW y \in S, y \in pre[x]
      PROVE  Cardinality(pre[y]) # Cardinality(pre[x])
  <2>1. pre[y] \in SUBSET pre[x] /\ pre[y] # pre[x]
    BY <1>3
  <2>2. IsFiniteSet(pre[x])
    BY FS_Subset
  <2> QED
    BY <2>1, <2>2, FS_Subset
<1>4. \A x, y \in S : Cardinality(pre[x]) = Cardinality(pre[y]) => x = y
  BY <1>3
<1>5. rank \in Injection(S, 1 .. n)
  <2>1. rank \in [S -> 1 .. n]
    BY <1>1, <1>2
  <2>2. \A x, y \in S : rank[x] = rank[y] => x = y
    BY <1>2, <1>4
  <2> QED
    BY <2>1, <2>2 DEF Injection, IsInjective
<1>6. IsFiniteSet(1 .. n) /\ Cardinality(1 .. n) = n
  BY <1>1, FS_Interval
<1>7. rank \in Surjection(S, 1 .. n)
  BY <1>5, <1>6, FS_Injection
<1>8. \A k \in 1 .. n : \E x \in S : rank[x] = k
  BY <1>7 DEF Surjection
<1> QED
  BY <1>1, <1>2, <1>4, <1>8

\* Ranking enumerates without repetition, in the order.
LEMMA RankedBy ==
    ASSUME NEW S, IsFiniteSet(S), NEW pre \in [S -> SUBSET S],
           \A x \in S : x \notin pre[x],
           \A x, y \in S : x # y => x \in pre[y] \/ y \in pre[x],
           \A x, y \in S : y \in pre[x] => pre[y] \subseteq pre[x],
           NEW s, s = [k \in 1 .. Cardinality(S) |-> s[k]],
           \A k \in 1 .. Cardinality(S) : \A x \in S :
              Cardinality(pre[x]) = k - 1 => s[k] \in S /\ Cardinality(pre[s[k]]) = k - 1
    PROVE  /\ Cardinality(S) \in Nat
           /\ s \in [1 .. Cardinality(S) -> S]
           /\ \A x \in S : \E k \in 1 .. Cardinality(S) : s[k] = x
           /\ \A k, l \in 1 .. Cardinality(S) : s[k] = s[l] => k = l
           /\ \A k, l \in 1 .. Cardinality(S) : k < l => s[k] \in pre[s[l]]
<1> DEFINE n == Cardinality(S)
<1>1. /\ n \in Nat
      /\ \A x \in S : Cardinality(pre[x]) \in Nat
      /\ \A k \in 1 .. n : \E x \in S : Cardinality(pre[x]) = k - 1
      /\ \A x, y \in S : Cardinality(pre[x]) = Cardinality(pre[y]) => x = y
  BY Ranks
<1>2. /\ s = [k \in 1 .. n |-> s[k]]
      /\ \A k \in 1 .. n : \A x \in S :
            Cardinality(pre[x]) = k - 1 => s[k] \in S /\ Cardinality(pre[s[k]]) = k - 1
  OBVIOUS
<1> HIDE DEF n
<1>3. ASSUME NEW k \in 1 .. n
      PROVE  s[k] \in S /\ Cardinality(pre[s[k]]) = k - 1
  BY <1>1, <1>2
<1>4. ASSUME NEW x \in S
      PROVE  \E k \in 1 .. n : s[k] = x
  <2>1. pre[x] \in SUBSET (S \ {x})
    OBVIOUS
  <2>2. IsFiniteSet(S \ {x}) /\ Cardinality(S \ {x}) = n - 1
    BY FS_RemoveElement DEF n
  <2>3. Cardinality(pre[x]) <= n - 1
    BY <2>1, <2>2, FS_Subset
  <2>4. PICK k \in 1 .. n : k = Cardinality(pre[x]) + 1
    BY <2>3, <1>1
  <2>5. s[k] \in S /\ Cardinality(pre[s[k]]) = k - 1
    BY <1>3
  <2>6. Cardinality(pre[s[k]]) = Cardinality(pre[x])
    BY <2>4, <2>5, <1>1
  <2> QED
    BY <2>5, <2>6, <1>1
<1>5. ASSUME NEW k \in 1 .. n, NEW l \in 1 .. n, s[k] = s[l]
      PROVE  k = l
  <2>1. k - 1 = l - 1
    BY <1>3, <1>5
  <2> QED
    BY <2>1, <1>1
<1>6. ASSUME NEW k \in 1 .. n, NEW l \in 1 .. n, k < l
      PROVE  s[k] \in pre[s[l]]
  <2>1. s[k] \in S /\ s[l] \in S /\ s[k] # s[l]
    BY <1>3, <1>5, <1>6, <1>1
  <2>2. ~(s[l] \in pre[s[k]])
    <3> SUFFICES ASSUME s[l] \in pre[s[k]]
                 PROVE  FALSE
      OBVIOUS
    <3>1. pre[s[l]] \in SUBSET pre[s[k]]
      BY <2>1
    <3>2. IsFiniteSet(pre[s[k]])
      BY <2>1, FS_Subset
    <3>3. Cardinality(pre[s[l]]) <= Cardinality(pre[s[k]])
      BY <3>1, <3>2, FS_Subset
    <3>4. l - 1 <= k - 1
      BY <3>3, <1>3
    <3> QED
      BY <3>4, <1>6, <1>1
  <2> QED
    BY <2>1, <2>2
<1>7. s \in [1 .. n -> S]
  BY <1>2, <1>3
<1> QED
  BY <1>1, <1>4, <1>5, <1>6, <1>7 DEF n

-----------------------------------------------------------------------------
(* Matches and their order.                                                *)

\* What Configure keeps of the catalogue: names identify profiles.
Catalogue(cat) ==
    /\ cat \subseteq Pool
    /\ IsFiniteSet(cat)
    /\ \A c, d \in cat : c.name = d.name => c = d

\* A profile of the catalogue and one of its rows.
Offers(cat) == UNION {{[profile |-> p, row |-> m] : m \in p.rows} : p \in cat}

\* The keys that sort matches.
Shown(x, preferVisible) == IF preferVisible /\ x.profile.hidden THEN 1 ELSE 0

\* Before compares the keys in turn.
LEMMA BeforeCompares ==
    ASSUME NEW x, NEW y, NEW v
    PROVE  Before(x, y, v) <=>
              \/ Shown(x, v) < Shown(y, v)
              \/ /\ Shown(x, v) = Shown(y, v)
                 /\ x.profile.order < y.profile.order
              \/ /\ Shown(x, v) = Shown(y, v)
                 /\ x.profile.order = y.profile.order
                 /\ x.profile.name < y.profile.name
              \/ /\ Shown(x, v) = Shown(y, v)
                 /\ x.profile.order = y.profile.order
                 /\ x.profile.name = y.profile.name
                 /\ x.row.at < y.row.at
<1> DEFINE key(z) == <<Shown(z, v), z.profile.order, z.profile.name, z.row.at>>
           Decides(i) == key(x)[i] < key(y)[i] /\ \A j \in 1 .. i - 1 : key(x)[j] = key(y)[j]
<1>1. Before(x, y, v) <=> \E i \in 1 .. 4 : Decides(i)
  BY DEF Before, Shown
<1>2. \A z : /\ key(z)[1] = Shown(z, v) /\ key(z)[2] = z.profile.order
             /\ key(z)[3] = z.profile.name /\ key(z)[4] = z.row.at
  OBVIOUS
<1> HIDE DEF key
<1>3. (\E i \in 1 .. 4 : Decides(i)) <=> Decides(1) \/ Decides(2) \/ Decides(3) \/ Decides(4)
  <2>1. \A i : i \in 1 .. 4 <=> i = 1 \/ i = 2 \/ i = 3 \/ i = 4
    OBVIOUS
  <2> HIDE DEF Decides
  <2> QED
    BY <2>1
<1>4. /\ 1 .. 1 - 1 = {} /\ 1 .. 2 - 1 = {1} /\ 1 .. 3 - 1 = {1, 2} /\ 1 .. 4 - 1 = {1, 2, 3}
  OBVIOUS
<1> QED
  BY <1>1, <1>2, <1>3, <1>4

\* An offer has keys to compare, and they identify it.
LEMMA OfferKeys ==
    ASSUME NEW cat, Catalogue(cat)
    PROVE  /\ \A x \in Offers(cat) :
                 /\ x = [profile |-> x.profile, row |-> x.row]
                 /\ x.profile \in cat /\ x.row \in x.profile.rows
                 /\ x.profile.order \in Nat /\ x.profile.name \in Nat /\ x.row.at \in Nat
           /\ \A x, y \in Offers(cat) :
                 x.profile.name = y.profile.name /\ x.row.at = y.row.at => x = y
<1>1. ASSUME NEW x \in Offers(cat)
      PROVE  /\ x = [profile |-> x.profile, row |-> x.row]
             /\ x.profile \in cat /\ x.row \in x.profile.rows
             /\ x.profile.order \in Nat /\ x.profile.name \in Nat /\ x.row.at \in Nat
  <2>1. PICK p \in cat : \E m \in p.rows : x = [profile |-> p, row |-> m]
    BY DEF Offers
  <2>2. PICK m \in p.rows : x = [profile |-> p, row |-> m]
    BY <2>1
  <2>3. p \in Pool
    BY DEF Catalogue
  <2> QED
    BY <2>2, <2>3, RoutingAssumption
<1>2. ASSUME NEW x \in Offers(cat), NEW y \in Offers(cat),
             x.profile.name = y.profile.name, x.row.at = y.row.at
      PROVE  x = y
  <2>1. x.profile = y.profile /\ x.profile \in Pool
    BY <1>1, <1>2 DEF Catalogue
  <2>2. x.row = y.row
    BY <1>1, <1>2, <2>1, RoutingAssumption
  <2> QED
    BY <1>1, <2>1, <2>2
<1> QED
  BY <1>1, <1>2

\* Offers are ordered strictly and totally.
LEMMA BeforeOrders ==
    ASSUME NEW cat, Catalogue(cat), NEW v
    PROVE  /\ \A x \in Offers(cat) : ~Before(x, x, v)
           /\ \A x, y \in Offers(cat) : x # y => Before(x, y, v) \/ Before(y, x, v)
           /\ \A x, y, z \in Offers(cat) : Before(x, y, v) /\ Before(y, z, v) => Before(x, z, v)
<1>1. \A x : Shown(x, v) \in Nat
  BY DEF Shown
<1>2. ASSUME NEW x \in Offers(cat)
      PROVE  ~Before(x, x, v)
  BY <1>1, OfferKeys, BeforeCompares
<1>3. ASSUME NEW x \in Offers(cat), NEW y \in Offers(cat), x # y
      PROVE  Before(x, y, v) \/ Before(y, x, v)
  BY <1>1, <1>3, OfferKeys, BeforeCompares
<1>4. ASSUME NEW x \in Offers(cat), NEW y \in Offers(cat), NEW z \in Offers(cat),
             Before(x, y, v), Before(y, z, v)
      PROVE  Before(x, z, v)
  BY <1>1, <1>4, OfferKeys, BeforeCompares
<1> QED
  BY <1>2, <1>3, <1>4

\* The offers of a catalogue are finitely many.
LEMMA OffersFinite ==
    ASSUME NEW cat, Catalogue(cat)
    PROVE  IsFiniteSet(Offers(cat))
<1> DEFINE offered == {p.rows : p \in cat}
           rows == [p \in cat |-> p.rows]
           pair == [x \in Offers(cat) |-> <<x.profile, x.row>>]
<1>1. IsFiniteSet(offered)
  <2>1. rows \in Surjection(cat, offered)
    BY DEF Surjection
  <2> QED
    BY <2>1, FS_Surjection DEF Catalogue
<1>2. \A R \in offered : IsFiniteSet(R)
  BY RoutingAssumption DEF Catalogue
<1>3. IsFiniteSet(UNION offered)
  BY <1>1, <1>2, FS_UNION
<1>4. IsFiniteSet(cat \X UNION offered)
  BY <1>3, FS_Product DEF Catalogue
<1>5. pair \in Injection(Offers(cat), cat \X UNION offered)
  <2>1. pair \in [Offers(cat) -> cat \X UNION offered]
    BY OfferKeys
  <2>2. ASSUME NEW x \in Offers(cat), NEW y \in Offers(cat), pair[x] = pair[y]
        PROVE  x = y
    <3>1. x.profile = y.profile /\ x.row = y.row
      BY <2>2
    <3> QED
      BY <3>1, OfferKeys
  <2> QED
    BY <2>1, <2>2 DEF Injection, IsInjective
<1> QED
  BY <1>4, <1>5, FS_Injection

\* Offers in the order of Before.
Sorted(S, v) == Ranked(S, LAMBDA x, y : Before(x, y, v))

\* Sorting offers enumerates them without repetition, in their order.
LEMMA OffersRanked ==
    ASSUME NEW cat, Catalogue(cat), NEW S \in SUBSET Offers(cat), NEW v
    PROVE  LET s == Sorted(S, v)
           IN  /\ Cardinality(S) \in Nat
               /\ s \in [1 .. Cardinality(S) -> S]
               /\ \A x \in S : \E k \in 1 .. Cardinality(S) : s[k] = x
               /\ \A k, l \in 1 .. Cardinality(S) : s[k] = s[l] => k = l
               /\ \A k, l \in 1 .. Cardinality(S) : k < l => Before(s[k], s[l], v)
<1> DEFINE s == Sorted(S, v)
           pre == [x \in S |-> {y \in S : Before(y, x, v)}]
<1>1. IsFiniteSet(S)
  BY OffersFinite, FS_Subset
<1>2. /\ pre \in [S -> SUBSET S]
      /\ \A x \in S : x \notin pre[x]
      /\ \A x, y \in S : x # y => x \in pre[y] \/ y \in pre[x]
      /\ \A x, y \in S : y \in pre[x] => pre[y] \subseteq pre[x]
  BY BeforeOrders
<1>3. s = [k \in 1 .. Cardinality(S) |-> s[k]]
  <2> DEFINE f(k) == CHOOSE z \in S : Cardinality({y \in S : Before(y, z, v)}) = k - 1
  <2>1. s = [k \in 1 .. Cardinality(S) |-> f(k)]
    BY DEF Sorted, Ranked
  <2> HIDE DEF f, s
  <2> QED
    BY ONLY <2>1
<1>4. ASSUME NEW k \in 1 .. Cardinality(S), NEW x \in S, Cardinality(pre[x]) = k - 1
      PROVE  s[k] \in S /\ Cardinality(pre[s[k]]) = k - 1
  <2>1. \A z \in S : pre[z] = {y \in S : Before(y, z, v)}
    OBVIOUS
  <2>2. s[k] = CHOOSE z \in S : Cardinality({y \in S : Before(y, z, v)}) = k - 1
    BY DEF Sorted, Ranked
  <2> HIDE DEF s, pre
  <2>3. \E z \in S : Cardinality({y \in S : Before(y, z, v)}) = k - 1
    BY <1>4, <2>1
  <2>4. s[k] \in S /\ Cardinality({y \in S : Before(y, s[k], v)}) = k - 1
    BY <2>2, <2>3
  <2> QED
    BY <2>1, <2>4
<1>5. /\ Cardinality(S) \in Nat
      /\ s \in [1 .. Cardinality(S) -> S]
      /\ \A x \in S : \E k \in 1 .. Cardinality(S) : s[k] = x
      /\ \A k, l \in 1 .. Cardinality(S) : s[k] = s[l] => k = l
      /\ \A k, l \in 1 .. Cardinality(S) : k < l => s[k] \in pre[s[l]]
  <2> HIDE DEF s, pre
  <2> QED
    BY ONLY <1>1, <1>2, <1>3, <1>4, RankedBy
<1> QED
  BY <1>5

\* There is a first among offers.
LEMMA FirstIsFirst ==
    ASSUME NEW cat, Catalogue(cat), NEW S \in SUBSET Offers(cat), S # {}, NEW v
    PROVE  /\ First(S, v) \in S
           /\ \A y \in S \ {First(S, v)} : Before(First(S, v), y, v)
<1> DEFINE s == Sorted(S, v)
<1>1. /\ Cardinality(S) \in Nat
      /\ s \in [1 .. Cardinality(S) -> S]
      /\ \A x \in S : \E k \in 1 .. Cardinality(S) : s[k] = x
      /\ \A k, l \in 1 .. Cardinality(S) : k < l => Before(s[k], s[l], v)
  BY OffersRanked
<1> HIDE DEF s
<1>2. 1 \in 1 .. Cardinality(S)
  BY <1>1
<1>3. s[1] \in S /\ \A y \in S \ {s[1]} : Before(s[1], y, v)
  BY <1>1, <1>2
<1> QED
  BY <1>3 DEF First

\* The positions of a sequence that are kept, in order.
Order(kept) == Ranked(kept, LAMBDA k, l : k < l)

\* Filtering keeps positions in their order; the first stays first if kept.
LEMMA OrderKept ==
    ASSUME NEW n \in Nat, NEW kept \in SUBSET (1 .. n)
    PROVE  /\ Cardinality(kept) \in Nat
           /\ Order(kept) \in [1 .. Cardinality(kept) -> kept]
           /\ \A k, l \in 1 .. Cardinality(kept) : Order(kept)[k] = Order(kept)[l] => k = l
           /\ kept # {} => 1 \in 1 .. Cardinality(kept)
           /\ 1 \in kept => Order(kept)[1] = 1
<1> DEFINE s == Order(kept)
           pre == [x \in kept |-> {y \in kept : y < x}]
<1>1. IsFiniteSet(kept)
  <2>1. IsFiniteSet(1 .. n)
    BY FS_Interval
  <2> QED
    BY ONLY <2>1, kept \in SUBSET (1 .. n), FS_Subset
<1>2. /\ pre \in [kept -> SUBSET kept]
      /\ \A x \in kept : x \notin pre[x]
      /\ \A x, y \in kept : x # y => x \in pre[y] \/ y \in pre[x]
      /\ \A x, y \in kept : y \in pre[x] => pre[y] \subseteq pre[x]
  <2>1. \A x \in kept : x \in Nat
    OBVIOUS
  <2>2. pre \in [kept -> SUBSET kept] /\ \A x, y \in kept : y \in pre[x] <=> y < x
    OBVIOUS
  <2> HIDE DEF pre
  <2>3. /\ \A x \in kept : ~(x < x)
        /\ \A x, y \in kept : x # y => x < y \/ y < x
        /\ \A x, y, z \in kept : z < y /\ y < x => z < x
    BY ONLY <2>1
  <2>4. ASSUME NEW x \in kept, NEW y \in kept, y \in pre[x], NEW z \in pre[y]
        PROVE  z \in pre[x]
    BY ONLY <2>2, <2>3, <2>4
  <2> QED
    BY ONLY <2>2, <2>3, <2>4
<1>3. s = [k \in 1 .. Cardinality(kept) |-> s[k]]
  <2> DEFINE f(k) == CHOOSE z \in kept : Cardinality({y \in kept : y < z}) = k - 1
  <2>1. s = [k \in 1 .. Cardinality(kept) |-> f(k)]
    BY DEF Order, Ranked
  <2> HIDE DEF f, s
  <2> QED
    BY ONLY <2>1
<1>4. ASSUME NEW k \in 1 .. Cardinality(kept), NEW x \in kept, Cardinality(pre[x]) = k - 1
      PROVE  s[k] \in kept /\ Cardinality(pre[s[k]]) = k - 1
  <2>1. \A z \in kept : pre[z] = {y \in kept : y < z}
    OBVIOUS
  <2>2. s[k] = CHOOSE z \in kept : Cardinality({y \in kept : y < z}) = k - 1
    BY DEF Order, Ranked
  <2> HIDE DEF s, pre
  <2>3. \E z \in kept : Cardinality({y \in kept : y < z}) = k - 1
    BY <1>4, <2>1
  <2>4. s[k] \in kept /\ Cardinality({y \in kept : y < s[k]}) = k - 1
    BY <2>2, <2>3
  <2> QED
    BY <2>1, <2>4
<1>5. /\ Cardinality(kept) \in Nat
      /\ s \in [1 .. Cardinality(kept) -> kept]
      /\ \A x \in kept : \E k \in 1 .. Cardinality(kept) : s[k] = x
      /\ \A k, l \in 1 .. Cardinality(kept) : s[k] = s[l] => k = l
      /\ \A k, l \in 1 .. Cardinality(kept) : k < l => s[k] \in pre[s[l]]
  <2> HIDE DEF s, pre
  <2> QED
    BY ONLY <1>1, <1>2, <1>3, <1>4, RankedBy
<1>6. kept # {} => 1 \in 1 .. Cardinality(kept)
  BY <1>1, <1>5, FS_EmptySet
<1>7. ASSUME 1 \in kept
      PROVE  s[1] = 1
  <2>1. PICK k \in 1 .. Cardinality(kept) : s[k] = 1
    BY <1>5, <1>7
  <2>2. ~(1 < k)
    <3>1. 1 < k => s[1] < 1
      BY <1>5, <1>6, <1>7, <2>1
    <3>2. s[1] \in 1 .. n
      BY <1>5, <1>6, <1>7
    <3> HIDE DEF s
    <3> QED
      BY <3>1, <3>2
  <2>3. k = 1
    BY <2>2, <1>5
  <2> QED
    BY <2>1, <2>3
<1> QED
  BY <1>5, <1>6, <1>7

-----------------------------------------------------------------------------
(* Chains.                                                                 *)

\* Connections that a caller cannot tell apart but by their format.
Alike(x, y) ==
    /\ x.profile.here
    /\ x.profile.group = y.profile.group
    /\ x.row.wire = y.row.wire
    /\ BillingModeOn(x.profile, x.row) = BillingModeOn(y.profile, y.row)

\* A route: a head and those who may take over from it.
Chain(cat, cs) ==
    /\ cs \in Seq(Offers(cat))
    /\ cs # <<>>
    /\ \A i, j \in DOMAIN cs :
          /\ Alike(cs[i], cs[j])
          /\ i # j => cs[i].profile.name # cs[j].profile.name /\ ~cs[i].profile.plan

\* An answer is a route or an error without one.
Sound(cat, r) == IF r.ok THEN Chain(cat, r.connections) ELSE r.connections = <<>>

\* What matches a reference is on offer in the region.
LEMMA MatchesOffered ==
    ASSUME NEW cat, NEW ref, NEW scope
    PROVE  /\ Matches(cat, ref, scope) \in SUBSET Offers(cat)
           /\ Qualified(cat, ref, scope) \in SUBSET Offers(cat)
           /\ \A x \in Matches(cat, ref, scope) \cup Qualified(cat, ref, scope) : x.profile.here
BY DEF Matches, Qualified, Offers

\* The rows of a sibling that may take over, and the one that does.
Rows(c, head) == {m \in c.rows : Interchangeable(c, m, head)}
Chosen(cat, head) ==
    {c \in cat :
        /\ c.here
        /\ c.group = head.profile.group
        /\ c.name # head.profile.name
        /\ ~c.plan
        /\ ~head.profile.plan
        /\ Cardinality(Rows(c, head)) = 1}
Hop(c, head) == [profile |-> c, row |-> CHOOSE m \in Rows(c, head) : TRUE]
Hops(cat, head) == {Hop(c, head) : c \in Chosen(cat, head)}

\* Siblings takes hops in order.
LEMMA SiblingsAreHops ==
    ASSUME NEW cat, NEW head
    PROVE  Siblings(cat, head) = Sorted(Hops(cat, head), FALSE)
BY DEF Siblings, Sorted, Hops, Hop, Chosen, Rows

\* A hop is an offer of another profile that is like the head.
LEMMA HopsAlike ==
    ASSUME NEW cat, Catalogue(cat), NEW head \in Offers(cat), head.profile.here,
           NEW x \in Hops(cat, head)
    PROVE  /\ x \in Offers(cat)
           /\ x.profile \in cat /\ x.profile.here /\ x.profile.group = head.profile.group
           /\ x.profile.name # head.profile.name /\ ~x.profile.plan /\ ~head.profile.plan
           /\ x.row.wire = head.row.wire
           /\ BillingModeOn(x.profile, x.row) = BillingModeOn(head.profile, head.row)
           /\ x = Hop(x.profile, head)
<1>1. PICK c \in Chosen(cat, head) : x = Hop(c, head)
  BY DEF Hops
<1>2. c \in cat /\ c.here /\ c.group = head.profile.group /\ c.name # head.profile.name
      /\ ~c.plan /\ ~head.profile.plan /\ Cardinality(Rows(c, head)) = 1
  BY DEF Chosen
<1>3. Rows(c, head) \in SUBSET c.rows /\ IsFiniteSet(c.rows)
  BY <1>2, RoutingAssumption DEF Rows, Catalogue
<1>4. IsFiniteSet(Rows(c, head))
  BY <1>3, FS_Subset
<1>5. PICK m \in Rows(c, head) : m = CHOOSE n \in Rows(c, head) : TRUE
  BY <1>2, <1>4, FS_Singleton
<1>6. x.profile = c /\ x.row = m /\ x = [profile |-> c, row |-> m]
  BY <1>1, <1>5 DEF Hop
<1>7. m \in c.rows /\ Interchangeable(c, m, head)
  BY <1>5 DEF Rows
<1> QED
  BY <1>1, <1>2, <1>6, <1>7 DEF Interchangeable, Offers

\* A head and its siblings are a chain.
LEMMA SiblingsChain ==
    ASSUME NEW cat, Catalogue(cat), NEW head \in Offers(cat), head.profile.here
    PROVE  Chain(cat, <<head>> \o Siblings(cat, head)) /\ (<<head>> \o Siblings(cat, head))[1] = head
<1> DEFINE S == Hops(cat, head)
           n == Cardinality(S)
           s == Siblings(cat, head)
           cs == <<head>> \o s
<1>1. S \in SUBSET Offers(cat)
  BY HopsAlike
<1>2. /\ n \in Nat
      /\ s \in [1 .. n -> S]
      /\ \A k, l \in 1 .. n : s[k] = s[l] => k = l
  <2>1. s = Sorted(S, FALSE)
    BY SiblingsAreHops
  <2> HIDE DEF s, S
  <2> QED
    BY <1>1, <2>1, OffersRanked
<1> HIDE DEF s, n, S
<1>3. s \in Seq(Offers(cat)) /\ Len(s) = n
  BY <1>1, <1>2
<1>4. cs \in Seq(Offers(cat)) /\ Len(cs) = n + 1 /\ DOMAIN cs = 1 .. n + 1 /\ cs[1] = head
      /\ \A i \in 2 .. n + 1 : cs[i] = s[i - 1]
  BY <1>2, <1>3
<1> HIDE DEF cs
<1>5. \A i \in DOMAIN cs : i = 1 \/ (i - 1 \in 1 .. n /\ i \in 2 .. n + 1)
  BY <1>2, <1>4
<1>6. ASSUME NEW i \in DOMAIN cs
      PROVE  /\ cs[i] \in Offers(cat)
             /\ Alike(cs[i], head) /\ Alike(head, cs[i])
             /\ i # 1 => cs[i] \in S
  <2>1. CASE i = 1
    BY <2>1, <1>4 DEF Alike
  <2>2. CASE i # 1
    <3>1. cs[i] \in S
      BY <2>2, <1>2, <1>4, <1>5
    <3> QED
      BY <2>2, <3>1, <1>1, HopsAlike DEF Alike, S
  <2> QED
    BY <2>1, <2>2
<1>7. ASSUME NEW i \in DOMAIN cs, NEW j \in DOMAIN cs, i # j
      PROVE  cs[i].profile.name # cs[j].profile.name /\ ~cs[i].profile.plan
  <2>1. CASE i # 1 /\ j # 1
    <3>1. cs[i] = s[i - 1] /\ cs[j] = s[j - 1] /\ i - 1 \in 1 .. n /\ j - 1 \in 1 .. n /\ i - 1 # j - 1
      BY <2>1, <1>2, <1>4, <1>5, <1>7
    <3>2. cs[i] # cs[j]
      BY <3>1, <1>2
    <3>3. cs[i] \in S /\ cs[j] \in S
      BY <1>6, <2>1
    <3>4. cs[i] = Hop(cs[i].profile, head) /\ cs[j] = Hop(cs[j].profile, head)
          /\ cs[i].profile \in cat /\ cs[j].profile \in cat /\ ~cs[i].profile.plan
      BY <3>3, HopsAlike DEF S
    <3> QED
      BY <3>2, <3>4 DEF Catalogue
  <2>2. CASE i = 1
    BY <2>2, <1>4, <1>6, <1>7, HopsAlike DEF S
  <2>3. CASE j = 1
    BY <2>3, <1>4, <1>6, <1>7, HopsAlike DEF S
  <2> QED
    BY <2>1, <2>2, <2>3
<1>8. \A i, j \in DOMAIN cs : Alike(cs[i], cs[j])
  BY <1>6 DEF Alike
<1>9. cs # <<>>
  BY <1>2, <1>4
<1>10. Chain(cat, cs)
  BY <1>4, <1>7, <1>8, <1>9 DEF Chain
<1> QED
  BY <1>4, <1>10 DEF cs, s

\* What resolve_request_with_precedence settles on: the matches it starts from.
Native(cat, ref, scope) == Visible(Matches(cat, ref, scope), scope)
Read(cat, ref, scope, preferNative) ==
    IF Native(cat, ref, scope) # {} THEN Native(cat, ref, scope)
    ELSE IF preferNative /\ Native(cat, ref, scope) # {} THEN {} ELSE Qualified(cat, ref, scope)
HeadOf(cat, ref, scope, preferNative) == First(Read(cat, ref, scope, preferNative), scope = None)

\* An answer starts on the first match and goes on with its siblings.
LEMMA PrecedenceHeads ==
    ASSUME NEW cat, Catalogue(cat), NEW ref, NEW scope, NEW prefer \in BOOLEAN
    PROVE  LET r == WithPrecedence(cat, ref, scope, prefer)
               head == HeadOf(cat, ref, scope, prefer)
           IN  \/ /\ r.ok = TRUE /\ r.why = None
                  /\ Read(cat, ref, scope, prefer) # {}
                  /\ head \in Read(cat, ref, scope, prefer)
                  /\ head \in Offers(cat) /\ head.profile.here
                  /\ r = Found(<<head>> \o Siblings(cat, head))
               \/ /\ r.ok = FALSE /\ r.connections = <<>>
                  /\ r.why \in {"AmbiguousNativeAndQualified", "UnknownModel", "AmbiguousAcrossGroups",
                                "DuplicateOnProfile"}
<1> DEFINE native == Native(cat, ref, scope)
           qualified == IF prefer /\ native # {} THEN {} ELSE Qualified(cat, ref, scope)
           matches == Read(cat, ref, scope, prefer)
           head == HeadOf(cat, ref, scope, prefer)
           r == WithPrecedence(cat, ref, scope, prefer)
<1>1. r = CASE /\ scope = None
               /\ native # {} /\ qualified # {}
               /\ First(native, TRUE) # First(qualified, TRUE) -> Failed("AmbiguousNativeAndQualified")
            [] matches = {} -> Failed("UnknownModel")
            [] \E x, y \in matches : x.profile.group # y.profile.group -> Failed("AmbiguousAcrossGroups")
            [] \E x, y \in matches : x # y /\ x.profile.name = y.profile.name -> Failed("DuplicateOnProfile")
            [] OTHER -> Found(<<head>> \o Siblings(cat, head))
  BY DEF WithPrecedence, Native, Read, HeadOf
<1>2. matches \in SUBSET Offers(cat) /\ \A x \in matches : x.profile.here
  BY MatchesOffered DEF Read, Native, Visible
<1>3. matches # {} => head \in matches
  BY <1>2, FirstIsFirst DEF HeadOf
<1> HIDE DEF native, qualified, matches, head, r
<1>4. \/ r \in {Failed("AmbiguousNativeAndQualified"), Failed("UnknownModel"),
                Failed("AmbiguousAcrossGroups"), Failed("DuplicateOnProfile")}
      \/ matches # {} /\ r = Found(<<head>> \o Siblings(cat, head))
  BY ONLY <1>1
<1> QED
  BY <1>2, <1>3, <1>4 DEF Failed, Found, matches, head, r

\* Whatever resolve_request_with_precedence answers is sound.
LEMMA PrecedenceSound ==
    ASSUME NEW cat, Catalogue(cat), NEW ref, NEW scope, NEW prefer \in BOOLEAN
    PROVE  Sound(cat, WithPrecedence(cat, ref, scope, prefer))
<1> DEFINE r == WithPrecedence(cat, ref, scope, prefer)
           head == HeadOf(cat, ref, scope, prefer)
           cs == <<head>> \o Siblings(cat, head)
<1>1. \/ r.ok = TRUE /\ head \in Offers(cat) /\ head.profile.here /\ r = Found(cs)
      \/ r.ok = FALSE /\ r.connections = <<>>
  BY PrecedenceHeads
<1> HIDE DEF r, head
<1>2. ASSUME head \in Offers(cat), head.profile.here
      PROVE  Chain(cat, cs)
  BY <1>2, SiblingsChain
<1> HIDE DEF cs
<1>3. r.ok = TRUE => Chain(cat, r.connections)
  BY <1>1, <1>2 DEF Found
<1> QED
  BY <1>1, <1>3 DEF Sound, r

InFormat(cs, protocol) == \A i \in DOMAIN cs : cs[i].profile.protocol = protocol

\* Keeping one format keeps a chain a chain; a kept head stays the head.
LEMMA RetainedSound ==
    ASSUME NEW cat, NEW found, Sound(cat, found), found.ok \in BOOLEAN, NEW protocol
    PROVE  /\ Sound(cat, Retained(found, protocol))
           /\ found.ok => InFormat(Retained(found, protocol).connections, protocol)
           /\ found.ok /\ found.connections[1].profile.protocol = protocol =>
                 /\ Retained(found, protocol).ok
                 /\ Retained(found, protocol).connections[1] = found.connections[1]
<1> DEFINE cs == found.connections
           kept == {k \in DOMAIN cs : cs[k].profile.protocol = protocol}
           order == Order(kept)
           r == Retained(found, protocol)
           to == [k \in DOMAIN order |-> cs[order[k]]]
<1>1. r = IF ~found.ok THEN found ELSE IF kept = {} THEN Failed("panic") ELSE Found(to)
  BY DEF Retained, Order
<1>2. CASE ~found.ok
  BY <1>1, <1>2 DEF Sound
<1>3. CASE found.ok
  <2>1. Chain(cat, cs)
    BY <1>3 DEF Sound
  <2>2. cs \in Seq(Offers(cat)) /\ Len(cs) \in Nat /\ DOMAIN cs = 1 .. Len(cs) /\ 1 \in DOMAIN cs
    BY <2>1 DEF Chain
  <2>3. kept \in SUBSET (1 .. Len(cs))
    BY <2>2
  <2>4. /\ Cardinality(kept) \in Nat
        /\ order \in [1 .. Cardinality(kept) -> kept]
        /\ \A k, l \in 1 .. Cardinality(kept) : order[k] = order[l] => k = l
        /\ kept # {} => 1 \in 1 .. Cardinality(kept)
        /\ 1 \in kept => order[1] = 1
    <3> HIDE DEF kept
    <3> QED
      BY <2>2, <2>3, OrderKept
  <2>5. \A k \in kept : k \in DOMAIN cs /\ cs[k].profile.protocol = protocol
    OBVIOUS
  <2>6. cs[1].profile.protocol = protocol => 1 \in kept
    BY <2>2
  <2>7. CASE kept = {}
    <3>1. r = Failed("panic")
      BY <1>1, <1>3, <2>7
    <3> QED
      BY <2>6, <2>7, <3>1 DEF Sound, InFormat, Failed
  <2>8. CASE kept # {}
    <3> HIDE DEF kept, order, cs
    <3>1. DOMAIN to = 1 .. Cardinality(kept)
          /\ \A k \in DOMAIN to : order[k] \in kept /\ to[k] = cs[order[k]]
      BY <2>4
    <3>2. r = Found(to)
      BY <1>1, <1>3, <2>8
    <3> HIDE DEF to
    <3>3. \A k \in DOMAIN to : to[k] \in Offers(cat) /\ to[k].profile.protocol = protocol
      BY <2>2, <2>5, <3>1
    <3>4. to \in Seq(Offers(cat))
      <4>1. to = [k \in 1 .. Cardinality(kept) |-> to[k]]
        BY <3>1 DEF to, order
      <4> QED
        BY <2>4, <3>1, <3>3, <4>1
    <3>5. 1 \in DOMAIN to
      BY <2>4, <2>8, <3>1
    <3>6. ASSUME NEW i \in DOMAIN to, NEW j \in DOMAIN to
          PROVE  /\ Alike(to[i], to[j])
                 /\ i # j => to[i].profile.name # to[j].profile.name /\ ~to[i].profile.plan
      <4>1. order[i] \in DOMAIN cs /\ order[j] \in DOMAIN cs /\ (i # j => order[i] # order[j])
        BY <2>4, <2>5, <3>1
      <4> QED
        BY <2>1, <3>1, <4>1 DEF Chain
    <3>7. Chain(cat, to)
      BY <3>4, <3>5, <3>6 DEF Chain
    <3>8. cs[1].profile.protocol = protocol => to[1] = cs[1]
      BY <2>4, <2>6, <3>1, <3>5
    <3>9. r.ok /\ r.connections = to
      BY <3>2 DEF Found
    <3> QED
      BY <3>3, <3>7, <3>8, <3>9 DEF Sound, InFormat, cs
  <2> QED
    BY <2>7, <2>8
<1> QED
  BY <1>2, <1>3

-----------------------------------------------------------------------------
(* Answers.                                                                *)

\* An answer is a chain of one format, or an error without connections.
Uniform(cs) == \A i, j \in DOMAIN cs : cs[i].profile.protocol = cs[j].profile.protocol
Answers(cat, r) == Sound(cat, r) /\ Uniform(r.connections)

\* A chain that was filtered is an answer.
LEMMA RetainedAnswers ==
    ASSUME NEW cat, NEW found, Sound(cat, found), found.ok \in BOOLEAN, NEW protocol
    PROVE  Answers(cat, Retained(found, protocol))
<1>1. CASE found.ok
  <2>1. Sound(cat, Retained(found, protocol))
    BY RetainedSound
  <2>2. InFormat(Retained(found, protocol).connections, protocol)
    BY <1>1, RetainedSound
  <2> QED
    BY <2>1, <2>2 DEF Answers, Uniform, InFormat
<1>2. CASE ~found.ok
  <2>1. Retained(found, protocol) = found /\ found.connections = <<>>
    BY <1>2 DEF Retained, Sound
  <2> QED
    BY <2>1 DEF Answers, Uniform
<1> QED
  BY <1>1, <1>2

\* Another format is an answer.
LEMMA AlternateAnswers ==
    ASSUME NEW cat, Catalogue(cat), NEW head, NEW ref, NEW protocol
    PROVE  Answers(cat, Alternate(cat, head, ref, protocol))
<1> DEFINE label == head.alternates[protocol]
           found == WithPrecedence(cat, ref, label, TRUE)
<1>1. found.ok \in BOOLEAN /\ Sound(cat, found)
  BY PrecedenceSound, PrecedenceHeads
<1>2. Answers(cat, Retained(found, protocol))
  BY <1>1, RetainedAnswers
<1>3. Answers(cat, Failed("UnsupportedProtocol"))
  BY DEF Answers, Sound, Uniform, Failed
<1>4. Alternate(cat, head, ref, protocol) \in {Failed("UnsupportedProtocol"), Retained(found, protocol)}
  BY DEF Alternate
<1> QED
  BY <1>2, <1>3, <1>4

\* Every question is answered.
LEMMA ResolveAnswers ==
    ASSUME NEW cat, Catalogue(cat), NEW ref, NEW scope, NEW protocol
    PROVE  Answers(cat, Resolve(cat, ref, scope, protocol))
<1> DEFINE source == WithPrecedence(cat, ref, scope, FALSE)
           head == source.connections[1]
           format == Or(protocol, Or(head.profile.default, head.profile.protocol))
           r == Resolve(cat, ref, scope, protocol)
<1>1. Sound(cat, source)
  BY PrecedenceSound
<1>2. source.ok \in BOOLEAN /\ (source.ok => source.why # "UnknownModel")
  BY PrecedenceHeads, RoutingAssumption
<1>3. \/ source.ok = FALSE /\ r \in {source, Unlisted(cat, ref, scope, protocol, source)}
      \/ source.ok = TRUE /\ r \in {Retained(source, format), Alternate(cat, head.profile, head.row.wire, format)}
  BY <1>2 DEF Resolve
<1>4. ASSUME source.ok = FALSE
      PROVE  Answers(cat, source)
  <2> HIDE DEF source
  <2>1. source.connections = <<>>
    BY <1>1, <1>4 DEF Sound
  <2> QED
    BY <1>1, <2>1 DEF Answers, Uniform
<1>5. ASSUME source.ok = FALSE
      PROVE  Answers(cat, Unlisted(cat, ref, scope, protocol, source))
  BY <1>4, <1>5, AlternateAnswers DEF Unlisted
<1>6. Answers(cat, Retained(source, format))
  BY <1>1, <1>2, RetainedAnswers
<1>7. Answers(cat, Alternate(cat, head.profile, head.row.wire, format))
  BY AlternateAnswers
<1> HIDE DEF source, format, head, r
<1> QED
  BY <1>3, <1>4, <1>5, <1>6, <1>7 DEF r

-----------------------------------------------------------------------------
(* The theorems.                                                           *)

\* Names identify the profiles of every catalogue: DuplicateProfile.
THEOREM RoutingCatalogue == Spec => []Catalogue(catalog)
<1>1. Init => Catalogue(catalog)
  BY FS_EmptySet DEF Init, Catalogue
<1>2. ASSUME Catalogue(catalog), [Next]_catalog
      PROVE  Catalogue(catalog)'
  <2>1. ASSUME NEW p \in Pool, Configure(p)
        PROVE  Catalogue(catalog)'
    <3>1. IsFiniteSet(catalog')
      BY <1>2, <2>1, FS_AddElement DEF Configure, Catalogue
    <3> QED
      BY <1>2, <2>1, <3>1 DEF Configure, Catalogue
  <2>2. ASSUME NEW p \in Pool, Withdraw(p)
        PROVE  Catalogue(catalog)'
    <3>1. IsFiniteSet(catalog')
      BY <1>2, <2>2, FS_RemoveElement DEF Withdraw, Catalogue
    <3> QED
      BY <1>2, <2>2, <3>1 DEF Withdraw, Catalogue
  <2>3. CASE UNCHANGED catalog
    BY <1>2, <2>3 DEF Catalogue
  <2> QED
    BY <1>2, <2>1, <2>2, <2>3 DEF Next
<1> QED
  BY <1>1, <1>2, PTL DEF Spec

\* resolve_request never fails over to something else: the connections of a route
\* share group, format, wire model and billing, are different profiles of the
\* region, and a plan is alone.
THEOREM RoutingChains == Spec => []SiblingsInterchangeable
<1>1. Catalogue(catalog) => SiblingsInterchangeable
  <2> SUFFICES ASSUME Catalogue(catalog), NEW q \in Questions,
                      NEW i \in DOMAIN Route(q), NEW j \in DOMAIN Route(q)
               PROVE  LET x == Route(q)[i]
                          y == Route(q)[j]
                      IN  /\ x.profile.here
                          /\ x.profile.group = y.profile.group
                          /\ x.profile.protocol = y.profile.protocol
                          /\ x.row.wire = y.row.wire
                          /\ BillingModeOn(x.profile, x.row) = BillingModeOn(y.profile, y.row)
                          /\ i # j => x.profile.name # y.profile.name /\ ~x.profile.plan
    BY DEF SiblingsInterchangeable
  <2>1. Answers(catalog, Answer(catalog, q))
    BY ResolveAnswers DEF Answer
  <2>2. Route(q) # <<>>
    OBVIOUS
  <2>3. Chain(catalog, Route(q)) /\ Uniform(Route(q))
    BY <2>1, <2>2 DEF Answers, Sound, Route
  <2> QED
    BY <2>3 DEF Chain, Alike, Uniform
<1> QED
  BY <1>1, RoutingCatalogue, PTL

-----------------------------------------------------------------------------
(* Hidden profiles.                                                        *)

\* Why resolve_request_with_precedence refuses what it found.
Refused(cat, ref, scope, prefer) ==
    LET native == Native(cat, ref, scope)
        qualified == IF prefer /\ native # {} THEN {} ELSE Qualified(cat, ref, scope)
        matches == Read(cat, ref, scope, prefer)
    IN  \/ /\ scope = None
           /\ native # {} /\ qualified # {}
           /\ First(native, TRUE) # First(qualified, TRUE)
        \/ matches = {}
        \/ \E x, y \in matches : x.profile.group # y.profile.group
        \/ \E x, y \in matches : x # y /\ x.profile.name = y.profile.name

\* It answers with a route unless it refuses, and knows a model that matches.
LEMMA PrecedenceRefuses ==
    ASSUME NEW cat, Catalogue(cat), NEW ref, NEW scope, NEW prefer \in BOOLEAN
    PROVE  LET r == WithPrecedence(cat, ref, scope, prefer)
               head == HeadOf(cat, ref, scope, prefer)
           IN  /\ Refused(cat, ref, scope, prefer) => r.ok = FALSE
               /\ ~Refused(cat, ref, scope, prefer) => r = Found(<<head>> \o Siblings(cat, head))
               /\ Read(cat, ref, scope, prefer) # {} => r.why # "UnknownModel"
<1> DEFINE native == Native(cat, ref, scope)
           qualified == IF prefer /\ native # {} THEN {} ELSE Qualified(cat, ref, scope)
           matches == Read(cat, ref, scope, prefer)
           head == HeadOf(cat, ref, scope, prefer)
           A == scope = None /\ native # {} /\ qualified # {} /\ First(native, TRUE) # First(qualified, TRUE)
           B == \E x, y \in matches : x.profile.group # y.profile.group
           C == \E x, y \in matches : x # y /\ x.profile.name = y.profile.name
           route == Found(<<head>> \o Siblings(cat, head))
           r == WithPrecedence(cat, ref, scope, prefer)
<1>1. r = CASE A -> Failed("AmbiguousNativeAndQualified")
            [] matches = {} -> Failed("UnknownModel")
            [] B -> Failed("AmbiguousAcrossGroups")
            [] C -> Failed("DuplicateOnProfile")
            [] OTHER -> route
  BY DEF WithPrecedence, Native, Read, HeadOf
<1>2. Refused(cat, ref, scope, prefer) <=> A \/ matches = {} \/ B \/ C
  BY DEF Refused
<1> HIDE DEF matches, A, B, C, route, r
<1>3. /\ A \/ matches = {} \/ B \/ C =>
            r \in {Failed("AmbiguousNativeAndQualified"), Failed("UnknownModel"),
                   Failed("AmbiguousAcrossGroups"), Failed("DuplicateOnProfile")}
      /\ ~(A \/ matches = {} \/ B \/ C) => r = route
      /\ matches # {} => r \in {Failed("AmbiguousNativeAndQualified"), Failed("AmbiguousAcrossGroups"),
                                Failed("DuplicateOnProfile"), route}
  BY ONLY <1>1
<1>4. route.why # "UnknownModel"
  BY RoutingAssumption DEF route, Found
<1> QED
  BY <1>2, <1>3, <1>4 DEF Failed, matches, route, r

\* A reference starts on this head.
Begins(cat, ref, scope, prefer, head) ==
    LET r == WithPrecedence(cat, ref, scope, prefer)
    IN  /\ r.ok = TRUE /\ r.why # "UnknownModel"
        /\ head \in Read(cat, ref, scope, prefer)
        /\ r.connections[1] = head

\* Catalogues that read a reference alike start on the same head.
LEMMA SameReading ==
    ASSUME NEW cat, Catalogue(cat), NEW dog, Catalogue(dog), NEW ref, NEW scope, NEW prefer \in BOOLEAN,
           Native(cat, ref, scope) = Native(dog, ref, scope),
           Qualified(cat, ref, scope) = Qualified(dog, ref, scope),
           WithPrecedence(cat, ref, scope, prefer).ok = TRUE
    PROVE  /\ Begins(cat, ref, scope, prefer, HeadOf(cat, ref, scope, prefer))
           /\ Begins(dog, ref, scope, prefer, HeadOf(cat, ref, scope, prefer))
<1> DEFINE head == HeadOf(cat, ref, scope, prefer)
<1>1. /\ Read(cat, ref, scope, prefer) = Read(dog, ref, scope, prefer)
      /\ Refused(cat, ref, scope, prefer) = Refused(dog, ref, scope, prefer)
  BY DEF Read, Refused
<1>2. HeadOf(dog, ref, scope, prefer) = head
  BY <1>1 DEF HeadOf
<1>3. ~Refused(cat, ref, scope, prefer)
  BY PrecedenceRefuses
<1>4. /\ WithPrecedence(cat, ref, scope, prefer) = Found(<<head>> \o Siblings(cat, head))
      /\ WithPrecedence(dog, ref, scope, prefer) = Found(<<head>> \o Siblings(dog, head))
  BY <1>1, <1>2, <1>3, PrecedenceRefuses
<1>5. /\ WithPrecedence(cat, ref, scope, prefer).ok = TRUE
      /\ WithPrecedence(dog, ref, scope, prefer).ok = TRUE
  BY <1>4 DEF Found
<1>6. head \in Read(cat, ref, scope, prefer) /\ head \in Offers(cat) /\ head.profile.here
      /\ head \in Offers(dog)
  <2>1. head \in Read(cat, ref, scope, prefer) /\ head \in Offers(cat) /\ head.profile.here
    BY <1>5, PrecedenceHeads
  <2>2. head \in Offers(dog)
    BY <1>2, <1>5, PrecedenceHeads
  <2> QED
    BY <2>1, <2>2
<1>7. (<<head>> \o Siblings(cat, head))[1] = head /\ (<<head>> \o Siblings(dog, head))[1] = head
  BY <1>6, SiblingsChain
<1>8. /\ WithPrecedence(cat, ref, scope, prefer).why # "UnknownModel"
      /\ WithPrecedence(dog, ref, scope, prefer).why # "UnknownModel"
  BY <1>4, RoutingAssumption DEF Found
<1>9. /\ WithPrecedence(cat, ref, scope, prefer).connections[1] = head
      /\ WithPrecedence(dog, ref, scope, prefer).connections[1] = head
  <2> HIDE DEF head
  <2> QED
    BY <1>4, <1>7 DEF Found
<1> HIDE DEF head
<1> QED
  BY <1>1, <1>5, <1>6, <1>8, <1>9 DEF Begins, head

\* A hidden profile adds no match to a bare model that visible profiles list.
LEMMA HiddenNotNative ==
    ASSUME NEW cat, NEW p \in cat, p.hidden, NEW ref, ref.scope = None,
           NEW x \in Matches(cat \ {p}, ref, None), ~x.profile.hidden
    PROVE  /\ Native(cat, ref, None) = {y \in Matches(cat \ {p}, ref, None) : ~y.profile.hidden}
           /\ Native(cat \ {p}, ref, None) = {y \in Matches(cat \ {p}, ref, None) : ~y.profile.hidden}
           /\ Qualified(cat, ref, None) = {} /\ Qualified(cat \ {p}, ref, None) = {}
<1>1. \A y : y \in Matches(cat, ref, None) /\ ~y.profile.hidden <=>
             y \in Matches(cat \ {p}, ref, None) /\ ~y.profile.hidden
  BY DEF Matches
<1> QED
  BY <1>1 DEF Native, Visible, Qualified

\* A connection that is served in the region is the only one its name can mean.
LEMMA ScopeOfServed ==
    ASSUME NEW cat, Catalogue(cat), NEW p \in cat, NEW label,
           ServedHere(cat \ {p}, label) # {}, NEW ref
    PROVE  /\ Matches(cat, ref, label) = Matches(cat \ {p}, ref, label)
           /\ Qualified(cat, ref, label) = Qualified(cat \ {p}, ref, label)
           /\ \A x \in Matches(cat, ref, label) \cup Qualified(cat, ref, label) :
                 x.profile \in cat /\ x.profile.name = label
<1>1. PICK t \in cat \ {p} : t.name = label /\ t.here
  BY DEF ServedHere
<1>2. label # None
  BY <1>1, RoutingAssumption DEF Catalogue
<1>3. ServedHere(cat, label) # {}
  BY <1>1 DEF ServedHere
<1>4. p.name # label
  BY <1>1 DEF Catalogue
<1>5. ASSUME NEW name
      PROVE  /\ Matches(cat, name, label) = Matches(cat \ {p}, name, label)
             /\ \A x \in Matches(cat, name, label) : x.profile \in cat /\ x.profile.name = label
  <2>1. \A x : InScope(cat, x, label) <=> x.name = label
    BY <1>3 DEF InScope
  <2>2. \A x : InScope(cat \ {p}, x, label) <=> x.name = label
    BY DEF InScope
  <2>3. ASSUME NEW x
        PROVE  x \in Matches(cat, name, label) <=> x \in Matches(cat \ {p}, name, label)
    <3>1. x \in Matches(cat, name, label) <=>
             \E c \in cat : \E m \in c.rows : /\ x = [profile |-> c, row |-> m]
                                              /\ c.here /\ c.name = label /\ name \in m.names
      BY <1>2, <2>1 DEF Matches
    <3>2. x \in Matches(cat \ {p}, name, label) <=>
             \E c \in cat \ {p} : \E m \in c.rows : /\ x = [profile |-> c, row |-> m]
                                                    /\ c.here /\ c.name = label /\ name \in m.names
      BY <1>2, <2>2 DEF Matches
    <3> QED
      BY <3>1, <3>2, <1>4
  <2>4. \A x \in Matches(cat, name, label) : x.profile \in cat /\ x.profile.name = label
    BY <1>2, <2>1 DEF Matches
  <2> QED
    BY <2>3, <2>4
<1>6. /\ Qualified(cat, ref, label) = Qualified(cat \ {p}, ref, label)
      /\ \A x \in Qualified(cat, ref, label) : x.profile \in cat /\ x.profile.name = label
  <2>1. CASE ref.scope = label
    BY <1>2, <1>5, <2>1 DEF Qualified
  <2>2. CASE ref.scope # label
    BY <1>2, <2>2 DEF Qualified
  <2> QED
    BY <2>1, <2>2
<1> QED
  BY <1>5, <1>6

\* An answer starts where another does.
StartsLike(r, other) == r.ok /\ r.connections[1] = other.connections[1]

\* A switch of format for the same account is the same in both catalogues.
LEMMA SameAlternate ==
    ASSUME NEW cat, Catalogue(cat), NEW p \in cat, NEW head, NEW wire, NEW protocol,
           ServedHere(cat \ {p}, head.alternates[protocol]) # {},
           Alternate(cat \ {p}, head, wire, protocol).ok
    PROVE  StartsLike(Alternate(cat, head, wire, protocol), Alternate(cat \ {p}, head, wire, protocol))
<1> DEFINE label == head.alternates[protocol]
           others == cat \ {p}
           Target(c) == {t \in c : /\ t.name = label
                                   /\ t.provider = head.provider
                                   /\ t.credential = head.credential
                                   /\ t.protocol = protocol
                                   /\ t.billing = head.billing}
           before == WithPrecedence(others, wire, label, TRUE)
           after == WithPrecedence(cat, wire, label, TRUE)
           first == HeadOf(others, wire, label, TRUE)
<1>1. \A c : Alternate(c, head, wire, protocol) =
               IF Target(c) = {} THEN Failed("UnsupportedProtocol")
               ELSE Retained(WithPrecedence(c, wire, label, TRUE), protocol)
  BY DEF Alternate
<1>2. Catalogue(others)
  BY FS_Subset DEF Catalogue
<1>0. /\ Catalogue(cat) /\ others = cat \ {p} /\ ServedHere(others, label) # {}
      /\ Alternate(others, head, wire, protocol).ok
  OBVIOUS
<1> HIDE DEF Target, before, after, others, label
<1>3. Target(others) # {}
  <2> SUFFICES ASSUME Target(others) = {}
               PROVE  FALSE
    OBVIOUS
  <2>1. Alternate(others, head, wire, protocol) = Failed("UnsupportedProtocol")
    BY <1>1
  <2>2. Failed("UnsupportedProtocol").ok = FALSE
    BY DEF Failed
  <2> QED
    BY ONLY <1>0, <2>1, <2>2
<1>4. PICK t \in others : t.name = label /\ t.protocol = protocol
  BY <1>3 DEF Target
<1>5. Target(cat) # {}
  BY <1>0, <1>3 DEF Target
<1>6. Alternate(others, head, wire, protocol) = Retained(before, protocol)
  BY <1>1, <1>3 DEF before
<1>7. Alternate(cat, head, wire, protocol) = Retained(after, protocol)
  BY <1>1, <1>5 DEF after
<1>8. before.ok
  BY <1>0, <1>6 DEF Retained
<1>9. /\ Native(others, wire, label) = Native(cat, wire, label)
      /\ Qualified(others, wire, label) = Qualified(cat, wire, label)
      /\ \A x \in Matches(others, wire, label) \cup Qualified(others, wire, label) :
            x.profile \in cat /\ x.profile.name = label
  <2>1. /\ Matches(cat, wire, label) = Matches(others, wire, label)
        /\ Qualified(cat, wire, label) = Qualified(others, wire, label)
        /\ \A x \in Matches(cat, wire, label) \cup Qualified(cat, wire, label) :
              x.profile \in cat /\ x.profile.name = label
    BY <1>0, ScopeOfServed
  <2> QED
    BY <2>1 DEF Native
<1>10. /\ before.ok /\ after.ok
       /\ first \in Read(others, wire, label, TRUE)
       /\ before.connections[1] = first /\ after.connections[1] = first
  <2>1. WithPrecedence(others, wire, label, TRUE).ok = TRUE
    BY <1>2, <1>8, PrecedenceHeads DEF before
  <2>2. /\ Begins(others, wire, label, TRUE, HeadOf(others, wire, label, TRUE))
        /\ Begins(cat, wire, label, TRUE, HeadOf(others, wire, label, TRUE))
    BY ONLY <1>0, <1>2, <1>9, <2>1, SameReading
  <2> QED
    BY <2>2 DEF before, after, Begins
<1>11. first.profile.protocol = protocol
  <2>1. first.profile \in cat /\ first.profile.name = label
    BY <1>9, <1>10 DEF Read, Native, Visible
  <2>2. first.profile = t
    BY <1>0, <1>4, <2>1 DEF Catalogue
  <2> QED
    BY <2>2, <1>4
<1>12. Sound(others, before) /\ Sound(cat, after)
  BY <1>2, PrecedenceSound DEF before, after
<1>13. before.ok \in BOOLEAN /\ after.ok \in BOOLEAN
  BY <1>2, PrecedenceHeads DEF before, after
<1>14. Retained(before, protocol).ok /\ Retained(before, protocol).connections[1] = first
  BY <1>10, <1>11, <1>12, <1>13, RetainedSound
<1>15. Retained(after, protocol).ok /\ Retained(after, protocol).connections[1] = first
  BY <1>10, <1>11, <1>12, <1>13, RetainedSound
<1> QED
  BY <1>0, <1>6, <1>7, <1>14, <1>15 DEF StartsLike

\* "Hidden siblings [...] cannot make an existing unscoped model ambiguous": a
\* hidden profile leaves alone a bare model that visible profiles list.
THEOREM RoutingHidden == Spec => []HiddenChangesNoHead
<1>1. ASSUME Catalogue(catalog), NEW q \in Questions, NEW p \in catalog,
             p.hidden, q.scope = None, q.ref.scope = None, q.protocol = None,
             Answer(catalog \ {p}, q).ok,
             {x \in Matches(catalog \ {p}, q.ref, None) : ~x.profile.hidden} # {},
             \A x \in {y \in Matches(catalog \ {p}, q.ref, None) : ~y.profile.hidden} :
                DefaultServed(catalog \ {p}, x.profile)
      PROVE  /\ Answer(catalog, q).ok
             /\ Answer(catalog, q).connections[1] = Answer(catalog \ {p}, q).connections[1]
  <2> DEFINE others == catalog \ {p}
             ref == q.ref
             listed == {x \in Matches(others, ref, None) : ~x.profile.hidden}
             before == WithPrecedence(others, ref, None, FALSE)
             after == WithPrecedence(catalog, ref, None, FALSE)
             first == HeadOf(others, ref, None, FALSE)
             format == Or(None, Or(first.profile.default, first.profile.protocol))
  <2>1. Catalogue(others)
    BY <1>1, FS_Subset DEF Catalogue
  <2>2. PICK x \in Matches(others, ref, None) : ~x.profile.hidden
    BY <1>1
  <2>3. /\ Native(others, ref, None) = listed /\ Native(catalog, ref, None) = listed
        /\ Qualified(others, ref, None) = {} /\ Qualified(catalog, ref, None) = {}
    BY <1>1, <2>2, HiddenNotNative
  <2>4. listed # {} /\ Read(others, ref, None, FALSE) = listed
    BY <1>1, <2>3 DEF Read
  <2> HIDE DEF listed
  <2>5. before.ok
    <3>1. before.why # "UnknownModel" /\ before.ok \in BOOLEAN
      BY <2>1, <2>4, PrecedenceRefuses, PrecedenceHeads
    <3>2. Resolve(others, ref, None, None).ok
      BY <1>1 DEF Answer
    <3> QED
      BY <3>1, <3>2 DEF Resolve
  <2>6. /\ before.ok /\ after.ok
        /\ before.why # "UnknownModel" /\ after.why # "UnknownModel"
        /\ first \in listed
        /\ before.connections[1] = first /\ after.connections[1] = first
    <3>1. /\ Native(others, ref, None) = Native(catalog, ref, None)
          /\ Qualified(others, ref, None) = Qualified(catalog, ref, None)
      BY <2>3
    <3>2. WithPrecedence(others, ref, None, FALSE).ok = TRUE
      BY <2>1, <2>5, PrecedenceHeads
    <3>3. /\ Begins(others, ref, None, FALSE, HeadOf(others, ref, None, FALSE))
          /\ Begins(catalog, ref, None, FALSE, HeadOf(others, ref, None, FALSE))
      <4> HIDE DEF others, ref
      <4> QED
        BY <1>1, <2>1, <3>1, <3>2, SameReading
    <3> HIDE DEF others, ref
    <3> QED
      BY <2>4, <3>3 DEF Begins
  <2>7. Sound(others, before) /\ Sound(catalog, after)
        /\ before.ok \in BOOLEAN /\ after.ok \in BOOLEAN
    <3>1. Catalogue(others) /\ Catalogue(catalog)
      BY <1>1, <2>1
    <3> HIDE DEF others, ref
    <3>2. Sound(others, before) /\ Sound(catalog, after)
      BY <3>1, PrecedenceSound
    <3>3. before.ok \in BOOLEAN /\ after.ok \in BOOLEAN
      BY <3>1, PrecedenceHeads
    <3> QED
      BY <3>2, <3>3
  <2> HIDE DEF before, after, first
  <2>8. /\ Resolve(others, ref, None, None) =
              IF format = first.profile.protocol THEN Retained(before, format)
              ELSE Alternate(others, first.profile, first.row.wire, format)
        /\ Resolve(catalog, ref, None, None) =
              IF format = first.profile.protocol THEN Retained(after, format)
              ELSE Alternate(catalog, first.profile, first.row.wire, format)
    BY <2>6, <2>7 DEF Resolve, before, after
  <2>9. CASE format = first.profile.protocol
    <3> HIDE DEF format, others
    <3>1. Retained(before, format).connections[1] = first
      BY <2>6, <2>7, <2>9, RetainedSound
    <3>2. Retained(after, format).ok /\ Retained(after, format).connections[1] = first
      BY <2>6, <2>7, <2>9, RetainedSound
    <3> QED
      BY <1>1, <2>8, <2>9, <3>1, <3>2 DEF Answer, others
  <2>10. CASE format # first.profile.protocol
    <3>1. format = first.profile.default /\ first.profile.default \notin {None, first.profile.protocol}
      BY <2>10 DEF Or
    <3>2. ServedHere(others, first.profile.alternates[format]) # {}
      BY <1>1, <2>6, <3>1 DEF DefaultServed, listed
    <3>3. Alternate(others, first.profile, first.row.wire, format).ok
      BY <1>1, <2>8, <2>10 DEF Answer
    <3>4. StartsLike(Alternate(catalog, first.profile, first.row.wire, format),
                     Alternate(others, first.profile, first.row.wire, format))
      <4>1. /\ ServedHere(catalog \ {p}, first.profile.alternates[format]) # {}
            /\ Alternate(catalog \ {p}, first.profile, first.row.wire, format).ok
        BY <3>2, <3>3
      <4> HIDE DEF format
      <4> QED
        BY <1>1, <4>1, SameAlternate
    <3> QED
      BY <1>1, <2>8, <2>10, <3>4 DEF Answer, StartsLike
  <2> QED
    BY <2>9, <2>10
<1>2. Catalogue(catalog) => HiddenChangesNoHead
  BY <1>1 DEF HiddenChangesNoHead
<1> QED
  BY <1>2, RoutingCatalogue, PTL

-----------------------------------------------------------------------------
(* Formats.                                                                *)

\* What is read in the scope of a connection is that connection's.
LEMMA ScopeOfName ==
    ASSUME NEW cat, Catalogue(cat), NEW label, ServedHere(cat, label) # {}, NEW ref
    PROVE  \A x \in Native(cat, ref, label) \cup Qualified(cat, ref, label) :
              x.profile \in cat /\ x.profile.name = label
<1>1. label # None
  BY RoutingAssumption DEF ServedHere, Catalogue
<1>2. \A name : \A x \in Matches(cat, name, label) : x.profile \in cat /\ x.profile.name = label
  BY <1>1 DEF Matches, InScope
<1>3. Native(cat, ref, label) = Matches(cat, ref, label)
  BY <1>1 DEF Native, Visible
<1>4. Qualified(cat, ref, label) = {} \/ ref.scope = label
  BY <1>1 DEF Qualified
<1>5. Qualified(cat, ref, label) # {} =>
         Qualified(cat, ref, label) = Matches(cat, [ref EXCEPT !.scope = None], label)
  BY <1>4 DEF Qualified
<1> QED
  BY <1>2, <1>3, <1>5

\* A route that starts on a connection of that name.
On(cat, r, label) ==
    \E head \in Offers(cat) :
        /\ r.connections[1] = head
        /\ head.profile \in cat /\ head.profile.name = label

\* A route in the scope of a connection starts on that connection.
LEMMA ScopeHeads ==
    ASSUME NEW cat, Catalogue(cat), NEW label, ServedHere(cat, label) # {}, NEW ref,
           NEW prefer \in BOOLEAN,
           WithPrecedence(cat, ref, label, prefer).ok = TRUE
    PROVE  On(cat, WithPrecedence(cat, ref, label, prefer), label)
<1> DEFINE head == HeadOf(cat, ref, label, prefer)
<1>1. /\ head \in Read(cat, ref, label, prefer) /\ head \in Offers(cat) /\ head.profile.here
      /\ WithPrecedence(cat, ref, label, prefer) = Found(<<head>> \o Siblings(cat, head))
  BY PrecedenceHeads
<1>2. (<<head>> \o Siblings(cat, head))[1] = head
  BY <1>1, SiblingsChain
<1>3. Read(cat, ref, label, prefer) \subseteq Native(cat, ref, label) \cup Qualified(cat, ref, label)
  BY DEF Read
<1>4. head.profile \in cat /\ head.profile.name = label
  BY <1>1, <1>3, ScopeOfName
<1> HIDE DEF head
<1>5. WithPrecedence(cat, ref, label, prefer).connections[1] = head
  BY <1>1, <1>2 DEF Found
<1> QED
  BY <1>1, <1>4, <1>5 DEF On

\* A change of format goes to the same account, and never panics.
Stays(r, head, protocol) ==
    /\ r # Failed("panic")
    /\ r.connections # <<>> => /\ r.connections[1].profile.credential = head.credential
                               /\ r.connections[1].profile.protocol = protocol

\* resolve_alternate_protocol keeps the account if the target serves the region.
LEMMA AlternateStays ==
    ASSUME NEW cat, Catalogue(cat), NEW head, NEW wire, NEW protocol,
           ServedHere(cat, head.alternates[protocol]) # {}
    PROVE  Stays(Alternate(cat, head, wire, protocol), head, protocol)
<1> DEFINE label == head.alternates[protocol]
           target == {t \in cat : /\ t.name = label
                                  /\ t.provider = head.provider
                                  /\ t.credential = head.credential
                                  /\ t.protocol = protocol
                                  /\ t.billing = head.billing}
           found == WithPrecedence(cat, wire, label, TRUE)
<1>1. Alternate(cat, head, wire, protocol) =
         IF target = {} THEN Failed("UnsupportedProtocol") ELSE Retained(found, protocol)
  BY DEF Alternate
<1>2. Stays(Failed("UnsupportedProtocol"), head, protocol)
  BY DEF Stays, Failed
<1>3. ASSUME NEW t \in target
      PROVE  Stays(Retained(found, protocol), head, protocol)
  <2>1. found.ok \in BOOLEAN /\ Sound(cat, found)
    BY PrecedenceSound, PrecedenceHeads
  <2>2. CASE found.ok = FALSE
    <3>1. found.connections = <<>> /\ found # Failed("panic")
      <4>1. found.connections = <<>> /\ found.why # "panic"
        BY <2>2, PrecedenceHeads
      <4> HIDE DEF found
      <4> QED
        BY <4>1 DEF Failed
    <3>2. Retained(found, protocol) = found
      BY <2>2 DEF Retained
    <3> QED
      BY <3>1, <3>2 DEF Stays
  <2>3. CASE found.ok = TRUE
    <3>1. PICK first \in Offers(cat) : /\ found.connections[1] = first
                                       /\ first.profile \in cat /\ first.profile.name = label
      <4>1. Catalogue(cat) /\ ServedHere(cat, label) # {}
            /\ WithPrecedence(cat, wire, label, TRUE).ok = TRUE
        BY <2>3
      <4> HIDE DEF label
      <4>2. On(cat, WithPrecedence(cat, wire, label, TRUE), label)
        BY <4>1, ScopeHeads
      <4> QED
        BY <4>2 DEF On
    <3>2. t \in cat /\ t.name = label /\ t.credential = head.credential /\ t.protocol = protocol
      OBVIOUS
    <3> HIDE DEF label, found, target
    <3>3. first.profile = t
      BY <3>1, <3>2 DEF Catalogue
    <3>4. Retained(found, protocol).ok /\ Retained(found, protocol).connections[1] = first
      BY <2>1, <2>3, <3>1, <3>2, <3>3, RetainedSound
    <3>5. Retained(found, protocol) # Failed("panic")
      BY <3>4 DEF Failed
    <3> QED
      BY <3>2, <3>3, <3>4, <3>5 DEF Stays
  <2> QED
    BY <2>1, <2>2, <2>3
<1> QED
  BY <1>1, <1>2, <1>3

\* "Selection checks provider, credential configuration, billing product, target
\* model, and region": FormatStaysOnAccount for the targets that the region has.
ServedFormatStaysOnAccount ==
    \A q \in Questions : \A p \in ServedHere(catalog, q.scope) :
        /\ q.protocol \notin {None, p.protocol}
        /\ ServedHere(catalog, p.alternates[q.protocol]) # {}
        => Stays(Answer(catalog, q), p, q.protocol)

\* A question that names a connection and asks for another format, whose target
\* the region has, is answered by the same account in that format, or refused.
THEOREM RoutingFormats == Spec => []ServedFormatStaysOnAccount
<1>1. ASSUME Catalogue(catalog), NEW q \in Questions, NEW p \in ServedHere(catalog, q.scope),
             q.protocol \notin {None, p.protocol},
             ServedHere(catalog, p.alternates[q.protocol]) # {}
      PROVE  Stays(Answer(catalog, q), p, q.protocol)
  <2> DEFINE source == WithPrecedence(catalog, q.ref, q.scope, FALSE)
             Other(m) == Alternate(catalog, p, m, q.protocol)
  <2>1. \A m : Stays(Other(m), p, q.protocol)
    BY <1>1, AlternateStays
  <2>2. /\ p \in catalog /\ p.name = q.scope /\ p.here /\ q.scope # None
        /\ \A o \in ServedHere(catalog, q.scope) : o = p
    BY <1>1, RoutingAssumption DEF ServedHere, Catalogue
  <2>3. CASE source.ok = TRUE
    <3>1. PICK first \in Offers(catalog) : /\ source.connections[1] = first
                                           /\ first.profile \in catalog /\ first.profile.name = q.scope
      <4>1. On(catalog, source, q.scope)
        BY <1>1, <2>3, ScopeHeads
      <4> QED
        BY <4>1 DEF On
    <3>2. first.profile = p
      BY <1>1, <2>2, <3>1 DEF Catalogue
    <3>3. source.why # "UnknownModel"
      BY <1>1, <2>3, PrecedenceHeads, RoutingAssumption
    <3>4. Answer(catalog, q) = Other(first.row.wire)
      BY <1>1, <2>3, <3>1, <3>2, <3>3 DEF Answer, Resolve, Or
    <3> QED
      BY <2>1, <3>4
  <2>4. CASE source.ok = FALSE
    <3>1. source.connections = <<>> /\ source # Failed("panic")
      <4>1. source.connections = <<>> /\ source.why # "panic"
        BY <1>1, <2>4, PrecedenceHeads
      <4> HIDE DEF source
      <4> QED
        BY <4>1 DEF Failed
    <3>2. Stays(source, p, q.protocol)
      BY <3>1 DEF Stays
    <3>3. CASE source.why = "UnknownModel"
      <4>1. Answer(catalog, q) = Unlisted(catalog, q.ref, q.scope, q.protocol, source)
        <5> HIDE DEF source
        <5>1. ~source.ok
          BY <2>4
        <5> QED
          BY <3>3, <5>1 DEF Answer, Resolve, source
      <4>2. (CHOOSE o \in ServedHere(catalog, q.scope) : TRUE) = p
        BY <1>1, <2>2
      <4>3. \/ Answer(catalog, q) = source
            \/ \E m : Answer(catalog, q) = Other(m)
        BY <1>1, <2>2, <4>1, <4>2 DEF Unlisted, Or
      <4> QED
        BY <2>1, <3>2, <4>3
    <3>4. CASE source.why # "UnknownModel"
      <4>1. Answer(catalog, q) = source
        BY <2>4, <3>4 DEF Answer, Resolve
      <4> QED
        BY <3>2, <4>1
    <3> QED
      BY <3>3, <3>4
  <2>5. source.ok \in BOOLEAN
    BY <1>1, PrecedenceHeads
  <2> QED
    BY <2>3, <2>4, <2>5
<1>2. Catalogue(catalog) => ServedFormatStaysOnAccount
  BY <1>1 DEF ServedFormatStaysOnAccount
<1> QED
  BY <1>2, RoutingCatalogue, PTL

=============================================================================
