------------------------- MODULE BadgerStoreProofs -------------------------
(***************************************************************************)
(* Proofs about BadgerStore, for any spans, writers, queries and bounds.   *)
(*                                                                         *)
(* The names.  NInv: every row that has not run out belongs to a write     *)
(* whose names are about to be cached, or its service and its operation    *)
(* are cached until its expiry at least.  A write extends the expiry of a  *)
(* name and never shortens it, GetServices and GetOperations drop only     *)
(* names that have run out, and a restart reads the latest expiry back     *)
(* from the rows.                                                          *)
(*                                                                         *)
(* The searches.  InOrder puts a finite set in order by the rank of each   *)
(* element (RankOnto: by counting, every rank is taken once), so a scan    *)
(* has every key of its index, and after a key come only later ones.  The  *)
(* rounds of the join keep MergeInv: a common element of two ascending     *)
(* lists has been found or is still before both positions.  Induction over *)
(* the rounds is over sets of numbers (Induct), from the least number that *)
(* would not belong to the set.  In lists of any order the rounds keep     *)
(* Matched: what has been put out is in both, so that an answer has for    *)
(* every criterion a span that meets it.                                   *)
(***************************************************************************)
EXTENDS BadgerStore, TLAPS, FiniteSetTheorems, WellFoundedInduction, SequenceTheorems

\* A set of numbers that is not empty has a least one.
LEMMA LeastNatural ==
  ASSUME NEW S, S \subseteq Nat, S # {}
  PROVE  \E n \in S : \A m \in S : n <= m
<1> DEFINE R == OpToRel(<, Nat)
<1>1. IsWellFoundedOn(R, Nat)
  BY NatLessThanWellFounded
<1>2. \A m, n \in Nat : m < n => <<m, n>> \in R
  BY DEF OpToRel
<1> HIDE DEF R
<1>3. PICK n \in S : \A m \in S : <<m, n>> \notin R
  BY <1>1, WFMin
<1>4. ASSUME NEW m \in S PROVE n <= m
  <2>1. m \in Nat /\ n \in Nat /\ ~(m < n)
    BY <1>2, <1>3
  <2> QED
    BY <2>1
<1> QED
  BY <1>4

\* A bounded set of numbers has a greatest one.
LEMMA GreatestNatural ==
  ASSUME NEW S, S \subseteq Nat, S # {}, NEW n \in Nat, \A m \in S : m <= n
  PROVE  \E g \in S : \A m \in S : m <= g
<1> DEFINE T == {d \in Nat : \E m \in S : d = n - m}
<1>1. T \subseteq Nat /\ T # {}
  <2>1. PICK m \in S : TRUE
    OBVIOUS
  <2>2. n - m \in T
    BY <2>1
  <2> QED
    BY <2>2
<1>2. PICK d \in T : \A e \in T : d <= e
  <2> HIDE DEF T
  <2> QED
    BY <1>1, LeastNatural
<1>3. PICK g \in S : d = n - g
  BY <1>2
<1>4. ASSUME NEW m \in S PROVE m <= g
  <2>1. n - m \in T
    OBVIOUS
  <2>2. n - g <= n - m
    BY <1>2, <1>3, <2>1
  <2> QED
    BY <2>2
<1> QED
  BY <1>4

----------------------------------------------------------------------------
(* The names                                                               *)

NTyped ==
  /\ now \in Nat
  /\ \A r \in rows : r.exp \in Nat /\ r.exp <= now + TTL
  /\ \A s \in DOMAIN services : services[s] \in Nat
  /\ \A o \in DOMAIN opNames : opNames[o] \in Nat
  /\ updating \in [Writer -> SUBSET Span]
  /\ \A w \in Writer : \A s, t \in updating[w] : s = t

\* The cache has the names of a row for as long as the row lives.
Named(r) ==
  /\ r.span.service \in DOMAIN services /\ services[r.span.service] >= r.exp
  /\ <<r.span.service, r.span.op>> \in DOMAIN opNames
  /\ opNames[<<r.span.service, r.span.op>>] >= r.exp

NInv == NTyped /\ \A r \in rows : r.exp > now => InFlight(r.span) \/ Named(r)

\* Nothing is stored at first.
LEMMA NInvInit == Init => NInv
BY DEF Init, NInv, NTyped

\* A transaction stores a row whose names its writer has yet to cache.
LEMMA NInvTransaction ==
  ASSUME NInv, NEW w \in Writer, NEW s \in Span, Transaction(w, s)
  PROVE  NInv'
<1>1. /\ now' = now /\ services' = services /\ opNames' = opNames
      /\ updating[w] = {} /\ updating' = [updating EXCEPT ![w] = {s}]
      /\ \A r \in rows' : r \in rows \/ r = [span |-> s, exp |-> now + TTL]
  BY DEF Transaction, cache
<1>2. NTyped'
  <2>1. \A r \in rows' : r.exp \in Nat /\ r.exp <= now + TTL
    BY <1>1, TTLAssumption DEF NInv, NTyped
  <2>2. updating' \in [Writer -> SUBSET Span]
    BY <1>1 DEF NInv, NTyped
  <2>3. \A v \in Writer : \A x, y \in updating'[v] : x = y
    BY <1>1 DEF NInv, NTyped
  <2> QED
    BY <1>1, <2>1, <2>2, <2>3 DEF NInv, NTyped
<1>3. ASSUME NEW r \in rows', r.exp > now PROVE InFlight(r.span)' \/ Named(r)'
  <2>1. CASE r \in rows
    <3>1. InFlight(r.span) => InFlight(r.span)'
      BY <1>1 DEF InFlight, NInv, NTyped
    <3>2. Named(r) => Named(r)'
      BY <1>1 DEF Named
    <3> QED
      BY <1>3, <2>1, <3>1, <3>2 DEF NInv
  <2>2. CASE r = [span |-> s, exp |-> now + TTL]
    <3>1. r.span = s /\ s \in updating'[w]
      BY <1>1, <2>2 DEF NInv, NTyped
    <3> QED
      BY <3>1 DEF InFlight
  <2> QED
    BY <1>1, <2>1, <2>2
<1> QED
  BY <1>1, <1>2, <1>3 DEF NInv

\* A writer's names are cached until its row's expiry at least.
LEMMA NInvUpdate ==
  ASSUME NInv, NEW w \in Writer, Update(w)
  PROVE  NInv'
<1>1. PICK s \in updating[w] : /\ services' = SetName(services, s.service)
                               /\ opNames'  = SetName(opNames, <<s.service, s.op>>)
  BY DEF Update
<1>2. updating' = [updating EXCEPT ![w] = {}] /\ rows' = rows /\ now' = now
  BY DEF Update
<1>3. \A x \in updating[w] : x = s
  BY <1>1 DEF NInv, NTyped
<1>4. now + TTL \in Nat /\ \A r \in rows : r.exp \in Nat /\ r.exp <= now + TTL
  BY TTLAssumption DEF NInv, NTyped
<1>5. /\ DOMAIN services' = DOMAIN services \cup {s.service}
      /\ \A x \in DOMAIN services' : services'[x] = IF x = s.service THEN now + TTL ELSE services[x]
  BY <1>1 DEF SetName, Extended
<1>6. /\ DOMAIN opNames' = DOMAIN opNames \cup {<<s.service, s.op>>}
      /\ \A x \in DOMAIN opNames' : opNames'[x] = IF x = <<s.service, s.op>> THEN now + TTL ELSE opNames[x]
  BY <1>1 DEF SetName, Extended
<1>7. NTyped'
  <2>1. updating' \in [Writer -> SUBSET Span] /\ \A v \in Writer : \A x, y \in updating'[v] : x = y
    BY <1>2 DEF NInv, NTyped
  <2>2. (\A x \in DOMAIN services' : services'[x] \in Nat) /\ (\A x \in DOMAIN opNames' : opNames'[x] \in Nat)
    BY <1>4, <1>5, <1>6 DEF NInv, NTyped
  <2> QED
    BY <1>2, <2>1, <2>2 DEF NInv, NTyped
<1>8. ASSUME NEW r \in rows, Named(r) PROVE Named(r)'
  BY <1>4, <1>5, <1>6, <1>8 DEF Named
<1>9. ASSUME NEW r \in rows, InFlight(r.span) PROVE InFlight(r.span)' \/ Named(r)'
  <2>1. PICK v \in Writer : \E u \in updating[v] : u.service = r.span.service /\ u.op = r.span.op
    BY <1>9 DEF InFlight
  <2>2. CASE v = w
    <3>1. r.span.service = s.service /\ r.span.op = s.op
      BY <1>3, <2>1, <2>2
    <3>2. services'[s.service] >= r.exp /\ opNames'[<<s.service, s.op>>] >= r.exp
      BY <1>4, <1>5, <1>6
    <3> QED
      BY <1>5, <1>6, <3>1, <3>2 DEF Named
  <2>3. CASE v # w
    BY <1>2, <2>1, <2>3 DEF InFlight, NInv, NTyped
  <2> QED
    BY <2>2, <2>3
<1> QED
  BY <1>2, <1>7, <1>8, <1>9 DEF NInv

\* Dropping names that have run out.
LEMMA NInvDropped ==
  ASSUME NInv, UNCHANGED <<now, rows, updating>>,
         \A x \in DOMAIN services' : x \in DOMAIN services /\ services'[x] = services[x],
         \A x \in DOMAIN opNames' : x \in DOMAIN opNames /\ opNames'[x] = opNames[x],
         \A x \in DOMAIN services \ DOMAIN services' : services[x] <= now,
         \A r \in rows : LET o == <<r.span.service, r.span.op>>
                         IN  o \in DOMAIN opNames \ DOMAIN opNames' =>
                               opNames[o] <= now \/ services[r.span.service] <= now
  PROVE  NInv'
<1>1. NTyped'
  BY DEF NInv, NTyped
<1>2. ASSUME NEW r \in rows, r.exp > now, Named(r) PROVE Named(r)'
  <2>1. r.exp \in Nat /\ now \in Nat
    BY DEF NInv, NTyped
  <2>2. services[r.span.service] \in Nat /\ services[r.span.service] > now
    BY <1>2, <2>1 DEF Named, NInv, NTyped
  <2>3. opNames[<<r.span.service, r.span.op>>] \in Nat /\ opNames[<<r.span.service, r.span.op>>] > now
    BY <1>2, <2>1 DEF Named, NInv, NTyped
  <2>4. r.span.service \in DOMAIN services'
    BY <1>2, <2>1, <2>2 DEF Named
  <2>5. <<r.span.service, r.span.op>> \in DOMAIN opNames'
    BY <1>2, <2>1, <2>2, <2>3 DEF Named
  <2> QED
    BY <1>2, <2>4, <2>5 DEF Named
<1>3. \A r \in rows : InFlight(r.span) => InFlight(r.span)'
  BY DEF InFlight
<1> QED
  BY <1>1, <1>2, <1>3 DEF NInv

\* GetServices drops only services that have run out, so none of a live row.
LEMMA NInvGetServices ==
  ASSUME NInv, GetServices
  PROVE  NInv'
<1>1. \A x \in DOMAIN services : services[x] \in Nat /\ now \in Nat
  BY DEF NInv, NTyped
<1>2. UNCHANGED <<now, rows, updating>> /\ opNames' = opNames
  BY DEF GetServices
<1>3. /\ \A x \in DOMAIN services' : x \in DOMAIN services /\ services'[x] = services[x]
      /\ \A x \in DOMAIN services \ DOMAIN services' : services[x] <= now
  BY <1>1 DEF GetServices, Only
<1> QED
  BY <1>2, <1>3, NInvDropped

\* GetOperations likewise, whether or not it drops the service.
LEMMA NInvGetOperations ==
  ASSUME NInv, NEW s, GetOperations(s)
  PROVE  NInv'
<1>1. now \in Nat /\ s \in DOMAIN services /\ services[s] \in Nat
      /\ \A o \in DOMAIN opNames : opNames[o] \in Nat
  BY DEF NInv, NTyped, GetOperations
<1>2. UNCHANGED <<now, rows, updating>>
  BY DEF GetOperations
<1>3. CASE services[s] < now
  <2>1. /\ services' = Only(services, DOMAIN services \ {s})
        /\ opNames' = Only(opNames, {o \in DOMAIN opNames : o[1] # s})
    BY <1>3 DEF GetOperations
  <2>2. /\ \A x \in DOMAIN services' : x \in DOMAIN services /\ services'[x] = services[x]
        /\ \A x \in DOMAIN services \ DOMAIN services' : x = s
    BY <2>1 DEF Only
  <2>3. /\ \A x \in DOMAIN opNames' : x \in DOMAIN opNames /\ opNames'[x] = opNames[x]
        /\ \A x \in DOMAIN opNames \ DOMAIN opNames' : x[1] = s
    BY <2>1 DEF Only
  <2>4. \A x \in DOMAIN services \ DOMAIN services' : services[x] <= now
    BY <1>1, <1>3, <2>2
  <2>5. ASSUME NEW r \in rows,
               <<r.span.service, r.span.op>> \in DOMAIN opNames \ DOMAIN opNames'
        PROVE  services[r.span.service] <= now
    <3>1. r.span.service = s
      BY <2>3, <2>5
    <3> QED
      BY <1>1, <1>3, <3>1
  <2> QED
    BY <1>2, <2>2, <2>3, <2>4, <2>5, NInvDropped
<1>4. CASE ~(services[s] < now)
  <2>1. /\ services' = services
        /\ opNames' = Only(opNames, {o \in DOMAIN opNames : o[1] = s => opNames[o] > now})
    BY <1>4 DEF GetOperations
  <2>2. /\ \A x \in DOMAIN opNames' : x \in DOMAIN opNames /\ opNames'[x] = opNames[x]
        /\ \A x \in DOMAIN opNames \ DOMAIN opNames' : opNames[x] <= now
    BY <1>1, <2>1 DEF Only
  <2> QED
    BY <1>2, <2>1, <2>2, NInvDropped
<1> QED
  BY <1>3, <1>4

\* What is loaded at a restart: the latest expiry of the live rows of some spans.
LEMMA LatestExpiryIs ==
  ASSUME NInv, NEW spans, NEW r \in rows, r.exp > now, r.span \in spans
  PROVE  LatestExpiry(spans) \in Nat /\ LatestExpiry(spans) >= r.exp
<1> DEFINE exps == {row.exp : row \in {x \in rows : x.exp > now /\ x.span \in spans}}
<1>1. exps \subseteq Nat /\ r.exp \in exps /\ now + TTL \in Nat /\ \A e \in exps : e <= now + TTL
  BY TTLAssumption DEF NInv, NTyped
<1>2. \E e \in exps : \A f \in exps : f <= e
  <2> HIDE DEF exps
  <2> QED
    BY <1>1, GreatestNatural
<1>3. LatestExpiry(spans) = CHOOSE e \in exps : \A f \in exps : f <= e
  BY DEF LatestExpiry
<1> HIDE DEF exps
<1>4. LatestExpiry(spans) \in exps /\ \A f \in exps : f <= LatestExpiry(spans)
  BY <1>2, <1>3
<1> QED
  BY <1>1, <1>4

\* A restart forgets the writers and reads every live row's names back.
LEMMA NInvRestart ==
  ASSUME NInv, Restart
  PROVE  NInv'
<1>1. now' = now /\ rows' = rows /\ updating' = [w \in Writer |-> {}]
  BY DEF Restart
<1> DEFINE ofService(s) == {t \in Live : t.service = s}
           ofOp(o) == {t \in Live : <<t.service, t.op>> = o}
<1>2. /\ services' = [s \in {t.service : t \in Live} |-> LatestExpiry(ofService(s))]
      /\ opNames' = [o \in {<<t.service, t.op>> : t \in Live} |-> LatestExpiry(ofOp(o))]
  BY DEF Restart
<1>3. ASSUME NEW t \in Live PROVE \E r \in rows : r.exp > now /\ r.span = t
  BY DEF Live
<1>4. \A s \in DOMAIN services' : services'[s] \in Nat
  <2> SUFFICES ASSUME NEW s \in DOMAIN services' PROVE services'[s] \in Nat
    OBVIOUS
  <2>1. PICK t \in Live : t.service = s
    BY <1>2
  <2>2. PICK r \in rows : r.exp > now /\ r.span = t
    BY <1>3
  <2>3. r.span \in ofService(s) /\ services'[s] = LatestExpiry(ofService(s))
    BY <1>2, <2>1, <2>2
  <2> HIDE DEF ofService
  <2> QED
    BY <2>2, <2>3, LatestExpiryIs
<1>5. \A o \in DOMAIN opNames' : opNames'[o] \in Nat
  <2> SUFFICES ASSUME NEW o \in DOMAIN opNames' PROVE opNames'[o] \in Nat
    OBVIOUS
  <2>1. PICK t \in Live : <<t.service, t.op>> = o
    BY <1>2
  <2>2. PICK r \in rows : r.exp > now /\ r.span = t
    BY <1>3
  <2>3. r.span \in ofOp(o) /\ opNames'[o] = LatestExpiry(ofOp(o))
    BY <1>2, <2>1, <2>2
  <2> HIDE DEF ofOp
  <2> QED
    BY <2>2, <2>3, LatestExpiryIs
<1>6. NTyped'
  BY <1>1, <1>4, <1>5 DEF NInv, NTyped
<1>7. ASSUME NEW r \in rows, r.exp > now PROVE Named(r)'
  <2> DEFINE s == r.span.service
             o == <<r.span.service, r.span.op>>
  <2>1. r.span \in Live
    BY <1>7 DEF Live
  <2>2. /\ s \in DOMAIN services' /\ services'[s] = LatestExpiry(ofService(s))
        /\ o \in DOMAIN opNames' /\ opNames'[o] = LatestExpiry(ofOp(o))
        /\ r.span \in ofService(s) /\ r.span \in ofOp(o)
    BY <1>2, <2>1
  <2> HIDE DEF ofService, ofOp
  <2>3. services'[s] >= r.exp /\ opNames'[o] >= r.exp
    BY <1>7, <2>2, LatestExpiryIs
  <2> QED
    BY <2>2, <2>3 DEF Named
<1> QED
  BY <1>1, <1>6, <1>7 DEF NInv

\* As time passes rows run out, and no others join.
LEMMA NInvTick ==
  ASSUME NInv, Tick
  PROVE  NInv'
<1>1. now' = now + 1 /\ UNCHANGED <<rows, services, opNames, updating>>
  BY DEF Tick, cache
<1>2. NTyped'
  BY <1>1, TTLAssumption DEF NInv, NTyped
<1>3. \A r \in rows : r.exp > now + 1 => r.exp > now
  BY DEF NInv, NTyped
<1>4. \A r \in rows : (InFlight(r.span) => InFlight(r.span)') /\ (Named(r) => Named(r)')
  BY <1>1 DEF InFlight, Named
<1> QED
  BY <1>1, <1>2, <1>3, <1>4 DEF NInv

\* Every step keeps the invariant.
LEMMA NInvNext == NInv /\ [Next]_vars => NInv'
<1> SUFFICES ASSUME NInv, [Next]_vars PROVE NInv'
  OBVIOUS
<1>1. CASE UNCHANGED vars
  <2>1. UNCHANGED <<now, rows, services, opNames, updating>>
    BY <1>1 DEF vars, cache
  <2> QED
    BY <2>1 DEF NInv, NTyped, InFlight, Named
<1> QED
  BY <1>1, NInvUpdate, NInvTransaction, NInvGetServices, NInvGetOperations, NInvRestart, NInvTick
     DEF Next

\* The inductive invariant: each live row's names are on their way to the cache, or
\* there with an expiry that is not before the row's.
THEOREM NamesInvariant == Spec => []NInv
BY NInvInit, NInvNext, PTL DEF Spec

\* However writers, readers that drop what has run out, failed transactions and
\* restarts interleave, the names of every span that can be found are listed.
THEOREM NamesListed == Spec => []LiveNamesListed
<1>1. NInv => LiveNamesListed
  <2> SUFFICES ASSUME NInv, NEW s \in Live, ~InFlight(s)
               PROVE  /\ s.service \in DOMAIN services /\ services[s.service] > now
                      /\ <<s.service, s.op>> \in DOMAIN opNames /\ opNames[<<s.service, s.op>>] > now
    BY DEF LiveNamesListed
  <2>1. PICK r \in rows : r.exp > now /\ r.span = s
    BY DEF Live
  <2>2. Named(r) /\ r.exp \in Nat /\ now \in Nat
    BY <2>1 DEF NInv, NTyped
  <2>3. services[s.service] \in Nat /\ opNames[<<s.service, s.op>>] \in Nat
    BY <2>1, <2>2 DEF Named, NInv, NTyped
  <2> QED
    BY <2>1, <2>2, <2>3 DEF Named
<1> QED
  BY <1>1, NamesInvariant, PTL

----------------------------------------------------------------------------
(* Lists in order                                                          *)

\* A function on 1 .. n is a sequence.
LEMMA SequenceOf ==
  ASSUME NEW S, NEW n \in Nat, NEW f \in [1 .. n -> S]
  PROVE  f \in Seq(S) /\ Len(f) = n
BY SeqDef, LenProperties

\* There are n numbers below n.
LEMMA FirstNumbers ==
  ASSUME NEW n \in Nat
  PROVE  IsFiniteSet(0 .. n - 1) /\ Cardinality(0 .. n - 1) = n
<1>1. /\ IsFiniteSet(0 .. n - 1)
      /\ Cardinality(0 .. n - 1) = IF 0 > n - 1 THEN 0 ELSE (n - 1) - 0 + 1
  <2>1. 0 \in Int /\ n - 1 \in Int
    OBVIOUS
  <2> QED
    BY <2>1, FS_Interval
<1> QED
  BY <1>1

StrictOrder(S, R) ==
  /\ \A x \in S : <<x, x>> \notin R
  /\ \A x, y, z \in S : <<x, y>> \in R /\ <<y, z>> \in R => <<x, z>> \in R
  /\ \A x, y \in S : x # y => <<x, y>> \in R \/ <<y, x>> \in R

Before(S, R, x) == {y \in S : <<y, x>> \in R}

\* The later of two elements has more before it.
LEMMA BeforeGrows ==
  ASSUME NEW S, IsFiniteSet(S), NEW R, StrictOrder(S, R), NEW x \in S, NEW y \in S, <<x, y>> \in R
  PROVE  Cardinality(Before(S, R, x)) < Cardinality(Before(S, R, y))
<1>1. Before(S, R, x) \subseteq Before(S, R, y) /\ x \in Before(S, R, y) /\ x \notin Before(S, R, x)
  BY DEF StrictOrder, Before
<1>2. IsFiniteSet(Before(S, R, y))
  <2>1. Before(S, R, y) \in SUBSET S
    BY DEF Before
  <2> QED
    BY <2>1, FS_Subset
<1>3. /\ IsFiniteSet(Before(S, R, x)) /\ Cardinality(Before(S, R, x)) <= Cardinality(Before(S, R, y))
      /\ Cardinality(Before(S, R, x)) # Cardinality(Before(S, R, y))
  BY <1>1, <1>2, FS_Subset
<1> QED
  BY <1>2, <1>3, FS_CardinalityType

\* By rank every element has a place of its own, and every place an element.
LEMMA RankOnto ==
  ASSUME NEW S, IsFiniteSet(S), NEW R, StrictOrder(S, R)
  PROVE  /\ Cardinality(S) \in Nat
         /\ \A x \in S : Cardinality(Before(S, R, x)) \in 0 .. Cardinality(S) - 1
         /\ \A k \in 0 .. Cardinality(S) - 1 : \E x \in S : Cardinality(Before(S, R, x)) = k
<1> DEFINE n == Cardinality(S)
           rank == [x \in S |-> Cardinality(Before(S, R, x))]
<1>1. n \in Nat
  BY FS_CardinalityType
<1>2. ASSUME NEW x \in S PROVE Cardinality(Before(S, R, x)) \in 0 .. n - 1
  <2>1. Before(S, R, x) \in SUBSET (S \ {x})
    BY DEF Before, StrictOrder
  <2>2. IsFiniteSet(S \ {x}) /\ Cardinality(S \ {x}) = n - 1
    BY FS_RemoveElement
  <2>3. IsFiniteSet(Before(S, R, x)) /\ Cardinality(Before(S, R, x)) <= n - 1
    BY <2>1, <2>2, FS_Subset
  <2>4. Cardinality(Before(S, R, x)) \in Nat
    BY <2>3, FS_CardinalityType
  <2> QED
    BY <1>1, <2>3, <2>4
<1>3. rank \in [S -> 0 .. n - 1]
  BY <1>2
<1>4. \A x, y \in S : rank[x] = rank[y] => x = y
  <2> SUFFICES ASSUME NEW x \in S, NEW y \in S, x # y PROVE rank[x] # rank[y]
    OBVIOUS
  <2>1. rank[x] < rank[y] \/ rank[y] < rank[x]
    BY BeforeGrows DEF StrictOrder
  <2>2. rank[x] \in 0 .. n - 1 /\ rank[y] \in 0 .. n - 1
    BY <1>3
  <2> QED
    BY <1>1, <2>1, <2>2
<1> HIDE DEF n
<1>5. rank \in Injection(S, 0 .. n - 1)
  BY <1>3, <1>4 DEF Injection, IsInjective
<1>6. IsFiniteSet(0 .. n - 1) /\ Cardinality(0 .. n - 1) = n
  BY <1>1, FirstNumbers
<1> HIDE DEF rank
<1>7. rank \in Surjection(S, 0 .. n - 1)
  BY <1>5, <1>6, FS_Injection DEF n
<1> USE DEF rank
<1>8. \A k \in 0 .. n - 1 : \E x \in S : rank[x] = k
  BY <1>7 DEF Surjection
<1> QED
  BY <1>1, <1>2, <1>8 DEF n

\* A sorted set: its elements, each once, in their order.
LEMMA InOrderIs ==
  ASSUME NEW S, IsFiniteSet(S), NEW R, StrictOrder(S, R)
  PROVE  /\ InOrder(S, R) \in Seq(S) /\ Len(InOrder(S, R)) = Cardinality(S) /\ Cardinality(S) \in Nat
         /\ \A x \in S : \E i \in 1 .. Cardinality(S) :
              InOrder(S, R)[i] = x /\ Cardinality(Before(S, R, x)) = i - 1
<1> DEFINE n == Cardinality(S)
           s == InOrder(S, R)
<1>1. n \in Nat /\ \A x \in S : Cardinality(Before(S, R, x)) \in 0 .. n - 1
  BY RankOnto
<1>2. ASSUME NEW i \in 1 .. n
      PROVE  s[i] \in S /\ Cardinality(Before(S, R, s[i])) = i - 1
  <2>1. i - 1 \in 0 .. n - 1
    BY <1>1
  <2>2. \E x \in S : Cardinality({y \in S : <<y, x>> \in R}) = i - 1
    <3>1. \E x \in S : Cardinality(Before(S, R, x)) = i - 1
      <4> HIDE DEF n
      <4>1. \A k \in 0 .. n - 1 : \E x \in S : Cardinality(Before(S, R, x)) = k
        BY RankOnto DEF n
      <4> QED
        BY <2>1, <4>1
    <3> QED
      BY <3>1 DEF Before
  <2>3. s[i] = CHOOSE x \in S : Cardinality({y \in S : <<y, x>> \in R}) = i - 1
    BY DEF InOrder
  <2> HIDE DEF s
  <2> QED
    BY <2>2, <2>3 DEF Before
<1>3. s = [i \in 1 .. n |-> s[i]]
  <2> DEFINE at(i) == CHOOSE x \in S : Cardinality({y \in S : <<y, x>> \in R}) = i - 1
  <2>1. s = [i \in 1 .. n |-> at(i)]
    BY DEF InOrder
  <2> HIDE DEF at, n, s
  <2> QED
    BY <2>1
<1> HIDE DEF n, s
<1>4. s \in Seq(S) /\ Len(s) = n
  <2>1. s \in [1 .. n -> S]
    BY <1>2, <1>3
  <2> QED
    BY <1>1, <2>1, SequenceOf
<1>5. ASSUME NEW x \in S
      PROVE  \E i \in 1 .. n : s[i] = x /\ Cardinality(Before(S, R, x)) = i - 1
  <2> DEFINE i == Cardinality(Before(S, R, x)) + 1
  <2>1. Cardinality(Before(S, R, x)) \in 0 .. n - 1
    BY <1>1
  <2>2. i \in 1 .. n /\ Cardinality(Before(S, R, x)) = i - 1
    BY <1>1, <2>1
  <2>3. s[i] \in S /\ Cardinality(Before(S, R, s[i])) = i - 1
    BY <1>2, <2>2
  <2>4. s[i] = x
    <3> SUFFICES ASSUME s[i] # x PROVE FALSE
      OBVIOUS
    <3>1. <<s[i], x>> \in R \/ <<x, s[i]>> \in R
      BY <2>3 DEF StrictOrder
    <3>2. Cardinality(Before(S, R, s[i])) < Cardinality(Before(S, R, x))
          \/ Cardinality(Before(S, R, x)) < Cardinality(Before(S, R, s[i]))
      BY <2>3, <3>1, BeforeGrows
    <3> QED
      BY <2>1, <2>2, <2>3, <3>2
  <2> QED
    BY <2>2, <2>4
<1> QED
  BY <1>1, <1>4, <1>5 DEF n, s

\* The elements that are not before one of them.
LEMMA NotBefore ==
  ASSUME NEW S, IsFiniteSet(S), NEW R, NEW x
  PROVE  /\ IsFiniteSet({y \in S : <<y, x>> \notin R})
         /\ Cardinality({y \in S : <<y, x>> \notin R})
              = Cardinality(S) - Cardinality(Before(S, R, x))
<1>1. S \cap Before(S, R, x) = Before(S, R, x) /\ S \ Before(S, R, x) = {y \in S : <<y, x>> \notin R}
  BY DEF Before
<1> QED
  BY <1>1, FS_Difference

----------------------------------------------------------------------------
(* The join                                                                *)

MergeSolves(a, b, l, f) ==
  f = [n \in 0 .. l |-> IF n = 0 THEN [k |-> Len(a), j |-> Len(b), out |-> <<>>]
                        ELSE MergeStep(a, b, f[n - 1])]

\* What holds at 0, and at n + 1 when it holds at n, holds at every number.
LEMMA Induct ==
  ASSUME NEW S, S \subseteq Nat, 0 \in S, \A n \in S : n + 1 \in S
  PROVE  S = Nat
<1> SUFFICES ASSUME Nat \ S # {} PROVE FALSE
  OBVIOUS
<1>1. PICK n \in Nat \ S : \A m \in Nat \ S : n <= m
  BY LeastNatural
<1>2. n # 0 /\ n - 1 \in S
  BY <1>1
<1> QED
  BY <1>1, <1>2

\* The recursion of the join's rounds has a solution of every length.
LEMMA MergeExists ==
  ASSUME NEW a, NEW b
  PROVE  \A l \in Nat : \E f : MergeSolves(a, b, l, f)
<1> DEFINE S == {l \in Nat : \E f : MergeSolves(a, b, l, f)}
           start == [k |-> Len(a), j |-> Len(b), out |-> <<>>]
<1>1. 0 \in S
  <2>1. MergeSolves(a, b, 0, [n \in 0 .. 0 |-> start])
    BY DEF MergeSolves
  <2> QED
    BY <2>1
<1>2. ASSUME NEW l \in S PROVE l + 1 \in S
  <2>1. PICK f : MergeSolves(a, b, l, f)
    OBVIOUS
  <2> DEFINE g == [n \in 0 .. l + 1 |-> IF n = l + 1 THEN MergeStep(a, b, f[l]) ELSE f[n]]
  <2> HIDE DEF start
  <2>2. ASSUME NEW n \in 0 .. l + 1
        PROVE  g[n] = IF n = 0 THEN start ELSE MergeStep(a, b, g[n - 1])
    <3>1. CASE n = l + 1
      BY <3>1
    <3>2. CASE n # l + 1
      <4>1. n \in 0 .. l /\ g[n] = f[n] /\ (n # 0 => g[n - 1] = f[n - 1])
        BY <3>2
      <4> QED
        BY <2>1, <4>1 DEF MergeSolves, start
    <3> QED
      BY <3>1, <3>2
  <2>3. MergeSolves(a, b, l + 1, g)
    BY <2>2 DEF MergeSolves, start
  <2> QED
    BY <2>3
<1>3. S = Nat
  <2> HIDE DEF S
  <2>1. S \subseteq Nat
    BY DEF S
  <2> QED
    BY <1>1, <1>2, <2>1, Induct
<1> QED
  BY <1>3

\* The rounds of the loop by number.
LEMMA Rounds ==
  ASSUME NEW a \in Seq(Nat), NEW b \in Seq(Nat)
  PROVE  /\ Merging(a, b)[0] = [k |-> Len(a), j |-> Len(b), out |-> <<>>]
         /\ \A n \in 0 .. Len(a) + Len(b) - 1 : Merging(a, b)[n + 1] = MergeStep(a, b, Merging(a, b)[n])
<1> DEFINE l == Len(a) + Len(b)
           start == [k |-> Len(a), j |-> Len(b), out |-> <<>>]
<1>1. l \in Nat
  OBVIOUS
<1>2. \E f : MergeSolves(a, b, l, f)
  BY <1>1, MergeExists
<1>3. Merging(a, b) = CHOOSE f : MergeSolves(a, b, l, f)
  BY DEF Merging, MergeSolves
<1>4. MergeSolves(a, b, l, Merging(a, b))
  BY <1>2, <1>3
<1> HIDE DEF start, l
<1>5. \A n \in 0 .. l : Merging(a, b)[n] = IF n = 0 THEN start ELSE MergeStep(a, b, Merging(a, b)[n - 1])
  BY <1>4 DEF MergeSolves, start
<1>6. Merging(a, b)[0] = start
  BY <1>1, <1>5
<1>7. ASSUME NEW n \in 0 .. l - 1 PROVE Merging(a, b)[n + 1] = MergeStep(a, b, Merging(a, b)[n])
  <2>1. n + 1 \in 0 .. l /\ n + 1 # 0 /\ (n + 1) - 1 = n
    BY <1>1
  <2> QED
    BY <1>5, <2>1
<1> QED
  BY <1>6, <1>7 DEF start, l

Has(list, x) == \E i \in DOMAIN list : list[i] = x

\* The loop's invariant: a common element has been found or is still to come, and
\* each round has taken something.
Sought(a, b, k, j, out) ==
  \A p \in 1 .. Len(a) : \A r \in 1 .. Len(b) :
    a[p] = b[r] => Has(out, a[p]) \/ (p <= k /\ r <= j)

Paced(a, b, n, k, j) ==
  /\ k \in 0 .. Len(a) /\ j \in 0 .. Len(b)
  /\ k = 0 \/ j = 0 \/ k + j <= Len(a) + Len(b) - n

MergeInv(a, b, n, m) ==
  /\ m = [k |-> m.k, j |-> m.j, out |-> m.out]
  /\ m.out \in Seq(Nat)
  /\ Paced(a, b, n, m.k, m.j)
  /\ Sought(a, b, m.k, m.j, m.out)

\* Appending adds one element and loses none.
LEMMA HasAppend ==
  ASSUME NEW s \in Seq(Nat), NEW e \in Nat
  PROVE  /\ Append(s, e) \in Seq(Nat) /\ Has(Append(s, e), e)
         /\ \A x : Has(s, x) => Has(Append(s, e), x)
<1>1. /\ Append(s, e) \in Seq(Nat) /\ Len(Append(s, e)) = Len(s) + 1
      /\ \A i \in 1 .. Len(s) : Append(s, e)[i] = s[i]
      /\ Append(s, e)[Len(s) + 1] = e
  BY AppendProperties
<1>2. DOMAIN s = 1 .. Len(s) /\ DOMAIN Append(s, e) = 1 .. Len(s) + 1 /\ Len(s) \in Nat
  BY <1>1
<1> HIDE DEF Has
<1>3. Has(Append(s, e), e)
  BY <1>1, <1>2 DEF Has
<1>4. ASSUME NEW x, Has(s, x) PROVE Has(Append(s, e), x)
  <2>1. PICK i \in 1 .. Len(s) : s[i] = x
    BY <1>2, <1>4 DEF Has
  <2>2. i \in 1 .. Len(s) + 1 /\ Append(s, e)[i] = x
    BY <1>1, <1>2, <2>1
  <2> QED
    BY <1>2, <2>2 DEF Has
<1> QED
  BY <1>1, <1>3, <1>4

\* In an ascending list what does not come later is not greater.
LEMMA NotAfter ==
  ASSUME NEW s \in Seq(Nat), Ascending(s), NEW p \in 1 .. Len(s), NEW r \in 1 .. Len(s), p <= r
  PROVE  s[p] <= s[r]
<1>1. DOMAIN s = 1 .. Len(s) /\ s[p] \in Nat /\ s[r] \in Nat
  OBVIOUS
<1>2. CASE p = r
  BY <1>1, <1>2
<1>3. CASE p < r
  BY <1>1, <1>3 DEF Ascending
<1> QED
  BY <1>2, <1>3

\* A round's record with one position changed.
LEMMA Rounded ==
  ASSUME NEW m, NEW k, NEW j, NEW out, NEW x, m = [k |-> k, j |-> j, out |-> out]
  PROVE  /\ [m EXCEPT !.k = x] = [k |-> x, j |-> j, out |-> out]
         /\ [m EXCEPT !.j = x] = [k |-> k, j |-> x, out |-> out]
<1>1. [m EXCEPT !.k = x] = [k |-> x, j |-> j, out |-> out]
  OBVIOUS
<1>2. [m EXCEPT !.j = x] = [k |-> k, j |-> x, out |-> out]
  OBVIOUS
<1> QED
  BY <1>1, <1>2

\* A round's new state, by its parts.
LEMMA MergeInvOf ==
  ASSUME NEW a, NEW b, NEW n, NEW m, NEW k, NEW j, NEW out \in Seq(Nat),
         m = [k |-> k, j |-> j, out |-> out],
         Paced(a, b, n, k, j), Sought(a, b, k, j, out)
  PROVE  MergeInv(a, b, n, m)
<1>1. m.k = k /\ m.j = j /\ m.out = out
  OBVIOUS
<1> QED
  BY <1>1 DEF MergeInv

\* A round keeps the loop's invariant: the position given up holds no element that
\* the other list still has to offer.
LEMMA MergeStepKeeps ==
  ASSUME NEW a \in Seq(Nat), NEW b \in Seq(Nat), Ascending(a), Ascending(b),
         NEW n \in Nat, NEW m, MergeInv(a, b, n, m)
  PROVE  MergeInv(a, b, n + 1, MergeStep(a, b, m))
<1> DEFINE K == m.k
           J == m.j
           O == m.out
           M == MergeStep(a, b, m)
<1>1. /\ Len(a) \in Nat /\ Len(b) \in Nat
      /\ \A p \in 1 .. Len(a) : a[p] \in Nat
      /\ \A r \in 1 .. Len(b) : b[r] \in Nat
  OBVIOUS
<1>2. /\ m = [k |-> K, j |-> J, out |-> O]
      /\ O \in Seq(Nat) /\ Paced(a, b, n, K, J) /\ Sought(a, b, K, J, O)
  BY DEF MergeInv
<1>3. K \in 0 .. Len(a) /\ J \in 0 .. Len(b) /\ (K = 0 \/ J = 0 \/ K + J <= Len(a) + Len(b) - n)
  BY <1>2 DEF Paced
<1>4. CASE K = 0 \/ J = 0
  <2>1. M = m
    BY <1>4 DEF MergeStep
  <2>2. Paced(a, b, n + 1, K, J)
    BY <1>3, <1>4 DEF Paced
  <2> HIDE DEF K, J, O, M
  <2> QED
    BY <1>2, <2>1, <2>2, MergeInvOf DEF M
<1>5. ASSUME K # 0, J # 0
      PROVE  /\ K \in 1 .. Len(a) /\ J \in 1 .. Len(b) /\ a[K] \in Nat /\ b[J] \in Nat
             /\ Paced(a, b, n + 1, K - 1, J) /\ Paced(a, b, n + 1, K, J - 1)
  <2> HIDE DEF K, J, O, M
  <2>1. K \in 1 .. Len(a) /\ J \in 1 .. Len(b)
    BY <1>1, <1>3, <1>5
  <2>2. a[K] \in Nat /\ b[J] \in Nat
    BY <1>1, <2>1
  <2>3. K - 1 \in 0 .. Len(a) /\ K \in 0 .. Len(a) /\ J - 1 \in 0 .. Len(b) /\ J \in 0 .. Len(b)
    BY <1>1, <2>1
  <2>4. /\ (K - 1) + J <= Len(a) + Len(b) - (n + 1)
        /\ K + (J - 1) <= Len(a) + Len(b) - (n + 1)
    BY <1>1, <1>3, <1>5
  <2> QED
    BY <2>1, <2>2, <2>3, <2>4 DEF Paced
<1>6. CASE K # 0 /\ J # 0 /\ a[K] > b[J]
  <2>0. K > 0 /\ J > 0 /\ ~(K = 0 \/ J = 0)
    BY <1>3, <1>6
  <2>3. ~(a[K] < b[J])
    <3>1. a[K] \in Nat /\ b[J] \in Nat /\ a[K] > b[J]
      BY <1>5, <1>6
    <3> HIDE DEF K, J
    <3> QED
      BY <3>1
  <2>1. M = [m EXCEPT !.k = K - 1]
    BY <1>6, <2>0, <2>3 DEF MergeStep
  <2> HIDE DEF K, J, O, M
  <2>2. M = [k |-> K - 1, j |-> J, out |-> O]
    BY <1>2, <2>1, Rounded
  <2>4. Sought(a, b, K - 1, J, O)
    <3>1. ASSUME NEW p \in 1 .. Len(a), NEW r \in 1 .. Len(b), a[p] = b[r], ~Has(O, a[p])
          PROVE  p <= K - 1 /\ r <= J
      <4>1. p <= K /\ r <= J
        BY <1>2, <3>1 DEF Sought
      <4>2. b[r] <= b[J]
        BY <1>5, <1>6, <4>1, NotAfter
      <4>3. a[K] \in Nat /\ b[J] \in Nat /\ b[r] \in Nat
        BY <1>1, <1>5, <1>6
      <4>4. p # K
        BY <1>6, <3>1, <4>2, <4>3
      <4> QED
        BY <1>5, <1>6, <4>1, <4>4
    <3> QED
      BY <3>1 DEF Sought
  <2> QED
    BY <1>2, <1>5, <1>6, <2>2, <2>4, MergeInvOf DEF M
<1>7. CASE K # 0 /\ J # 0 /\ ~(a[K] > b[J]) /\ a[K] < b[J]
  <2>0. K > 0 /\ J > 0 /\ ~(K = 0 \/ J = 0)
    BY <1>3, <1>7
  <2>1. M = [m EXCEPT !.j = J - 1]
    BY <1>7, <2>0 DEF MergeStep
  <2> HIDE DEF K, J, O, M
  <2>2. M = [k |-> K, j |-> J - 1, out |-> O]
    BY <1>2, <2>1, Rounded
  <2>3. Sought(a, b, K, J - 1, O)
    <3>1. ASSUME NEW p \in 1 .. Len(a), NEW r \in 1 .. Len(b), a[p] = b[r], ~Has(O, a[p])
          PROVE  p <= K /\ r <= J - 1
      <4>1. p <= K /\ r <= J
        BY <1>2, <3>1 DEF Sought
      <4>2. a[p] <= a[K]
        BY <1>5, <1>7, <4>1, NotAfter
      <4>3. a[K] \in Nat /\ b[J] \in Nat /\ a[p] \in Nat
        BY <1>1, <1>5, <1>7
      <4>4. r # J
        BY <1>7, <3>1, <4>2, <4>3
      <4> QED
        BY <1>5, <1>7, <4>1, <4>4
    <3> QED
      BY <3>1 DEF Sought
  <2> QED
    BY <1>2, <1>5, <1>7, <2>2, <2>3, MergeInvOf DEF M
<1>8. CASE K # 0 /\ J # 0 /\ ~(a[K] > b[J]) /\ ~(a[K] < b[J])
  <2>0. ~(K = 0 \/ J = 0)
    BY <1>8
  <2>2. M = [k |-> K - 1, j |-> J, out |-> Append(O, a[K])]
    BY <1>8, <2>0 DEF MergeStep
  <2> HIDE DEF K, J, O, M
  <2>3. /\ Append(O, a[K]) \in Seq(Nat) /\ Has(Append(O, a[K]), a[K])
        /\ \A x : Has(O, x) => Has(Append(O, a[K]), x)
    BY <1>2, <1>5, <1>8, HasAppend
  <2>4. Sought(a, b, K - 1, J, Append(O, a[K]))
    <3>1. ASSUME NEW p \in 1 .. Len(a), NEW r \in 1 .. Len(b), a[p] = b[r],
                 ~Has(Append(O, a[K]), a[p])
          PROVE  p <= K - 1 /\ r <= J
      <4>1. p <= K /\ r <= J
        BY <1>2, <2>3, <3>1 DEF Sought
      <4>2. p # K
        BY <2>3, <3>1
      <4> QED
        BY <1>5, <1>8, <4>1, <4>2
    <3> QED
      BY <3>1 DEF Sought
  <2> QED
    BY <1>5, <1>8, <2>2, <2>3, <2>4, MergeInvOf DEF M
<1> QED
  BY <1>4, <1>6, <1>7, <1>8

\* Of two ascending lists the join has every common element.
LEMMA MergeJoinFinds ==
  ASSUME NEW a \in Seq(Nat), NEW b \in Seq(Nat), Ascending(a), Ascending(b)
  PROVE  /\ MergeJoin(a, b) \in Seq(Nat)
         /\ \A x : Has(a, x) /\ Has(b, x) => Has(MergeJoin(a, b), x)
<1> DEFINE l == Len(a) + Len(b)
           m(n) == Merging(a, b)[n]
           Good(n) == MergeInv(a, b, n, m(n))
           S == {n \in Nat : n <= l => Good(n)}
<1>1. l \in Nat /\ Len(a) \in Nat /\ Len(b) \in Nat /\ DOMAIN a = 1 .. Len(a) /\ DOMAIN b = 1 .. Len(b)
  OBVIOUS
<1>2. Good(0)
  <2>1. m(0) = [k |-> Len(a), j |-> Len(b), out |-> <<>>]
    BY Rounds
  <2> HIDE DEF m
  <2>2. <<>> \in Seq(Nat)
    OBVIOUS
  <2>3. Paced(a, b, 0, Len(a), Len(b))
    BY <1>1 DEF Paced
  <2>4. Sought(a, b, Len(a), Len(b), <<>>)
    BY <1>1 DEF Sought
  <2> QED
    BY <2>1, <2>2, <2>3, <2>4, MergeInvOf
<1>3. ASSUME NEW n \in Nat, n + 1 <= l, Good(n) PROVE Good(n + 1)
  <2>1. n \in 0 .. Len(a) + Len(b) - 1
    BY <1>1, <1>3
  <2>2. m(n + 1) = MergeStep(a, b, m(n))
    BY <2>1, Rounds
  <2> HIDE DEF m
  <2> QED
    BY <1>3, <2>2, MergeStepKeeps
<1> HIDE DEF Good
<1>4. 0 \in S /\ \A n \in S : n + 1 \in S
  <2>1. 0 \in S
    BY <1>2
  <2>2. ASSUME NEW n \in S PROVE n + 1 \in S
    <3>1. n \in Nat /\ (n <= l => Good(n))
      OBVIOUS
    <3> HIDE DEF l
    <3>2. CASE n + 1 <= l
      <4>1. n <= l
        BY <1>1, <3>1, <3>2
      <4> QED
        BY <1>3, <3>1, <3>2, <4>1
    <3>3. CASE ~(n + 1 <= l)
      BY <3>1, <3>3
    <3> QED
      BY <3>2, <3>3
  <2> QED
    BY <2>1, <2>2
<1>5. S = Nat
  <2> HIDE DEF S
  <2>1. S \subseteq Nat
    BY DEF S
  <2> QED
    BY <1>4, <2>1, Induct
<1>6. Good(l)
  <2>1. l \in S
    BY <1>1, <1>5
  <2> HIDE DEF l
  <2> QED
    BY <1>1, <2>1
<1>7. MergeInv(a, b, l, m(l)) /\ MergeJoin(a, b) = m(l).out
  BY <1>6 DEF Good, MergeJoin
<1> HIDE DEF m
<1> DEFINE K == m(l).k
           J == m(l).j
           O == m(l).out
<1>8. O \in Seq(Nat) /\ Paced(a, b, l, K, J) /\ Sought(a, b, K, J, O) /\ MergeJoin(a, b) = O
  BY <1>7 DEF MergeInv
<1> HIDE DEF K, J, O
<1>9. K = 0 \/ J = 0
  <2>1. K \in 0 .. Len(a) /\ J \in 0 .. Len(b) /\ (K = 0 \/ J = 0 \/ K + J <= Len(a) + Len(b) - l)
    BY <1>8 DEF Paced
  <2> QED
    BY <1>1, <2>1
<1>10. ASSUME NEW x, Has(a, x), Has(b, x) PROVE Has(O, x)
  <2>1. PICK p \in 1 .. Len(a) : a[p] = x
    BY <1>1, <1>10 DEF Has
  <2>2. PICK r \in 1 .. Len(b) : b[r] = x
    BY <1>1, <1>10 DEF Has
  <2>3. Has(O, a[p]) \/ (p <= K /\ r <= J)
    BY <1>8, <2>1, <2>2 DEF Sought
  <2>4. ~(p <= K /\ r <= J)
    BY <1>9
  <2> QED
    BY <2>1, <2>3, <2>4
<1> QED
  BY <1>8, <1>10

----------------------------------------------------------------------------
(* The stored spans                                                        *)

RTyped == IsFiniteSet(rows) /\ \A r \in rows : r.span \in Span

\* The store holds finitely many spans, each of them written.
THEOREM RowsTyped == Spec => []RTyped
<1>1. Init => RTyped
  BY FS_EmptySet DEF Init, RTyped
<1>2. RTyped /\ [Next]_vars => RTyped'
  <2> SUFFICES ASSUME RTyped, [Next]_vars PROVE RTyped'
    OBVIOUS
  <2>1. ASSUME NEW w \in Writer, NEW s \in Span, Transaction(w, s) PROVE RTyped'
    <3> DEFINE kept == {row \in rows : Key(row.span) # Key(s)}
               new == [span |-> s, exp |-> now + TTL]
    <3>1. rows' = rows \/ rows' = kept \cup {new}
      BY <2>1 DEF Transaction
    <3>2. kept \in SUBSET rows
      OBVIOUS
    <3>3. new.span \in Span
      OBVIOUS
    <3> HIDE DEF kept, new
    <3>4. IsFiniteSet(kept)
      BY <3>2, FS_Subset DEF RTyped
    <3>5. IsFiniteSet(kept \cup {new})
      BY <3>4, FS_AddElement
    <3> QED
      BY <3>1, <3>2, <3>3, <3>5 DEF RTyped
  <2>2. ASSUME UNCHANGED rows PROVE RTyped'
    BY <2>2 DEF RTyped
  <2>3. (\E w \in Writer : \E s \in Span : Transaction(w, s)) \/ UNCHANGED rows
    BY DEF Next, Update, GetServices, GetOperations, Restart, Tick, vars
  <2> QED
    BY <2>1, <2>2, <2>3
<1> QED
  BY <1>1, <1>2, PTL DEF Spec

\* The images of a finite set's elements are finite, and no more than they.
LEMMA Images ==
  ASSUME NEW S, IsFiniteSet(S), NEW f, DOMAIN f = S, f = [x \in S |-> f[x]]
  PROVE  /\ IsFiniteSet({f[x] : x \in S}) /\ Cardinality({f[x] : x \in S}) \in Nat
         /\ Cardinality({f[x] : x \in S}) <= Cardinality(S)
<1> DEFINE T == {f[x] : x \in S}
<1>1. f \in Surjection(S, T)
  BY DEF Surjection
<1> HIDE DEF T
<1>2. IsFiniteSet(T) /\ Cardinality(T) <= Cardinality(S)
  BY <1>1, FS_Surjection
<1>3. Cardinality(T) \in Nat
  BY <1>2, FS_CardinalityType
<1> QED
  BY <1>2, <1>3 DEF T

\* A set's subset is finite and no larger.
LEMMA Parts ==
  ASSUME NEW S, IsFiniteSet(S), NEW T, T \subseteq S
  PROVE  /\ IsFiniteSet(T) /\ Cardinality(T) \in Nat /\ Cardinality(S) \in Nat
         /\ Cardinality(T) <= Cardinality(S)
<1>1. T \in SUBSET S
  OBVIOUS
<1>2. IsFiniteSet(T) /\ Cardinality(T) <= Cardinality(S)
  BY <1>1, FS_Subset
<1> QED
  BY <1>2, FS_CardinalityType

\* The spans that can be found are finitely many, with numbers for their times.
LEMMA LiveTyped ==
  ASSUME RTyped
  PROVE  /\ IsFiniteSet(Live) /\ Live \subseteq Span
         /\ \A s \in Live : s.trace \in Nat /\ s.start \in Nat /\ s.dur \in Nat
<1> DEFINE L == {row \in rows : row.exp > now}
           f == [r \in L |-> r.span]
<1>1. IsFiniteSet(L)
  <2>1. L \subseteq rows
    OBVIOUS
  <2> HIDE DEF L
  <2> QED
    BY <2>1, Parts DEF RTyped
<1>2. Live = {f[r] : r \in L}
  BY DEF Live
<1>3. IsFiniteSet(Live)
  <2>1. DOMAIN f = L /\ f = [x \in L |-> f[x]]
    OBVIOUS
  <2> HIDE DEF L, f
  <2> QED
    BY <1>1, <1>2, <2>1, Images
<1>4. Live \subseteq Span
  BY DEF Live, RTyped
<1> QED
  BY <1>3, <1>4, SpanAssumption

----------------------------------------------------------------------------
(* The scans                                                               *)

\* The keys of an index are put in one order by time and trace, trace ids by size.
LEMMA KeysOrdered ==
  ASSUME NEW keys, keys \subseteq Nat \X Nat
  PROVE  StrictOrder(keys, ByTimeThenTrace(keys))
<1> DEFINE R == ByTimeThenTrace(keys)
<1>1. \A a, b \in keys : <<a, b>> \in R <=> a[1] < b[1] \/ (a[1] = b[1] /\ a[2] < b[2])
  BY DEF ByTimeThenTrace
<1>2. \A a \in keys : a[1] \in Nat /\ a[2] \in Nat /\ a = <<a[1], a[2]>>
  OBVIOUS
<1> HIDE DEF R
<1>3. \A a \in keys : <<a, a>> \notin R
  BY <1>1, <1>2
<1>4. ASSUME NEW a \in keys, NEW b \in keys, NEW c \in keys, <<a, b>> \in R, <<b, c>> \in R
      PROVE  <<a, c>> \in R
  <2>1. /\ a[1] < b[1] \/ (a[1] = b[1] /\ a[2] < b[2])
        /\ b[1] < c[1] \/ (b[1] = c[1] /\ b[2] < c[2])
    BY <1>1, <1>4
  <2>2. a[1] < c[1] \/ (a[1] = c[1] /\ a[2] < c[2])
    BY <1>2, <2>1
  <2> QED
    BY <1>1, <2>2
<1>5. ASSUME NEW a \in keys, NEW b \in keys, a # b
      PROVE  <<a, b>> \in R \/ <<b, a>> \in R
  <2>1. a[1] # b[1] \/ a[2] # b[2]
    BY <1>2, <1>5
  <2>2. \/ a[1] < b[1] \/ (a[1] = b[1] /\ a[2] < b[2])
        \/ b[1] < a[1] \/ (b[1] = a[1] /\ b[2] < a[2])
    BY <1>2, <2>1
  <2> QED
    BY <1>1, <2>2
<1> QED
  BY <1>3, <1>4, <1>5 DEF StrictOrder, R

\* Trace ids are in order by their size.
LEMMA IdsOrdered ==
  ASSUME NEW ids, ids \subseteq Nat
  PROVE  StrictOrder(ids, ByTrace(ids))
<1> DEFINE R == ByTrace(ids)
<1>1. \A a, b \in ids : <<a, b>> \in R <=> a < b
  BY DEF ByTrace
<1> HIDE DEF R
<1>2. \A a \in ids : <<a, a>> \notin R
  BY <1>1
<1>3. \A a, b, c \in ids : <<a, b>> \in R /\ <<b, c>> \in R => <<a, c>> \in R
  BY <1>1
<1>4. \A a, b \in ids : a # b => <<a, b>> \in R \/ <<b, a>> \in R
  BY <1>1
<1> QED
  BY <1>2, <1>3, <1>4 DEF StrictOrder, R

\* The spans within the search's range that began no earlier than s.
NoEarlier(spans, q, s) == {t \in spans : InRange(t, q) /\ t.start >= s.start}

\* An index scan has the trace of every span within the range; what comes after it
\* in the scan are spans that began no earlier.
LEMMA ScanFinds ==
  ASSUME NEW spans, IsFiniteSet(spans), \A t \in spans : t.trace \in Nat /\ t.start \in Nat,
         NEW q
  PROVE  /\ ScanIndexKeys(spans, q) \in Seq(Nat)
         /\ \A s \in spans : InRange(s, q) =>
              \E i \in 1 .. Len(ScanIndexKeys(spans, q)) :
                /\ ScanIndexKeys(spans, q)[i] = s.trace
                /\ Len(ScanIndexKeys(spans, q)) - i + 1
                     <= Cardinality(NoEarlier(spans, q, s))
<1> DEFINE within == {t \in spans : InRange(t, q)}
           keys == {<<s.start, s.trace>> : s \in within}
           R == ByTimeThenTrace(keys)
           scan == InOrder(keys, R)
           list == ScanIndexKeys(spans, q)
           n == Cardinality(keys)
<1>1. list = [i \in DOMAIN scan |-> scan[i][2]]
  BY DEF ScanIndexKeys
<1>2. within \subseteq spans /\ IsFiniteSet(within)
  <2>1. within \subseteq spans
    OBVIOUS
  <2> HIDE DEF within
  <2> QED
    BY <2>1, Parts
<1>3. keys \subseteq Nat \X Nat
  OBVIOUS
<1>4. IsFiniteSet(keys)
  <2> DEFINE f == [t \in within |-> <<t.start, t.trace>>]
  <2>1. DOMAIN f = within /\ f = [t \in within |-> f[t]] /\ keys = {f[t] : t \in within}
    OBVIOUS
  <2> HIDE DEF f, within, keys
  <2> QED
    BY <1>2, <2>1, Images
<1>5. StrictOrder(keys, R)
  BY <1>3, KeysOrdered
<1>6. /\ scan \in Seq(keys) /\ Len(scan) = n /\ n \in Nat
      /\ \A x \in keys : \E i \in 1 .. n : scan[i] = x /\ Cardinality(Before(keys, R, x)) = i - 1
  <2> HIDE DEF keys, R
  <2> QED
    BY <1>4, <1>5, InOrderIs
<1>7. DOMAIN scan = 1 .. n /\ \A i \in 1 .. n : scan[i] \in keys
  <2> HIDE DEF keys, scan, n
  <2>1. scan \in [1 .. n -> keys]
    BY <1>6, LenProperties
  <2> QED
    BY <2>1
<1>8. list \in Seq(Nat) /\ Len(list) = n /\ \A i \in 1 .. n : list[i] = scan[i][2]
  <2> HIDE DEF keys, scan, n, list
  <2>1. \A i \in 1 .. n : list[i] = scan[i][2] /\ scan[i][2] \in Nat
    BY <1>1, <1>3, <1>7
  <2>2. list \in [1 .. n -> Nat]
    BY <1>1, <1>7, <2>1
  <2> QED
    BY <1>6, <2>1, <2>2, SequenceOf
<1>9. ASSUME NEW s \in spans, InRange(s, q)
      PROVE  \E i \in 1 .. n :
               /\ list[i] = s.trace
               /\ n - i + 1 <= Cardinality(NoEarlier(spans, q, s))
  <2> DEFINE key == <<s.start, s.trace>>
             late == {t \in spans : InRange(t, q) /\ t.start >= s.start}
             lateKeys == {<<t.start, t.trace>> : t \in late}
             rest == {y \in keys : <<y, key>> \notin R}
  <2>1. key \in keys
    BY <1>9
  <2>2. rest \subseteq lateKeys
    <3> SUFFICES ASSUME NEW t \in within, <<<<t.start, t.trace>>, key>> \notin R
                 PROVE  t.start >= s.start
      OBVIOUS
    <3>1. <<t.start, t.trace>> \in keys
      OBVIOUS
    <3>2. ~(t.start < s.start)
      BY <2>1, <3>1 DEF ByTimeThenTrace
    <3> QED
      BY <3>2
  <2>3. IsFiniteSet(late)
    <3>1. late \subseteq spans
      OBVIOUS
    <3> HIDE DEF late
    <3> QED
      BY <3>1, Parts
  <2>4. IsFiniteSet(lateKeys) /\ Cardinality(lateKeys) \in Nat /\ Cardinality(lateKeys) <= Cardinality(late)
    <3> DEFINE f == [t \in late |-> <<t.start, t.trace>>]
    <3>1. DOMAIN f = late /\ f = [t \in late |-> f[t]] /\ lateKeys = {f[t] : t \in late}
      OBVIOUS
    <3> HIDE DEF f, late, lateKeys
    <3> QED
      BY <2>3, <3>1, Images
  <2>5. PICK i \in 1 .. n : scan[i] = key /\ Cardinality(Before(keys, R, key)) = i - 1
    <3> HIDE DEF keys, R, n, scan, key
    <3> QED
      BY <1>6, <2>1
  <2>6. Cardinality(rest) = n - (i - 1)
    <3> HIDE DEF keys, R, key
    <3> QED
      BY <1>4, <2>5, NotBefore
  <2>7. Cardinality(rest) <= Cardinality(lateKeys)
    <3> HIDE DEF rest, lateKeys
    <3> QED
      BY <2>2, <2>4, Parts
  <2>8. Cardinality(late) \in Nat
    BY <2>3, FS_CardinalityType
  <2>9. list[i] = s.trace
    <3>1. key[2] = s.trace
      OBVIOUS
    <3> HIDE DEF keys, n, scan, list, key
    <3>2. list[i] = key[2]
      BY <1>8, <2>5
    <3> QED
      BY <3>1, <3>2
  <2> HIDE DEF n, list, late, lateKeys, rest
  <2>10. n - i + 1 <= Cardinality(late)
    BY <1>6, <2>4, <2>6, <2>7, <2>8
  <2> QED
    BY <2>9, <2>10 DEF late, NoEarlier
<1> QED
  <2> HIDE DEF n, list
  <2>1. ASSUME NEW s \in spans, InRange(s, q)
        PROVE  \E i \in 1 .. Len(list) :
                 /\ list[i] = s.trace
                 /\ Len(list) - i + 1 <= Cardinality(NoEarlier(spans, q, s))
    BY <1>8, <1>9, <2>1
  <2> QED
    BY <1>8, <2>1 DEF list

\* The duration scan has the trace of every span of the duration; what comes after
\* it are the greater trace ids.
LEMMA DurationScanFinds ==
  ASSUME RTyped, NEW q
  PROVE  /\ DurationScan(q) \in Seq(Nat)
         /\ \A s \in OfDuration(q) :
              \E i \in 1 .. Len(DurationScan(q)) :
                /\ DurationScan(q)[i] = s.trace
                /\ Len(DurationScan(q)) - i + 1
                     <= Cardinality({j \in {t.trace : t \in OfDuration(q)} : j >= s.trace})
<1> DEFINE spans == OfDuration(q)
           ids == {s.trace : s \in spans}
           R == ByTrace(ids)
           list == DurationScan(q)
           n == Cardinality(ids)
<1>1. spans \subseteq Live
  BY DEF OfDuration
<1>2. IsFiniteSet(spans) /\ \A s \in spans : s.trace \in Nat
  <2> HIDE DEF spans
  <2> QED
    BY <1>1, LiveTyped, Parts
<1>3. IsFiniteSet(ids) /\ ids \subseteq Nat
  <2> DEFINE f == [t \in spans |-> t.trace]
  <2>1. DOMAIN f = spans /\ f = [t \in spans |-> f[t]] /\ ids = {f[t] : t \in spans}
    OBVIOUS
  <2>2. ids \subseteq Nat
    BY <1>2
  <2> HIDE DEF f, ids, spans
  <2> QED
    BY <1>2, <2>1, <2>2, Images
<1>4. list = InOrder(ids, R)
  BY DEF DurationScan
<1> HIDE DEF spans
<1>5. /\ list \in Seq(ids) /\ Len(list) = n /\ n \in Nat
      /\ \A x \in ids : \E i \in 1 .. n : list[i] = x /\ Cardinality(Before(ids, R, x)) = i - 1
  <2>1. StrictOrder(ids, R)
    BY <1>3, IdsOrdered
  <2> HIDE DEF ids, R, list
  <2> QED
    BY <1>3, <1>4, <2>1, InOrderIs
<1>6. list \in Seq(Nat)
  <2> HIDE DEF ids, n, list
  <2>1. list \in [1 .. n -> ids]
    BY <1>5, LenProperties
  <2>2. list \in [1 .. n -> Nat]
    BY <1>3, <2>1
  <2> QED
    BY <1>5, <2>2, SequenceOf
<1>7. ASSUME NEW s \in spans
      PROVE  \E i \in 1 .. n :
               list[i] = s.trace /\ n - i + 1 <= Cardinality({j \in ids : j >= s.trace})
  <2> DEFINE x == s.trace
             late == {j \in ids : j >= x}
             rest == {j \in ids : <<j, x>> \notin R}
  <2>1. x \in ids
    OBVIOUS
  <2>2. rest \subseteq late
    <3> SUFFICES ASSUME NEW j \in ids, <<j, x>> \notin R PROVE j >= x
      OBVIOUS
    <3> HIDE DEF x, ids
    <3>1. ~(j < x)
      BY <2>1 DEF ByTrace
    <3> QED
      BY <1>3, <2>1, <3>1
  <2>3. IsFiniteSet(late) /\ Cardinality(late) \in Nat
    <3>1. late \subseteq ids
      OBVIOUS
    <3> HIDE DEF late, ids
    <3> QED
      BY <1>3, <3>1, Parts
  <2>4. Cardinality(rest) \in Nat /\ Cardinality(rest) <= Cardinality(late)
    <3> HIDE DEF rest, late
    <3> QED
      BY <2>2, <2>3, Parts
  <2>5. PICK i \in 1 .. n : list[i] = x /\ Cardinality(Before(ids, R, x)) = i - 1
    <3> HIDE DEF ids, R, n, list, x
    <3> QED
      BY <1>5, <2>1
  <2>6. Cardinality(rest) = n - (i - 1)
    <3> HIDE DEF ids, R, x
    <3> QED
      BY <1>3, <2>5, NotBefore
  <2> HIDE DEF n, list, late, rest
  <2>7. n - i + 1 <= Cardinality(late)
    BY <1>5, <2>3, <2>4, <2>6
  <2> QED
    BY <2>5, <2>7 DEF late
<1> QED
  <2> HIDE DEF n, list
  <2>1. ASSUME NEW s \in OfDuration(q)
        PROVE  \E i \in 1 .. Len(list) :
                 /\ list[i] = s.trace
                 /\ Len(list) - i + 1 <= Cardinality({j \in {t.trace : t \in OfDuration(q)} : j >= s.trace})
    BY <1>5, <1>7 DEF spans
  <2> QED
    BY <1>6, <2>1 DEF list

----------------------------------------------------------------------------
(* The lists of a search                                                   *)

\* The spans a search asks for are in every list it scans.
LEMMA ServiceScanFinds ==
  ASSUME RTyped, NEW q, q.service # Nothing
  PROVE  /\ ServiceScan(q) \in Seq(Nat)
         /\ \A s \in Live : Meets(s, q) =>
              \E i \in 1 .. Len(ServiceScan(q)) :
                /\ ServiceScan(q)[i] = s.trace
                /\ Len(ServiceScan(q)) - i + 1
                     <= Cardinality({t \in Live :
                          /\ t.service = q.service /\ (q.op = Nothing \/ t.op = q.op)
                          /\ InRange(t, q) /\ t.start >= s.start})
<1> DEFINE spans == {s \in Live : s.service = q.service /\ (q.op = Nothing \/ s.op = q.op)}
           list == ServiceScan(q)
           late(s) == NoEarlier(spans, q, s)
           lateLive(s) == {t \in Live : /\ t.service = q.service /\ (q.op = Nothing \/ t.op = q.op)
                                        /\ InRange(t, q) /\ t.start >= s.start}
<1>1. spans \subseteq Live
  OBVIOUS
<1>2. list = ScanIndexKeys(spans, q)
  BY DEF ServiceScan
<1>3. \A s \in Live : Meets(s, q) => s \in spans /\ InRange(s, q)
  BY DEF Meets
<1>4. \A s : late(s) = lateLive(s)
  BY DEF NoEarlier
<1> HIDE DEF spans, list, lateLive
<1>5. IsFiniteSet(spans) /\ \A t \in spans : t.trace \in Nat /\ t.start \in Nat
  BY <1>1, LiveTyped, Parts
<1>6. /\ list \in Seq(Nat)
      /\ \A s \in spans : InRange(s, q) =>
           \E i \in 1 .. Len(list) :
             list[i] = s.trace /\ Len(list) - i + 1 <= Cardinality(late(s))
  <2>1. /\ ScanIndexKeys(spans, q) \in Seq(Nat)
        /\ \A s \in spans : InRange(s, q) =>
             \E i \in 1 .. Len(ScanIndexKeys(spans, q)) :
               /\ ScanIndexKeys(spans, q)[i] = s.trace
               /\ Len(ScanIndexKeys(spans, q)) - i + 1
                    <= Cardinality(NoEarlier(spans, q, s))
    BY <1>5, ScanFinds
  <2> QED
    BY <1>2, <2>1
<1> HIDE DEF late
<1>7. \A s \in Live : Meets(s, q) =>
        \E i \in 1 .. Len(list) :
          list[i] = s.trace /\ Len(list) - i + 1 <= Cardinality(lateLive(s))
  BY <1>3, <1>4, <1>6
<1> QED
  BY <1>6, <1>7 DEF list, lateLive

\* The tag's scan has the trace of every span that is asked for.
LEMMA TagScanFinds ==
  ASSUME RTyped, NEW q, q.service # Nothing, q.tag # Nothing
  PROVE  /\ TagScan(q) \in Seq(Nat)
         /\ \A s \in Live : Meets(s, q) => Has(TagScan(q), s.trace)
<1> DEFINE spans == {s \in Live : s.service = q.service /\ s.tag = q.tag}
           list == TagScan(q)
<1>1. spans \subseteq Live
  OBVIOUS
<1>2. list = ScanIndexKeys(spans, q)
  BY DEF TagScan
<1>3. \A s \in Live : Meets(s, q) => s \in spans /\ InRange(s, q)
  BY DEF Meets
<1> HIDE DEF spans, list
<1>5. IsFiniteSet(spans) /\ \A t \in spans : t.trace \in Nat /\ t.start \in Nat
  BY <1>1, LiveTyped, Parts
<1>6. /\ list \in Seq(Nat)
      /\ \A s \in spans : InRange(s, q) => \E i \in 1 .. Len(list) : list[i] = s.trace
  <2>1. /\ ScanIndexKeys(spans, q) \in Seq(Nat)
        /\ \A s \in spans : InRange(s, q) =>
             \E i \in 1 .. Len(ScanIndexKeys(spans, q)) :
               /\ ScanIndexKeys(spans, q)[i] = s.trace
               /\ Len(ScanIndexKeys(spans, q)) - i + 1
                    <= Cardinality(NoEarlier(spans, q, s))
    BY <1>5, ScanFinds
  <2> QED
    BY <1>2, <2>1
<1>7. DOMAIN list = 1 .. Len(list)
  BY <1>6, LenProperties
<1>8. \A s \in Live : Meets(s, q) => Has(list, s.trace)
  BY <1>3, <1>6, <1>7 DEF Has
<1> QED
  BY <1>6, <1>8 DEF list

\* A span that is asked for is one the duration index is scanned for.
LEMMA MeetsOfDuration ==
  ASSUME NEW q, NEW s \in Live, Meets(s, q)
  PROVE  s \in OfDuration(q)
BY DEF Meets, OfDuration, InRange

----------------------------------------------------------------------------
(* The answer                                                              *)

\* An answer is a list cut to the limit.
LEMMA Cut ==
  ASSUME NEW l \in Seq(Nat), NEW limit \in Nat
  PROVE  LET k == IF limit < Len(l) THEN limit ELSE Len(l)
         IN  /\ \A i \in 1 .. Len(l) : i <= limit => Has(SubSeq(l, 1, k), l[i])
             /\ Len(SubSeq(l, 1, k)) = k
<1> DEFINE k == IF limit < Len(l) THEN limit ELSE Len(l)
           c == SubSeq(l, 1, k)
<1>1. Len(l) \in Nat /\ k \in Nat /\ k <= Len(l)
  OBVIOUS
<1>2. \A i \in 1 .. Len(l) : i <= limit => i \in 1 .. k
  BY <1>1
<1> HIDE DEF k
<1>3. \A i \in 1 .. k : l[i] \in Nat
  BY <1>1
<1>4. c \in Seq(Nat) /\ Len(c) = k /\ \A i \in 1 .. k : c[i] = l[i]
  <2>1. 1 \in Int /\ k \in Int
    BY <1>1
  <2>2. /\ c \in Seq(Nat) /\ Len(c) = IF 1 <= k THEN k - 1 + 1 ELSE 0
        /\ \A i \in 1 .. k - 1 + 1 : c[i] = l[1 + i - 1]
    <3> HIDE DEF c
    <3> QED
      BY <1>3, <2>1, SubSeqProperties DEF c
  <2> HIDE DEF c
  <2>3. Len(c) = k
    BY <1>1, <2>2
  <2>4. ASSUME NEW i \in 1 .. k PROVE c[i] = l[i]
    <3>1. i \in 1 .. k - 1 + 1 /\ 1 + i - 1 = i
      BY <1>1
    <3>2. c[i] = l[1 + i - 1]
      BY <2>2, <3>1
    <3> QED
      BY <3>1, <3>2
  <2> QED
    BY <2>2, <2>3, <2>4
<1> HIDE DEF c
<1>5. DOMAIN c = 1 .. k
  BY <1>4, LenProperties
<1>6. ASSUME NEW i \in 1 .. Len(l), i <= limit PROVE Has(c, l[i])
  <2>1. i \in 1 .. k
    BY <1>2, <1>6
  <2> QED
    BY <1>4, <1>5, <2>1 DEF Has
<1> QED
  BY <1>4, <1>6 DEF c, k

\* A list read from its end.
LEMMA Reversed ==
  ASSUME NEW l \in Seq(Nat)
  PROVE  /\ Reverse(l) \in Seq(Nat) /\ Len(Reverse(l)) = Len(l)
         /\ \A i \in 1 .. Len(l) : /\ Len(l) - i + 1 \in 1 .. Len(l)
                                   /\ Reverse(l)[Len(l) - i + 1] = l[i]
<1> DEFINE n == Len(l)
           r == Reverse(l)
<1>1. n \in Nat /\ \A i \in 1 .. n : l[i] \in Nat
  OBVIOUS
<1>2. r = [i \in 1 .. n |-> l[(n - i) + 1]]
  BY DEF Reverse
<1> HIDE DEF n, r
<1>3. \A i \in 1 .. n : n - i + 1 \in 1 .. n /\ (n - (n - i + 1)) + 1 = i
  BY <1>1
<1>4. \A i \in 1 .. n : r[i] = l[(n - i) + 1]
  BY <1>2
<1>5. r \in [1 .. n -> Nat]
  BY <1>1, <1>2, <1>3
<1>6. r \in Seq(Nat) /\ Len(r) = n
  BY <1>1, <1>5, SequenceOf
<1>7. ASSUME NEW i \in 1 .. n PROVE r[n - i + 1] = l[i]
  <2>1. n - i + 1 \in 1 .. n /\ (n - (n - i + 1)) + 1 = i
    BY <1>3
  <2>2. r[n - i + 1] = l[(n - (n - i + 1)) + 1]
    BY <1>4, <2>1
  <2> QED
    BY <2>1, <2>2
<1> QED
  BY <1>3, <1>6, <1>7 DEF n, r

\* A search of one index keeps the end of its scan.
LEMMA OneList ==
  ASSUME NEW q, q.limit \in Nat, NEW l \in Seq(Nat), Lists(q) = <<l>>, NEW i \in 1 .. Len(l)
  PROVE  Has(FindTraceIDs(q), l[i]) \/ Len(l) - i + 1 > q.limit
<1> DEFINE r == Reverse(l)
           k == IF q.limit < Len(r) THEN q.limit ELSE Len(r)
           p == Len(l) - i + 1
<1>1. r \in Seq(Nat) /\ Len(r) = Len(l) /\ p \in 1 .. Len(r) /\ r[p] = l[i]
  BY Reversed
<1>2. FindTraceIDs(q) = SubSeq(r, 1, k)
  BY DEF FindTraceIDs, SortMergeIds
<1> HIDE DEF r, p
<1>3. p <= q.limit => Has(FindTraceIDs(q), r[p])
  BY <1>1, <1>2, Cut
<1>4. p <= q.limit \/ p > q.limit
  BY <1>1
<1> QED
  BY <1>1, <1>3, <1>4 DEF p

\* A search of two ascending lists answers with all they share, or with as many as
\* were asked for.
LEMMA TwoLists ==
  ASSUME NEW q, q.limit \in Nat, NEW a \in Seq(Nat), NEW b \in Seq(Nat), Lists(q) = <<a, b>>,
         Ascending(a), Ascending(b), NEW x, Has(a, x), Has(b, x)
  PROVE  Has(FindTraceIDs(q), x) \/ Len(FindTraceIDs(q)) = q.limit
<1> DEFINE m == MergeJoin(a, b)
           k == IF q.limit < Len(m) THEN q.limit ELSE Len(m)
<1>1. m \in Seq(Nat) /\ Has(m, x)
  BY MergeJoinFinds
<1>2. Intersected(<<a, b>>)[2] = m
  <2> DEFINE lists == <<a, b>>
             step(f, i) == IF i = 1 THEN lists[1] ELSE MergeJoin(f[i - 1], lists[i])
             G(f) == f = [i \in 1 .. Len(lists) |->
                            IF i = 1 THEN lists[1] ELSE MergeJoin(f[i - 1], lists[i])]
             g == [i \in 1 .. 2 |-> IF i = 1 THEN a ELSE m]
  <2>1. Intersected(lists) = CHOOSE f : G(f)
    BY DEF Intersected
  <2>2. Len(lists) = 2 /\ lists[1] = a /\ lists[2] = b
    OBVIOUS
  <2>3. G(g)
    <3> HIDE DEF m, lists
    <3>1. \A i \in 1 .. 2 : g[i] = IF i = 1 THEN lists[1] ELSE MergeJoin(g[i - 1], lists[i])
      <4> SUFFICES ASSUME NEW i \in 1 .. 2
                   PROVE  g[i] = IF i = 1 THEN lists[1] ELSE MergeJoin(g[i - 1], lists[i])
        OBVIOUS
      <4>1. i = 1 \/ i = 2
        OBVIOUS
      <4>2. g[1] = a /\ g[2] = MergeJoin(a, b)
        BY DEF m
      <4> HIDE DEF g
      <4>3. CASE i = 1
        BY <2>2, <4>2, <4>3
      <4>4. CASE i = 2
        <5>1. i - 1 = 1
          BY <4>4
        <5> QED
          BY <2>2, <4>2, <4>4, <5>1
      <4> QED
        BY <4>1, <4>3, <4>4
    <3>2. DOMAIN g = 1 .. 2 /\ g = [i \in 1 .. 2 |-> g[i]]
      OBVIOUS
    <3> HIDE DEF g
    <3> QED
      BY <2>2, <3>1, <3>2
  <2> HIDE DEF lists
  <2>4. G(Intersected(lists))
    <3> HIDE DEF G, g
    <3> QED
      BY <2>1, <2>3
  <2> DEFINE f == Intersected(lists)
  <2>5. \A i \in 1 .. 2 : f[i] = IF i = 1 THEN a ELSE MergeJoin(f[i - 1], lists[i])
    <3> HIDE DEF f, m
    <3> QED
      BY <2>2, <2>4 DEF f
  <2> HIDE DEF f, m
  <2>6. f[1] = a
    BY <2>5
  <2>7. f[2] = MergeJoin(f[1], b)
    <3>1. 2 \in 1 .. 2 /\ 2 # 1 /\ 2 - 1 = 1
      OBVIOUS
    <3>2. f[2] = MergeJoin(f[2 - 1], lists[2])
      BY <2>5, <3>1
    <3> QED
      BY <2>2, <3>1, <3>2
  <2> QED
    BY <2>6, <2>7 DEF f, m, lists
<1>3. FindTraceIDs(q) = SubSeq(m, 1, k)
  <2> DEFINE lists == <<a, b>>
  <2>1. Len(lists) = 2
    OBVIOUS
  <2> HIDE DEF m, lists
  <2>2. FindTraceIDs(q) = SortMergeIds(q, lists)
    BY DEF FindTraceIDs, lists
  <2>3. Intersected(lists)[Len(lists)] = m
    BY <1>2, <2>1 DEF lists
  <2>4. Len(lists) # 1
    BY <2>1
  <2> QED
    BY <2>2, <2>3, <2>4 DEF SortMergeIds
<1> HIDE DEF m
<1>4. PICK p \in 1 .. Len(m) : m[p] = x
  <2>1. DOMAIN m = 1 .. Len(m)
    BY <1>1, LenProperties
  <2> QED
    BY <1>1, <2>1 DEF Has
<1>5. Len(m) \in Nat
  BY <1>1
<1>6. CASE p <= q.limit
  BY <1>1, <1>3, <1>4, <1>6, Cut
<1>7. CASE ~(p <= q.limit)
  <2>1. k = q.limit
    BY <1>4, <1>5, <1>7
  <2> QED
    BY <1>1, <1>3, <2>1, Cut
<1> QED
  BY <1>6, <1>7

\* Which lists a search scans.
LEMMA ListsAre ==
  ASSUME NEW q \in Query
  PROVE  \/ q.service # Nothing /\ q.tag = Nothing /\ q.durMin = 0 /\ q.durMax = 0
              /\ Lists(q) = <<ServiceScan(q)>>
         \/ q.service # Nothing /\ q.tag = Nothing /\ Lists(q) = <<ServiceScan(q), DurationScan(q)>>
         \/ q.service # Nothing /\ q.tag # Nothing /\ Lists(q) = <<ServiceScan(q), TagScan(q)>>
         \/ q.service # Nothing /\ Len(Lists(q)) = 3
         \/ q.service = Nothing /\ Lists(q) = <<DurationScan(q)>>
<1> DEFINE S == ServiceScan(q)
           T == TagScan(q)
           D == DurationScan(q)
<1>1. /\ <<S>> \o <<>> = <<S>> /\ <<S>> \o <<D>> = <<S, D>>
      /\ <<S, T>> \o <<>> = <<S, T>> /\ Len(<<S, T>> \o <<D>>) = 3
      /\ <<>> \o <<D>> = <<D>>
  <2> HIDE DEF S, T, D
  <2>1. <<S>> \o <<>> = <<S>>
    OBVIOUS
  <2>2. <<S>> \o <<D>> = <<S, D>>
    <3> DEFINE c == <<S>> \o <<D>>
               E == {S, D}
    <3>1. <<S>> \in Seq(E) /\ <<D>> \in Seq(E) /\ <<S, D>> \in Seq(E)
          /\ Len(<<S>>) = 1 /\ Len(<<D>>) = 1 /\ Len(<<S, D>>) = 2
      OBVIOUS
    <3> HIDE DEF E
    <3>2. /\ c \in Seq(E) /\ Len(c) = Len(<<S>>) + Len(<<D>>)
          /\ \A i \in 1 .. Len(<<S>>) + Len(<<D>>) :
               c[i] = IF i <= Len(<<S>>) THEN <<S>>[i] ELSE <<D>>[i - Len(<<S>>)]
      BY <3>1, ConcatProperties
    <3> HIDE DEF c
    <3>3. Len(c) = 2 /\ c[1] = S /\ c[2] = D
      BY <3>1, <3>2
    <3>4. \A i \in 1 .. Len(c) : c[i] = <<S, D>>[i]
      BY <3>3
    <3> QED
      BY <3>1, <3>2, <3>3, <3>4, SeqEqual DEF c
  <2>3. <<S, T>> \o <<>> = <<S, T>>
    OBVIOUS
  <2>4. Len(<<S, T>> \o <<D>>) = 3
    OBVIOUS
  <2>5. <<>> \o <<D>> = <<D>>
    OBVIOUS
  <2> QED
    BY <2>1, <2>2, <2>3, <2>4, <2>5
<1>2. /\ q.service # Nothing /\ q.tag = Nothing => ServiceQueries(q) = <<S>>
      /\ q.service # Nothing /\ q.tag # Nothing => ServiceQueries(q) = <<S, T>>
      /\ q.service = Nothing => ServiceQueries(q) = <<>>
  BY DEF ServiceQueries
<1>3. /\ q.durMin = 0 /\ q.durMax = 0 => DurationQueries(q) = <<>>
      /\ q.durMin # 0 \/ q.durMax # 0 => DurationQueries(q) = <<D>>
  BY DEF DurationQueries
<1>4. q.service = Nothing => q.durMin # 0 \/ q.durMax # 0
  BY QueryAssumption
<1> HIDE DEF S, T, D
<1>5. Lists(q) = ServiceQueries(q) \o DurationQueries(q)
  BY DEF Lists
<1>6. CASE q.service = Nothing
  BY <1>1, <1>2, <1>3, <1>4, <1>5, <1>6 DEF D
<1>7. CASE q.service # Nothing /\ q.tag = Nothing /\ q.durMin = 0 /\ q.durMax = 0
  BY <1>1, <1>2, <1>3, <1>5, <1>7 DEF S
<1>8. CASE q.service # Nothing /\ q.tag = Nothing /\ (q.durMin # 0 \/ q.durMax # 0)
  BY <1>1, <1>2, <1>3, <1>5, <1>8 DEF S, D
<1>9. CASE q.service # Nothing /\ q.tag # Nothing /\ q.durMin = 0 /\ q.durMax = 0
  BY <1>1, <1>2, <1>3, <1>5, <1>9 DEF S, T
<1>10. CASE q.service # Nothing /\ q.tag # Nothing /\ (q.durMin # 0 \/ q.durMax # 0)
  BY <1>1, <1>2, <1>3, <1>5, <1>10
<1> QED
  BY <1>6, <1>7, <1>8, <1>9, <1>10

\* A list has its elements.
LEMMA HasIt ==
  ASSUME NEW l \in Seq(Nat), NEW i \in 1 .. Len(l)
  PROVE  Has(l, l[i])
<1>1. DOMAIN l = 1 .. Len(l)
  BY LenProperties
<1> QED
  BY <1>1 DEF Has

\* A search of the index of a service or an operation alone.
LEMMA ByServiceFinds ==
  ASSUME RTyped, NEW q \in Query, q.service # Nothing, q.tag = Nothing, q.durMin = 0, q.durMax = 0,
         Lists(q) = <<ServiceScan(q)>>, NEW s \in Live, Meets(s, q)
  PROVE  Has(FindTraceIDs(q), s.trace) \/ CrowdedOut(s, q)
<1> DEFINE list == ServiceScan(q)
           late == {t \in Live : /\ t.service = q.service /\ (q.op = Nothing \/ t.op = q.op)
                                 /\ InRange(t, q) /\ t.start >= s.start}
           crowd == {t \in Live : Meets(t, q) /\ t.start >= s.start}
<1>1. PICK i \in 1 .. Len(list) : list[i] = s.trace /\ Len(list) - i + 1 <= Cardinality(late)
  BY ServiceScanFinds
<1>2. list \in Seq(Nat) /\ q.limit \in Nat
  BY ServiceScanFinds, QueryAssumption
<1>3. late \subseteq crowd
  <2>1. \A t \in Live : t.dur \in Nat
    BY LiveTyped
  <2>2. \A t \in Live : HasDuration(t, q)
    BY <2>1 DEF HasDuration
  <2> QED
    BY <2>2 DEF Meets
<1>4. /\ Cardinality(late) \in Nat /\ Cardinality(crowd) \in Nat
      /\ Cardinality(late) <= Cardinality(crowd)
  <2>1. crowd \subseteq Live
    OBVIOUS
  <2> HIDE DEF late, crowd
  <2>2. IsFiniteSet(crowd)
    BY <2>1, LiveTyped, Parts
  <2> QED
    BY <1>3, <2>2, Parts
<1>5. Has(FindTraceIDs(q), list[i]) \/ Len(list) - i + 1 > q.limit
  <2> HIDE DEF list, late
  <2> QED
    BY <1>2, OneList DEF list
<1>6. CASE Len(list) - i + 1 > q.limit
  <2>1. Len(list) \in Nat
    BY <1>2
  <2> HIDE DEF list, late, crowd
  <2>2. Cardinality(crowd) > q.limit
    BY <1>1, <1>2, <1>4, <1>6, <2>1
  <2>3. Len(Lists(q)) # 2
    BY Lists(q) = <<ServiceScan(q)>>
  <2> QED
    BY <2>2, <2>3 DEF CrowdedOut, crowd
<1> QED
  BY <1>1, <1>5, <1>6

\* A search of the duration index alone.
LEMMA ByDurationFinds ==
  ASSUME RTyped, NEW q \in Query, q.service = Nothing,
         Lists(q) = <<DurationScan(q)>>, NEW s \in Live, Meets(s, q)
  PROVE  Has(FindTraceIDs(q), s.trace) \/ CrowdedOut(s, q)
<1> DEFINE list == DurationScan(q)
           spans == OfDuration(q)
           crowd == {j \in {t.trace : t \in spans} : j >= s.trace}
<1>1. s \in spans
  BY MeetsOfDuration
<1>2. PICK i \in 1 .. Len(list) : list[i] = s.trace /\ Len(list) - i + 1 <= Cardinality(crowd)
  BY <1>1, DurationScanFinds
<1>3. list \in Seq(Nat) /\ q.limit \in Nat
  BY DurationScanFinds, QueryAssumption
<1>4. Cardinality(crowd) \in Nat
  <2> DEFINE f == [t \in spans |-> t.trace]
             ids == {t.trace : t \in spans}
  <2>1. spans \subseteq Live
    BY DEF OfDuration
  <2> HIDE DEF spans
  <2>2. IsFiniteSet(spans)
    BY <2>1, LiveTyped, Parts
  <2>3. DOMAIN f = spans /\ f = [t \in spans |-> f[t]] /\ ids = {f[t] : t \in spans}
    OBVIOUS
  <2>4. crowd \subseteq ids
    OBVIOUS
  <2> HIDE DEF f, ids, crowd
  <2>5. IsFiniteSet(ids)
    BY <2>2, <2>3, Images
  <2> QED
    BY <2>4, <2>5, Parts
<1>5. Has(FindTraceIDs(q), list[i]) \/ Len(list) - i + 1 > q.limit
  <2> HIDE DEF list, crowd
  <2> QED
    BY <1>3, OneList DEF list
<1>6. CASE Len(list) - i + 1 > q.limit
  <2>1. Len(list) \in Nat
    BY <1>3
  <2> HIDE DEF list, crowd, spans
  <2>2. Cardinality(crowd) > q.limit
    BY <1>2, <1>3, <1>4, <1>6, <2>1
  <2>3. Len(Lists(q)) # 2
    BY Lists(q) = <<DurationScan(q)>>
  <2> QED
    BY <2>2, <2>3 DEF CrowdedOut, crowd, spans
<1> QED
  BY <1>2, <1>5, <1>6

\* A search that joins two ascending scans.
LEMMA JoinFinds ==
  ASSUME NEW q \in Query, NEW a \in Seq(Nat), NEW b \in Seq(Nat), Lists(q) = <<a, b>>,
         WellOrdered(q), NEW s, Has(a, s.trace), Has(b, s.trace)
  PROVE  Has(FindTraceIDs(q), s.trace) \/ CrowdedOut(s, q)
<1> DEFINE lists == <<a, b>>
<1>1. Len(lists) = 2 /\ lists[1] = a /\ lists[2] = b
  OBVIOUS
<1>2. Lists(q) = lists
  OBVIOUS
<1> HIDE DEF lists
<1>3. Ascending(a) /\ Ascending(b)
  BY <1>1, <1>2 DEF WellOrdered
<1>4. q.limit \in Nat
  BY QueryAssumption
<1>5. Has(FindTraceIDs(q), s.trace) \/ Len(FindTraceIDs(q)) = q.limit
  BY <1>3, <1>4, TwoLists
<1> QED
  BY <1>1, <1>2, <1>5 DEF CrowdedOut

\* The searches by case of the lists they scan, given that finitely many are stored.
LEMMA SearchesFindLive ==
  ASSUME RTyped
  PROVE  SearchFinds
<1> SUFFICES ASSUME NEW q \in Query, WellOrdered(q), NEW s \in Live, Meets(s, q)
             PROVE  Has(FindTraceIDs(q), s.trace) \/ CrowdedOut(s, q)
  BY DEF SearchFinds, Has
<1>1. CASE q.service # Nothing /\ q.tag = Nothing /\ q.durMin = 0 /\ q.durMax = 0
           /\ Lists(q) = <<ServiceScan(q)>>
  BY <1>1, ByServiceFinds
<1>2. CASE q.service = Nothing /\ Lists(q) = <<DurationScan(q)>>
  BY <1>2, ByDurationFinds
<1>3. q.service # Nothing => ServiceScan(q) \in Seq(Nat) /\ Has(ServiceScan(q), s.trace)
  <2> SUFFICES ASSUME q.service # Nothing
               PROVE  ServiceScan(q) \in Seq(Nat) /\ Has(ServiceScan(q), s.trace)
    OBVIOUS
  <2>1. ServiceScan(q) \in Seq(Nat) /\ \E i \in 1 .. Len(ServiceScan(q)) : ServiceScan(q)[i] = s.trace
    BY ServiceScanFinds
  <2> QED
    BY <2>1, HasIt
<1>4. DurationScan(q) \in Seq(Nat) /\ Has(DurationScan(q), s.trace)
  <2>1. s \in OfDuration(q)
    BY MeetsOfDuration
  <2>2. DurationScan(q) \in Seq(Nat) /\ \E i \in 1 .. Len(DurationScan(q)) : DurationScan(q)[i] = s.trace
    BY <2>1, DurationScanFinds
  <2> QED
    BY <2>2, HasIt
<1>5. CASE q.service # Nothing /\ q.tag = Nothing /\ Lists(q) = <<ServiceScan(q), DurationScan(q)>>
  BY <1>3, <1>4, <1>5, JoinFinds
<1>6. CASE q.service # Nothing /\ q.tag # Nothing /\ Lists(q) = <<ServiceScan(q), TagScan(q)>>
  <2>1. TagScan(q) \in Seq(Nat) /\ Has(TagScan(q), s.trace)
    BY <1>6, TagScanFinds
  <2> QED
    BY <1>3, <1>6, <2>1, JoinFinds
<1>7. CASE Len(Lists(q)) = 3
  BY <1>7 DEF WellOrdered
<1> QED
  BY <1>1, <1>2, <1>5, <1>6, <1>7, ListsAre

\* A search of one index, or of two whose scans come in the order of the trace ids,
\* finds every trace with a span that meets all its criteria, unless others have
\* crowded it out: of the newest for a service, the greatest ids for a duration, any
\* for a join.  (FindTraceIDs, scanIndexKeys, durationQueries, sortMergeIds.)
THEOREM SearchesFind == Spec => []SearchFinds
BY RowsTyped, SearchesFindLive, PTL

----------------------------------------------------------------------------
(* What a search answers is what it asked for                              *)

\* The loop's other invariant, in whatever order the lists are: what it has put
\* out is in both.
Matched(a, b, m) ==
  /\ m = [k |-> m.k, j |-> m.j, out |-> m.out]
  /\ m.k \in 0 .. Len(a) /\ m.j \in 0 .. Len(b) /\ m.out \in Seq(Nat)
  /\ \A x : Has(m.out, x) => Has(a, x) /\ Has(b, x)

\* A round's new state, by its parts.
LEMMA MatchedOf ==
  ASSUME NEW a, NEW b, NEW m, NEW k \in 0 .. Len(a), NEW j \in 0 .. Len(b), NEW out \in Seq(Nat),
         m = [k |-> k, j |-> j, out |-> out], \A x : Has(out, x) => Has(a, x) /\ Has(b, x)
  PROVE  Matched(a, b, m)
<1>1. m.k = k /\ m.j = j /\ m.out = out
  OBVIOUS
<1> QED
  BY <1>1 DEF Matched

\* Appending adds one element only.
LEMMA AppendsOne ==
  ASSUME NEW s \in Seq(Nat), NEW e \in Nat, NEW x, Has(Append(s, e), x)
  PROVE  Has(s, x) \/ x = e
<1>1. /\ Append(s, e) \in Seq(Nat) /\ Len(Append(s, e)) = Len(s) + 1
      /\ \A i \in 1 .. Len(s) : Append(s, e)[i] = s[i]
      /\ Append(s, e)[Len(s) + 1] = e
  BY AppendProperties
<1>2. DOMAIN s = 1 .. Len(s) /\ DOMAIN Append(s, e) = 1 .. Len(s) + 1 /\ Len(s) \in Nat
  BY <1>1
<1>3. PICK i \in 1 .. Len(s) + 1 : Append(s, e)[i] = x
  BY <1>2 DEF Has
<1>4. CASE i = Len(s) + 1
  BY <1>1, <1>3, <1>4
<1>5. CASE i # Len(s) + 1
  <2>1. i \in 1 .. Len(s)
    BY <1>2, <1>3, <1>5
  <2> QED
    BY <1>1, <1>2, <1>3, <2>1 DEF Has
<1> QED
  BY <1>4, <1>5

\* A round puts out only what both positions show.
LEMMA MergeStepMatches ==
  ASSUME NEW a \in Seq(Nat), NEW b \in Seq(Nat), NEW m, Matched(a, b, m)
  PROVE  Matched(a, b, MergeStep(a, b, m))
<1> DEFINE K == m.k
           J == m.j
           O == m.out
           M == MergeStep(a, b, m)
<1>1. Len(a) \in Nat /\ Len(b) \in Nat
  OBVIOUS
<1>2. /\ m = [k |-> K, j |-> J, out |-> O]
      /\ K \in 0 .. Len(a) /\ J \in 0 .. Len(b) /\ O \in Seq(Nat)
      /\ \A x : Has(O, x) => Has(a, x) /\ Has(b, x)
  BY DEF Matched
<1>3. CASE K = 0 \/ J = 0
  BY <1>3 DEF MergeStep
<1>4. ASSUME K # 0, J # 0
      PROVE  /\ K \in 1 .. Len(a) /\ J \in 1 .. Len(b) /\ a[K] \in Nat /\ b[J] \in Nat
             /\ K > 0 /\ J > 0 /\ K - 1 \in 0 .. Len(a) /\ J - 1 \in 0 .. Len(b)
  <2> HIDE DEF K, J, O, M
  <2>1. K \in 1 .. Len(a) /\ J \in 1 .. Len(b)
    BY <1>1, <1>2, <1>4
  <2>2. a[K] \in Nat /\ b[J] \in Nat
    BY <1>1, <2>1
  <2> QED
    BY <1>1, <2>1, <2>2
<1>5. CASE K # 0 /\ J # 0 /\ a[K] > b[J]
  <2>1. ~(K = 0 \/ J = 0) /\ K > 0 /\ J > 0
    BY <1>4, <1>5
  <2>2. ~(a[K] < b[J])
    <3>1. a[K] \in Nat /\ b[J] \in Nat /\ a[K] > b[J]
      BY <1>4, <1>5
    <3> HIDE DEF K, J
    <3> QED
      BY <3>1
  <2>3. M = [m EXCEPT !.k = K - 1]
    BY <1>5, <2>1, <2>2 DEF MergeStep
  <2> HIDE DEF K, J, O, M
  <2>4. M = [k |-> K - 1, j |-> J, out |-> O]
    BY <1>2, <2>3, Rounded
  <2> QED
    BY <1>2, <1>4, <1>5, <2>4, MatchedOf DEF M
<1>6. CASE K # 0 /\ J # 0 /\ ~(a[K] > b[J]) /\ a[K] < b[J]
  <2>1. ~(K = 0 \/ J = 0) /\ K > 0 /\ J > 0
    BY <1>4, <1>6
  <2>2. M = [m EXCEPT !.j = J - 1]
    BY <1>6, <2>1 DEF MergeStep
  <2> HIDE DEF K, J, O, M
  <2>3. M = [k |-> K, j |-> J - 1, out |-> O]
    BY <1>2, <2>2, Rounded
  <2> QED
    BY <1>2, <1>4, <1>6, <2>3, MatchedOf DEF M
<1>7. CASE K # 0 /\ J # 0 /\ ~(a[K] > b[J]) /\ ~(a[K] < b[J])
  <2>1. ~(K = 0 \/ J = 0)
    BY <1>7
  <2>2. M = [k |-> K - 1, j |-> J, out |-> Append(O, a[K])]
    BY <1>7, <2>1 DEF MergeStep
  <2> HIDE DEF K, J, O, M
  <2>3. a[K] = b[J]
    BY <1>4, <1>7
  <2>4. Has(a, a[K]) /\ Has(b, a[K])
    BY <1>4, <1>7, <2>3, HasIt
  <2>5. Append(O, a[K]) \in Seq(Nat)
    BY <1>2, <1>4, <1>7, HasAppend
  <2>6. \A x : Has(Append(O, a[K]), x) => Has(a, x) /\ Has(b, x)
    BY <1>2, <1>4, <1>7, <2>4, AppendsOne
  <2> QED
    BY <1>2, <1>4, <1>7, <2>2, <2>5, <2>6, MatchedOf DEF M
<1> QED
  BY <1>3, <1>5, <1>6, <1>7

\* The join has only common elements, even of lists in no order.
LEMMA MergeJoinMatches ==
  ASSUME NEW a \in Seq(Nat), NEW b \in Seq(Nat)
  PROVE  /\ MergeJoin(a, b) \in Seq(Nat)
         /\ \A x : Has(MergeJoin(a, b), x) => Has(a, x) /\ Has(b, x)
<1> DEFINE l == Len(a) + Len(b)
           m(n) == Merging(a, b)[n]
           S == {n \in Nat : n <= l => Matched(a, b, m(n))}
<1>1. l \in Nat /\ Len(a) \in Nat /\ Len(b) \in Nat
  OBVIOUS
<1>2. Matched(a, b, m(0))
  <2>1. m(0) = [k |-> Len(a), j |-> Len(b), out |-> <<>>]
    BY Rounds
  <2> HIDE DEF m
  <2>2. <<>> \in Seq(Nat) /\ \A x : ~Has(<<>>, x)
    BY DEF Has
  <2>3. Len(a) \in 0 .. Len(a) /\ Len(b) \in 0 .. Len(b)
    BY <1>1
  <2> QED
    BY <2>1, <2>2, <2>3, MatchedOf
<1>3. ASSUME NEW n \in Nat, n + 1 <= l, Matched(a, b, m(n)) PROVE Matched(a, b, m(n + 1))
  <2>1. n \in 0 .. Len(a) + Len(b) - 1
    BY <1>1, <1>3
  <2>2. m(n + 1) = MergeStep(a, b, m(n))
    BY <2>1, Rounds
  <2> HIDE DEF m
  <2> QED
    BY <1>3, <2>2, MergeStepMatches
<1> HIDE DEF m
<1>4. 0 \in S /\ \A n \in S : n + 1 \in S
  <2>1. 0 \in S
    BY <1>2
  <2>2. ASSUME NEW n \in S PROVE n + 1 \in S
    <3>1. n \in Nat /\ (n <= l => Matched(a, b, m(n)))
      OBVIOUS
    <3> HIDE DEF l
    <3>2. CASE n + 1 <= l
      <4>1. n <= l
        BY <1>1, <3>1, <3>2
      <4> QED
        BY <1>3, <3>1, <3>2, <4>1
    <3>3. CASE ~(n + 1 <= l)
      BY <3>1, <3>3
    <3> QED
      BY <3>2, <3>3
  <2> QED
    BY <2>1, <2>2
<1>5. S = Nat
  <2> HIDE DEF S
  <2>1. S \subseteq Nat
    BY DEF S
  <2> QED
    BY <1>4, <2>1, Induct
<1>6. Matched(a, b, m(l))
  <2>1. l \in S
    BY <1>1, <1>5
  <2> HIDE DEF l
  <2> QED
    BY <1>1, <2>1
<1>7. MergeJoin(a, b) = m(l).out
  BY DEF MergeJoin, m
<1> HIDE DEF l
<1> QED
  BY <1>6, <1>7 DEF Matched

\* A function that meets the recursion of the join of several lists.
IntersectedSolves(lists, l, f) ==
  f = [i \in 1 .. l |-> IF i = 1 THEN lists[1] ELSE MergeJoin(f[i - 1], lists[i])]

\* The recursion over the lists has a solution of every length.
LEMMA IntersectedExists ==
  ASSUME NEW lists
  PROVE  \A l \in Nat : \E f : IntersectedSolves(lists, l, f)
<1> DEFINE S == {l \in Nat : \E f : IntersectedSolves(lists, l, f)}
<1>1. 0 \in S
  <2>1. IntersectedSolves(lists, 0, [i \in 1 .. 0 |-> lists[1]])
    BY DEF IntersectedSolves
  <2> QED
    BY <2>1
<1>2. ASSUME NEW l \in S PROVE l + 1 \in S
  <2>1. PICK f : IntersectedSolves(lists, l, f)
    OBVIOUS
  <2> DEFINE e == IF l = 0 THEN lists[1] ELSE MergeJoin(f[l], lists[l + 1])
             g == [i \in 1 .. l + 1 |-> IF i = l + 1 THEN e ELSE f[i]]
  <2>2. ASSUME NEW i \in 1 .. l + 1
        PROVE  g[i] = IF i = 1 THEN lists[1] ELSE MergeJoin(g[i - 1], lists[i])
    <3>1. CASE i = l + 1
      BY <3>1
    <3>2. CASE i # l + 1
      <4>1. i \in 1 .. l /\ g[i] = f[i] /\ (i # 1 => g[i - 1] = f[i - 1])
        BY <3>2
      <4> QED
        BY <2>1, <4>1 DEF IntersectedSolves
    <3> QED
      BY <3>1, <3>2
  <2>3. IntersectedSolves(lists, l + 1, g)
    BY <2>2 DEF IntersectedSolves
  <2> QED
    BY <2>3
<1>3. S = Nat
  <2> HIDE DEF S
  <2>1. S \subseteq Nat
    BY DEF S
  <2> QED
    BY <1>1, <1>2, <2>1, Induct
<1> QED
  BY <1>3

\* What is left of any number of lists is in each of them.
LEMMA IntersectedMatches ==
  ASSUME NEW lists, Len(lists) \in Nat, Len(lists) > 0,
         \A i \in 1 .. Len(lists) : lists[i] \in Seq(Nat)
  PROVE  /\ Intersected(lists)[Len(lists)] \in Seq(Nat)
         /\ \A x : Has(Intersected(lists)[Len(lists)], x) =>
              \A i \in 1 .. Len(lists) : Has(lists[i], x)
<1> DEFINE l == Len(lists)
           f == Intersected(lists)
           Good(n) == /\ f[n] \in Seq(Nat)
                      /\ \A x : Has(f[n], x) => \A i \in 1 .. n : Has(lists[i], x)
           S == {n \in Nat : n + 1 <= l => Good(n + 1)}
<1>1. \E g : IntersectedSolves(lists, l, g)
  BY IntersectedExists
<1>2. f = CHOOSE g : IntersectedSolves(lists, l, g)
  BY DEF Intersected, IntersectedSolves
<1>3. IntersectedSolves(lists, l, f)
  BY <1>1, <1>2
<1> HIDE DEF f, l
<1>4. \A i \in 1 .. l : f[i] = IF i = 1 THEN lists[1] ELSE MergeJoin(f[i - 1], lists[i])
  BY <1>3 DEF IntersectedSolves
<1>5. l \in Nat /\ l > 0 /\ \A i \in 1 .. l : lists[i] \in Seq(Nat)
  BY DEF l
<1>6. Good(1)
  <2>1. f[1] = lists[1] /\ lists[1] \in Seq(Nat)
    BY <1>4, <1>5
  <2> QED
    BY <2>1
<1>7. ASSUME NEW n \in Nat, n # 0, n + 1 <= l, Good(n) PROVE Good(n + 1)
  <2>1. n + 1 \in 1 .. l /\ n + 1 # 1 /\ (n + 1) - 1 = n
    BY <1>5, <1>7
  <2>2. f[n + 1] = MergeJoin(f[n], lists[n + 1]) /\ lists[n + 1] \in Seq(Nat)
    BY <1>4, <1>5, <2>1
  <2>3. /\ f[n + 1] \in Seq(Nat)
        /\ \A x : Has(f[n + 1], x) => Has(f[n], x) /\ Has(lists[n + 1], x)
    BY <1>7, <2>2, MergeJoinMatches
  <2>4. \A i \in 1 .. n + 1 : i \in 1 .. n \/ i = n + 1
    OBVIOUS
  <2> QED
    BY <1>7, <2>3, <2>4
<1> HIDE DEF Good
<1>8. 0 \in S /\ \A n \in S : n + 1 \in S
  <2>1. 0 \in S
    BY <1>6
  <2>2. ASSUME NEW n \in S PROVE n + 1 \in S
    <3>1. n \in Nat /\ (n + 1 <= l => Good(n + 1))
      OBVIOUS
    <3>2. CASE (n + 1) + 1 <= l
      <4>1. n + 1 <= l /\ n + 1 \in Nat /\ n + 1 # 0
        BY <1>5, <3>1, <3>2
      <4>2. Good((n + 1) + 1)
        BY <1>7, <3>1, <3>2, <4>1
      <4> QED
        BY <3>1, <4>2
    <3>3. CASE ~((n + 1) + 1 <= l)
      BY <3>1, <3>3
    <3> QED
      BY <3>2, <3>3
  <2> QED
    BY <2>1, <2>2
<1>9. S = Nat
  <2> HIDE DEF S
  <2>1. S \subseteq Nat
    BY DEF S
  <2> QED
    BY <1>8, <2>1, Induct
<1>10. Good(l)
  <2>1. l - 1 \in S /\ (l - 1) + 1 = l
    <3> HIDE DEF S, l
    <3> QED
      BY <1>5, <1>9
  <2>2. l <= l
    BY <1>5
  <2>3. (l - 1) + 1 <= l => Good((l - 1) + 1)
    BY <2>1
  <2> QED
    BY <2>1, <2>2, <2>3
<1> QED
  BY <1>10 DEF Good, l, f

\* Every entry of an index scan is the trace of a span of the index that began in
\* the range.
LEMMA ScanOnly ==
  ASSUME NEW spans, IsFiniteSet(spans), \A t \in spans : t.trace \in Nat /\ t.start \in Nat,
         NEW q, NEW x, Has(ScanIndexKeys(spans, q), x)
  PROVE  \E s \in spans : InRange(s, q) /\ s.trace = x
<1> DEFINE within == {t \in spans : InRange(t, q)}
           keys == {<<s.start, s.trace>> : s \in within}
           R == ByTimeThenTrace(keys)
           scan == InOrder(keys, R)
           list == ScanIndexKeys(spans, q)
           n == Cardinality(keys)
<1>1. list = [i \in DOMAIN scan |-> scan[i][2]]
  BY DEF ScanIndexKeys
<1>2. within \subseteq spans /\ IsFiniteSet(within)
  <2>1. within \subseteq spans
    OBVIOUS
  <2> HIDE DEF within
  <2> QED
    BY <2>1, Parts
<1>3. keys \subseteq Nat \X Nat
  OBVIOUS
<1>4. IsFiniteSet(keys)
  <2> DEFINE f == [t \in within |-> <<t.start, t.trace>>]
  <2>1. DOMAIN f = within /\ f = [t \in within |-> f[t]] /\ keys = {f[t] : t \in within}
    OBVIOUS
  <2> HIDE DEF f, within, keys
  <2> QED
    BY <1>2, <2>1, Images
<1>5. StrictOrder(keys, R)
  BY <1>3, KeysOrdered
<1>6. scan \in Seq(keys) /\ Len(scan) = n /\ n \in Nat
  <2> HIDE DEF keys, R
  <2> QED
    BY <1>4, <1>5, InOrderIs
<1>7. DOMAIN scan = 1 .. n /\ \A i \in 1 .. n : scan[i] \in keys
  <2> HIDE DEF keys, scan, n
  <2>1. scan \in [1 .. n -> keys]
    BY <1>6, LenProperties
  <2> QED
    BY <2>1
<1>8. PICK i \in DOMAIN list : list[i] = x
  <2> HIDE DEF list
  <2> QED
    BY DEF Has, list
<1>9. scan[i] \in keys /\ scan[i][2] = x
  <2> HIDE DEF keys, scan, list, n
  <2> QED
    BY <1>1, <1>7, <1>8
<1>10. PICK s \in within : scan[i] = <<s.start, s.trace>>
  <2> HIDE DEF scan
  <2> QED
    BY <1>9
<1> HIDE DEF scan
<1> QED
  BY <1>9, <1>10

\* Every entry of the duration scan is the trace of a span of the duration.
LEMMA DurationScanOnly ==
  ASSUME RTyped, NEW q, NEW x, Has(DurationScan(q), x)
  PROVE  \E s \in OfDuration(q) : s.trace = x
<1> DEFINE spans == OfDuration(q)
           ids == {s.trace : s \in spans}
           R == ByTrace(ids)
           list == DurationScan(q)
           n == Cardinality(ids)
<1>1. spans \subseteq Live
  BY DEF OfDuration
<1>2. IsFiniteSet(spans) /\ \A s \in spans : s.trace \in Nat
  <2> HIDE DEF spans
  <2> QED
    BY <1>1, LiveTyped, Parts
<1>3. IsFiniteSet(ids) /\ ids \subseteq Nat
  <2> DEFINE f == [t \in spans |-> t.trace]
  <2>1. DOMAIN f = spans /\ f = [t \in spans |-> f[t]] /\ ids = {f[t] : t \in spans}
    OBVIOUS
  <2>2. ids \subseteq Nat
    BY <1>2
  <2> HIDE DEF f, ids, spans
  <2> QED
    BY <1>2, <2>1, <2>2, Images
<1>4. list = InOrder(ids, R)
  BY DEF DurationScan
<1> HIDE DEF spans
<1>5. list \in Seq(ids) /\ Len(list) = n /\ n \in Nat
  <2>1. StrictOrder(ids, R)
    BY <1>3, IdsOrdered
  <2> HIDE DEF ids, R, list
  <2> QED
    BY <1>3, <1>4, <2>1, InOrderIs
<1>6. x \in ids
  <2> HIDE DEF ids, n, list
  <2>1. list \in [1 .. n -> ids]
    BY <1>5, LenProperties
  <2> QED
    BY <2>1 DEF Has, list
<1> QED
  BY <1>6 DEF spans

\* What a cut list has, the list has, and it is no longer than the limit.
LEMMA CutOnly ==
  ASSUME NEW l \in Seq(Nat), NEW limit \in Nat
  PROVE  LET c == SubSeq(l, 1, IF limit < Len(l) THEN limit ELSE Len(l))
         IN  Len(c) <= limit /\ \A x : Has(c, x) => Has(l, x)
<1> DEFINE k == IF limit < Len(l) THEN limit ELSE Len(l)
           c == SubSeq(l, 1, k)
<1>1. Len(l) \in Nat /\ k \in Nat /\ k <= Len(l) /\ k <= limit
  OBVIOUS
<1> HIDE DEF k
<1>2. \A i \in 1 .. k : i \in 1 .. Len(l) /\ l[i] \in Nat
  BY <1>1
<1>3. c \in Seq(Nat) /\ Len(c) = k /\ \A i \in 1 .. k : c[i] = l[i]
  <2>1. 1 \in Int /\ k \in Int
    BY <1>1
  <2>2. /\ c \in Seq(Nat) /\ Len(c) = IF 1 <= k THEN k - 1 + 1 ELSE 0
        /\ \A i \in 1 .. k - 1 + 1 : c[i] = l[1 + i - 1]
    <3> HIDE DEF c
    <3> QED
      BY <1>2, <2>1, SubSeqProperties DEF c
  <2> HIDE DEF c
  <2>3. Len(c) = k
    BY <1>1, <2>2
  <2>4. ASSUME NEW i \in 1 .. k PROVE c[i] = l[i]
    <3>1. i \in 1 .. k - 1 + 1 /\ 1 + i - 1 = i
      BY <1>1
    <3>2. c[i] = l[1 + i - 1]
      BY <2>2, <3>1
    <3> QED
      BY <3>1, <3>2
  <2> QED
    BY <2>2, <2>3, <2>4
<1> HIDE DEF c
<1>4. DOMAIN c = 1 .. k
  BY <1>3, LenProperties
<1>5. ASSUME NEW x, Has(c, x) PROVE Has(l, x)
  <2>1. PICK i \in 1 .. k : c[i] = x
    BY <1>4, <1>5 DEF Has
  <2> QED
    BY <1>2, <1>3, <2>1, HasIt
<1> QED
  BY <1>1, <1>3, <1>5 DEF c, k

\* A reversed list has what the list has.
LEMMA ReversedOnly ==
  ASSUME NEW l \in Seq(Nat), NEW x, Has(Reverse(l), x)
  PROVE  Has(l, x)
<1> DEFINE n == Len(l)
           r == Reverse(l)
<1>1. n \in Nat
  OBVIOUS
<1>2. r = [i \in 1 .. n |-> l[(n - i) + 1]]
  BY DEF Reverse
<1> HIDE DEF n, r
<1>3. PICK i \in 1 .. n : l[(n - i) + 1] = x
  BY <1>2 DEF Has, r
<1>4. (n - i) + 1 \in 1 .. n
  BY <1>1
<1> QED
  BY <1>3, <1>4, HasIt DEF n

\* An answer has only what every list of its search has, and no more than is wanted.
LEMMA AnswerOnly ==
  ASSUME NEW q, q.limit \in Nat, NEW lists, Lists(q) = lists, Len(lists) \in Nat, Len(lists) > 0,
         \A i \in 1 .. Len(lists) : lists[i] \in Seq(Nat)
  PROVE  /\ Len(FindTraceIDs(q)) <= q.limit
         /\ \A x : Has(FindTraceIDs(q), x) => \A i \in 1 .. Len(lists) : Has(lists[i], x)
<1> DEFINE joined == IF Len(lists) = 1 THEN Reverse(lists[1]) ELSE Intersected(lists)[Len(lists)]
<1>1. FindTraceIDs(q) = SubSeq(joined, 1, IF q.limit < Len(joined) THEN q.limit ELSE Len(joined))
  BY DEF FindTraceIDs, SortMergeIds
<1>2. joined \in Seq(Nat) /\ \A x : Has(joined, x) => \A i \in 1 .. Len(lists) : Has(lists[i], x)
  <2>1. CASE Len(lists) = 1
    <3>1. lists[1] \in Seq(Nat) /\ \A i \in 1 .. Len(lists) : i = 1
      BY <2>1
    <3>2. joined = Reverse(lists[1])
      BY <2>1
    <3> HIDE DEF joined
    <3> QED
      BY <3>1, <3>2, Reversed, ReversedOnly
  <2>2. CASE Len(lists) # 1
    <3>1. joined = Intersected(lists)[Len(lists)]
      BY <2>2
    <3> HIDE DEF joined
    <3> QED
      BY <3>1, IntersectedMatches
  <2> QED
    BY <2>1, <2>2
<1> DEFINE c == SubSeq(joined, 1, IF q.limit < Len(joined) THEN q.limit ELSE Len(joined))
<1> HIDE DEF joined
<1>3. Len(c) <= q.limit /\ \A x : Has(c, x) => Has(joined, x)
  BY <1>2, CutOnly
<1> HIDE DEF c
<1>4. FindTraceIDs(q) = c
  BY <1>1 DEF c
<1> QED
  BY <1>2, <1>3, <1>4

\* The lists of a search: the service's index first, the tag's after it, the
\* duration's last.
LEMMA ListsHold ==
  ASSUME NEW q \in Query, RTyped
  PROVE  /\ Len(Lists(q)) \in Nat /\ Len(Lists(q)) > 0
         /\ \A i \in 1 .. Len(Lists(q)) : Lists(q)[i] \in Seq(Nat)
         /\ q.service # Nothing => \E i \in 1 .. Len(Lists(q)) : Lists(q)[i] = ServiceScan(q)
         /\ q.tag # Nothing => \E i \in 1 .. Len(Lists(q)) : Lists(q)[i] = TagScan(q)
         /\ q.durMin # 0 \/ q.durMax # 0 =>
              \E i \in 1 .. Len(Lists(q)) : Lists(q)[i] = DurationScan(q)
<1> DEFINE S == ServiceScan(q)
           T == TagScan(q)
           D == DurationScan(q)
           a == ServiceQueries(q)
           b == DurationQueries(q)
           E == Seq(Nat)
           c == a \o b
<1>1. S \in E /\ T \in E /\ D \in E
  <2> DEFINE ofService == {s \in Live : s.service = q.service /\ (q.op = Nothing \/ s.op = q.op)}
             ofTag == {s \in Live : s.service = q.service /\ s.tag = q.tag}
  <2>1. ofService \subseteq Live /\ ofTag \subseteq Live
    OBVIOUS
  <2>2. S = ScanIndexKeys(ofService, q) /\ T = ScanIndexKeys(ofTag, q)
    BY DEF ServiceScan, TagScan
  <2> HIDE DEF ofService, ofTag, S, T
  <2>3. /\ IsFiniteSet(ofService) /\ \A t \in ofService : t.trace \in Nat /\ t.start \in Nat
        /\ IsFiniteSet(ofTag) /\ \A t \in ofTag : t.trace \in Nat /\ t.start \in Nat
    BY <2>1, LiveTyped, Parts
  <2>4. S \in Seq(Nat) /\ T \in Seq(Nat)
    BY <2>2, <2>3, ScanFinds
  <2> QED
    BY <2>4, DurationScanFinds DEF D
<1>2. /\ q.service # Nothing /\ q.tag = Nothing => a = <<S>>
      /\ q.service # Nothing /\ q.tag # Nothing => a = <<S, T>>
      /\ q.service = Nothing => a = <<>>
      /\ q.durMin = 0 /\ q.durMax = 0 => b = <<>>
      /\ q.durMin # 0 \/ q.durMax # 0 => b = <<D>>
  BY DEF ServiceQueries, DurationQueries
<1>3. q.service = Nothing => q.tag = Nothing /\ (q.durMin # 0 \/ q.durMax # 0)
  BY QueryAssumption
<1>4. Lists(q) = c
  BY DEF Lists
<1> HIDE DEF S, T, D, E, a, b
<1>5. /\ a \in Seq(E) /\ b \in Seq(E) /\ Len(a) \in 0 .. 2 /\ Len(b) \in 0 .. 1
      /\ q.service # Nothing => Len(a) > 0 /\ a[1] = S
      /\ q.tag # Nothing => Len(a) = 2 /\ a[2] = T
      /\ q.durMin # 0 \/ q.durMax # 0 => Len(b) = 1 /\ b[1] = D
  <2> DEFINE e0 == <<>>
             e1 == <<S>>
             e2 == <<S, T>>
             d1 == <<D>>
  <2>1. /\ e0 \in Seq(E) /\ Len(e0) = 0
        /\ e1 \in Seq(E) /\ Len(e1) = 1 /\ e1[1] = S
        /\ e2 \in Seq(E) /\ Len(e2) = 2 /\ e2[1] = S /\ e2[2] = T
        /\ d1 \in Seq(E) /\ Len(d1) = 1 /\ d1[1] = D
    BY <1>1
  <2>2. /\ q.service # Nothing /\ q.tag = Nothing => a = e1
        /\ q.service # Nothing /\ q.tag # Nothing => a = e2
        /\ q.service = Nothing => a = e0
        /\ q.durMin = 0 /\ q.durMax = 0 => b = e0
        /\ q.durMin # 0 \/ q.durMax # 0 => b = d1
    BY <1>2
  <2> HIDE DEF e0, e1, e2, d1
  <2>3. /\ a \in Seq(E) /\ Len(a) \in 0 .. 2
        /\ q.service # Nothing => Len(a) > 0 /\ a[1] = S
        /\ q.tag # Nothing => Len(a) = 2 /\ a[2] = T
    <3>1. CASE q.service = Nothing
      BY <1>3, <2>1, <2>2, <3>1
    <3>2. CASE q.service # Nothing /\ q.tag = Nothing
      BY <2>1, <2>2, <3>2
    <3>3. CASE q.service # Nothing /\ q.tag # Nothing
      BY <2>1, <2>2, <3>3
    <3> QED
      BY <3>1, <3>2, <3>3
  <2>4. /\ b \in Seq(E) /\ Len(b) \in 0 .. 1
        /\ q.durMin # 0 \/ q.durMax # 0 => Len(b) = 1 /\ b[1] = D
    <3>1. CASE q.durMin = 0 /\ q.durMax = 0
      BY <2>1, <2>2, <3>1
    <3>2. CASE q.durMin # 0 \/ q.durMax # 0
      BY <2>1, <2>2, <3>2
    <3> QED
      BY <3>1, <3>2
  <2> QED
    BY <2>3, <2>4
<1>6. /\ c \in Seq(E) /\ Len(c) = Len(a) + Len(b)
      /\ \A i \in 1 .. Len(a) + Len(b) : c[i] = IF i <= Len(a) THEN a[i] ELSE b[i - Len(a)]
  BY <1>5, ConcatProperties
<1> HIDE DEF c
<1>7. Len(c) \in Nat /\ Len(c) > 0
  BY <1>3, <1>5, <1>6
<1>8. \A i \in 1 .. Len(c) : c[i] \in E
  BY <1>6
<1>9. q.service # Nothing => 1 \in 1 .. Len(c) /\ c[1] = S
  BY <1>5, <1>6
<1>10. q.tag # Nothing => 2 \in 1 .. Len(c) /\ c[2] = T
  BY <1>5, <1>6
<1>11. q.durMin # 0 \/ q.durMax # 0 => Len(c) \in 1 .. Len(c) /\ c[Len(c)] = D
  <2> SUFFICES ASSUME q.durMin # 0 \/ q.durMax # 0 PROVE Len(c) \in 1 .. Len(c) /\ c[Len(c)] = D
    OBVIOUS
  <2>1. Len(b) = 1 /\ b[1] = D /\ Len(a) \in Nat
    BY <1>5
  <2>2. Len(c) = Len(a) + 1 /\ Len(c) \in 1 .. Len(a) + Len(b) /\ ~(Len(c) <= Len(a)) /\ Len(c) - Len(a) = 1
    BY <1>6, <2>1
  <2> QED
    BY <1>6, <2>1, <2>2
<1> QED
  BY <1>4, <1>7, <1>8, <1>9, <1>10, <1>11 DEF S, T, D, E

----------------------------------------------------------------------------
(* Searches answer with no other traces                                    *)

\* The scans, the join and the cut put together.
LEMMA AnswersMeetLive ==
  ASSUME RTyped
  PROVE  AnswersMeet
<1> SUFFICES ASSUME NEW q \in Query
             PROVE  /\ Len(FindTraceIDs(q)) <= q.limit
                    /\ \A x : Has(FindTraceIDs(q), x) =>
                         /\ q.service # Nothing => \E s \in Live : s.trace = x /\ OfService(s, q)
                         /\ q.tag # Nothing => \E s \in Live : s.trace = x /\ OfTag(s, q)
                         /\ q.durMin # 0 \/ q.durMax # 0 => \E s \in OfDuration(q) : s.trace = x
  BY DEF AnswersMeet, Has
<1> DEFINE lists == Lists(q)
           ofService == {s \in Live : s.service = q.service /\ (q.op = Nothing \/ s.op = q.op)}
           ofTag == {s \in Live : s.service = q.service /\ s.tag = q.tag}
<1>1. Len(lists) \in Nat /\ Len(lists) > 0 /\ \A i \in 1 .. Len(lists) : lists[i] \in Seq(Nat)
  BY ListsHold
<1>2. /\ Len(FindTraceIDs(q)) <= q.limit
      /\ \A x : Has(FindTraceIDs(q), x) => \A i \in 1 .. Len(lists) : Has(lists[i], x)
  <2>1. q.limit \in Nat
    BY QueryAssumption
  <2>2. Lists(q) = lists
    OBVIOUS
  <2> HIDE DEF lists
  <2> QED
    BY <1>1, <2>1, <2>2, AnswerOnly
<1>3. /\ IsFiniteSet(ofService) /\ \A t \in ofService : t.trace \in Nat /\ t.start \in Nat
      /\ IsFiniteSet(ofTag) /\ \A t \in ofTag : t.trace \in Nat /\ t.start \in Nat
  <2>1. ofService \subseteq Live /\ ofTag \subseteq Live
    OBVIOUS
  <2> HIDE DEF ofService, ofTag
  <2> QED
    BY <2>1, LiveTyped, Parts
<1>4. ServiceScan(q) = ScanIndexKeys(ofService, q) /\ TagScan(q) = ScanIndexKeys(ofTag, q)
  BY DEF ServiceScan, TagScan
<1> SUFFICES ASSUME NEW x, Has(FindTraceIDs(q), x)
             PROVE  /\ q.service # Nothing => \E s \in Live : s.trace = x /\ OfService(s, q)
                    /\ q.tag # Nothing => \E s \in Live : s.trace = x /\ OfTag(s, q)
                    /\ q.durMin # 0 \/ q.durMax # 0 => \E s \in OfDuration(q) : s.trace = x
  BY <1>2
<1>5. \A i \in 1 .. Len(lists) : Has(lists[i], x)
  BY <1>2
<1>6. ASSUME q.service # Nothing PROVE \E s \in Live : s.trace = x /\ OfService(s, q)
  <2>1. Has(ServiceScan(q), x)
    BY <1>5, <1>6, ListsHold
  <2> HIDE DEF ofService
  <2>2. \E s \in ofService : InRange(s, q) /\ s.trace = x
    BY <1>3, <1>4, <2>1, ScanOnly
  <2> QED
    BY <2>2 DEF ofService, OfService
<1>7. ASSUME q.tag # Nothing PROVE \E s \in Live : s.trace = x /\ OfTag(s, q)
  <2>1. Has(TagScan(q), x)
    BY <1>5, <1>7, ListsHold
  <2> HIDE DEF ofTag
  <2>2. \E s \in ofTag : InRange(s, q) /\ s.trace = x
    BY <1>3, <1>4, <2>1, ScanOnly
  <2> QED
    BY <2>2 DEF ofTag, OfTag
<1>8. ASSUME q.durMin # 0 \/ q.durMax # 0 PROVE \E s \in OfDuration(q) : s.trace = x
  BY <1>5, <1>8, ListsHold, DurationScanOnly
<1> QED
  BY <1>6, <1>7, <1>8

\* No search answers with a trace that lacks a span for one of its criteria, or with
\* more ids than were asked for.
THEOREM SearchesMeet == Spec => []AnswersMeet
BY RowsTyped, AnswersMeetLive, PTL
=============================================================================
