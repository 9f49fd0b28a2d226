--------------------------- MODULE MemoryStoreProofs ---------------------------
(***************************************************************************)
(* Proofs about MemoryStore and the adjusters, for any spans, readers,     *)
(* limit and bounds, and traces of any length and shape.                   *)
(*                                                                         *)
(* The adjusters as functions first.  ClockSkew's recursive function is a  *)
(* solution of its equation (SkewsToEquation, by induction on the level),  *)
(* its levels agree with the tree (EveryLevelGood), so an adjusted trace   *)
(* fits (AdjustedFits) and a trace that fits is left alone (AdjustOnce).   *)
(* SpanIDDeduper finds a new id for each shared one (UniqueSpanIDExists)   *)
(* and leaves a trace without shared ids alone (DedupeOnce).               *)
(*                                                                         *)
(* Then their passes, statement by statement.  Deduping and Skewing say    *)
(* how far a pass that is alone has got with the trace it began with; in   *)
(* the end that is DedupeSpanIDs or AdjustClockSkew of it (LoopsEnd,       *)
(* SkewingEnds).  Last the store: SInv says what the object under a pass   *)
(* can be between any two steps, whoever else is at it, and RInv that the  *)
(* ring and the map lead to the same, the newest, objects.                 *)
(*                                                                         *)
(* Induction is on numbers, over a set: LeastNatural is the well-founded   *)
(* induction of the library for < on Nat, Induct its usual form.           *)
(***************************************************************************)
EXTENDS MemoryStore, TLAPS, FiniteSetTheorems, WellFoundedInduction, SequenceTheorems

Trace == Seq(SpanRecord)

\* A set of numbers has a least one.
LEMMA LeastNatural ==
  ASSUME NEW S, S \subseteq Nat, S # {}
  PROVE  \E n \in S : \A m \in S : n <= m
<1> DEFINE R == OpToRel(<, Nat)
<1>1. IsWellFoundedOn(R, Nat)
  BY NatLessThanWellFounded
<1>2. \A m, n \in Nat : m < n => <<m, n>> \in R
  BY DEF OpToRel
<1> HIDE DEF R
<1>3. PICK n \in S : \A m \in S : <<m, n>> \notin R
  BY <1>1, WFMin
<1>4. ASSUME NEW m \in S PROVE n <= m
  <2>1. m \in Nat /\ n \in Nat /\ ~(m < n)
    BY <1>2, <1>3
  <2> QED
    BY <2>1
<1> QED
  BY <1>4

\* What holds at 0, and at n + 1 when it holds at n, holds at every number.
LEMMA Induct ==
  ASSUME NEW S, S \subseteq Nat, 0 \in S, \A n \in S : n + 1 \in S
  PROVE  S = Nat
<1> SUFFICES ASSUME Nat \ S # {} PROVE FALSE
  OBVIOUS
<1>1. PICK n \in Nat \ S : \A m \in Nat \ S : n <= m
  BY LeastNatural
<1>2. n # 0 /\ n - 1 \in S
  BY <1>1
<1> QED
  BY <1>1, <1>2

\* A function on 1 .. n is a sequence of n elements.
LEMMA SequenceOf ==
  ASSUME NEW S, NEW n \in Nat, NEW f \in [1 .. n -> S]
  PROVE  f \in Seq(S) /\ Len(f) = n
BY SeqDef, LenProperties

-----------------------------------------------------------------------------
(* The tree of a trace                                                     *)

\* No two nodes of the tree share an id.
LEMMA NodesApart ==
  ASSUME NEW tr \in Trace, NEW p \in Nodes(tr), NEW q \in Nodes(tr), tr[p].id = tr[q].id
  PROVE  p = q
<1>1. p \in 1 .. Len(tr) /\ q \in 1 .. Len(tr) /\ Len(tr) \in Nat
  BY DEF Nodes, Trace
<1>2. ~(p < q) /\ ~(q < p)
  BY <1>1 DEF Nodes
<1> QED
  BY <1>1, <1>2

\* A node below a root has one parent.
LEMMA OneParent ==
  ASSUME NEW tr \in Trace, NEW i \in Nodes(tr) \ Roots(tr)
  PROVE  \E p \in Nodes(tr) : ParentNodes(tr, i) = {p}
<1>1. PICK p : p \in ParentNodes(tr, i)
  BY DEF Roots
<1>2. ASSUME NEW q \in ParentNodes(tr, i) PROVE q = p
  BY <1>1, NodesApart DEF ParentNodes
<1> QED
  BY <1>1, <1>2 DEF ParentNodes

\* Two traces with the same tree: only starts and the like differ.
SameTree(tr, ur) ==
  /\ Len(tr) = Len(ur)
  /\ \A i \in DOMAIN tr : tr[i].id = ur[i].id /\ tr[i].parent = ur[i].parent

\* Traces that differ in times only have the same tree.
LEMMA SameNodes ==
  ASSUME NEW tr \in Trace, NEW ur \in Trace, SameTree(tr, ur)
  PROVE  /\ Nodes(tr) = Nodes(ur) /\ Roots(tr) = Roots(ur)
         /\ \A i \in Nodes(tr) : ParentNodes(tr, i) = ParentNodes(ur, i)
<1>1. DOMAIN tr = 1 .. Len(tr) /\ DOMAIN ur = DOMAIN tr /\ Len(tr) \in Nat
  BY DEF SameTree, Trace
<1>2. Nodes(tr) = Nodes(ur)
  BY <1>1 DEF Nodes, SameTree
<1>3. \A i \in Nodes(tr) : ParentNodes(tr, i) = ParentNodes(ur, i)
  BY <1>1, <1>2 DEF ParentNodes, SameTree, Nodes
<1>4. Roots(tr) = Roots(ur)
  BY <1>1, <1>2, <1>3 DEF Roots, SameTree, Nodes
<1> QED
  BY <1>2, <1>3, <1>4

-----------------------------------------------------------------------------
(* The recursive function of the skews                                     *)

\* The equation of SkewsTo, on the levels up to m.
SolvesTo(tr, m, f) ==
  f = [n \in 0 .. m |-> IF n = 0 THEN RootSkews(tr) ELSE SkewsBelow(tr, f[n - 1])]

\* The recursion over the levels of a trace has a solution to every level.
LEMMA SkewsExist ==
  ASSUME NEW tr
  PROVE  \A m \in Nat : \E f : SolvesTo(tr, m, f)
<1> DEFINE S == {m \in Nat : \E f : SolvesTo(tr, m, f)}
<1>1. 0 \in S
  <2>1. SolvesTo(tr, 0, [n \in 0 .. 0 |-> RootSkews(tr)])
    BY DEF SolvesTo
  <2> QED
    BY <2>1
<1>2. ASSUME NEW m \in S PROVE m + 1 \in S
  <2>1. PICK f : SolvesTo(tr, m, f)
    OBVIOUS
  <2> DEFINE g == [n \in 0 .. m + 1 |-> IF n = m + 1 THEN SkewsBelow(tr, f[m]) ELSE f[n]]
  <2>2. ASSUME NEW n \in 0 .. m + 1
        PROVE  g[n] = IF n = 0 THEN RootSkews(tr) ELSE SkewsBelow(tr, g[n - 1])
    <3>1. CASE n = m + 1
      BY <3>1
    <3>2. CASE n # m + 1
      <4>1. n \in 0 .. m /\ g[n] = f[n] /\ (n # 0 => g[n - 1] = f[n - 1])
        BY <3>2
      <4> QED
        BY <2>1, <4>1 DEF SolvesTo
    <3> QED
      BY <3>1, <3>2
  <2>3. SolvesTo(tr, m + 1, g)
    BY <2>2 DEF SolvesTo
  <2> QED
    BY <2>3
<1>3. S = Nat
  <2> HIDE DEF S
  <2>1. S \subseteq Nat
    BY DEF S
  <2> QED
    BY <1>1, <1>2, <2>1, Induct
<1> QED
  BY <1>3

\* SkewsTo is such a solution.
LEMMA SkewsToEquation ==
  ASSUME NEW tr \in Trace
  PROVE  SolvesTo(tr, Len(tr), SkewsTo(tr))
<1>1. \E f : SolvesTo(tr, Len(tr), f)
  BY SkewsExist DEF Trace
<1>2. SkewsTo(tr) = CHOOSE f : SolvesTo(tr, Len(tr), f)
  BY DEF SkewsTo, SolvesTo
<1> QED
  BY <1>1, <1>2

\* The levels by number.
LEMMA Levels ==
  ASSUME NEW tr \in Trace
  PROVE  /\ SkewsTo(tr)[0] = RootSkews(tr)
         /\ \A n \in 0 .. Len(tr) - 1 : SkewsTo(tr)[n + 1] = SkewsBelow(tr, SkewsTo(tr)[n])
<1>1. Len(tr) \in Nat
  BY DEF Trace
<1>2. \A n \in 0 .. Len(tr) :
        SkewsTo(tr)[n] = IF n = 0 THEN RootSkews(tr) ELSE SkewsBelow(tr, SkewsTo(tr)[n - 1])
  BY SkewsToEquation DEF SolvesTo
<1>3. SkewsTo(tr)[0] = RootSkews(tr)
  BY <1>1, <1>2
<1>4. ASSUME NEW n \in 0 .. Len(tr) - 1
      PROVE  SkewsTo(tr)[n + 1] = SkewsBelow(tr, SkewsTo(tr)[n])
  <2>1. n + 1 \in 0 .. Len(tr) /\ n + 1 # 0 /\ (n + 1) - 1 = n
    BY <1>1
  <2> QED
    BY <1>2, <2>1
<1> QED
  BY <1>3, <1>4

-----------------------------------------------------------------------------
(* What the skews are                                                      *)

\* The skews s of some nodes of a trace agree: a root has none, another node has its
\* parent's or, on another host, the one that puts it into its parent.
Agrees(tr, s, i) ==
  /\ ParentNodes(tr, i) \subseteq DOMAIN s
  /\ \A p \in ParentNodes(tr, i) :
       s[i].delta = IF OtherHost(tr[i], tr[p].host)
                    THEN CalculateSkew(tr[i], Shift(tr[p], s[p].delta))
                    ELSE s[p].delta

GoodSkews(tr, s) ==
  /\ Roots(tr) \subseteq DOMAIN s /\ DOMAIN s \subseteq Nodes(tr)
  /\ \A i \in DOMAIN s : s[i].host = tr[i].host /\ s[i].delta \in Int
  /\ \A i \in Roots(tr) : s[i].delta = 0
  /\ \A i \in DOMAIN s \ Roots(tr) : Agrees(tr, s, i)

\* A skew is a number.
LEMMA SkewTyped ==
  ASSUME NEW child \in SpanRecord, NEW parent \in SpanRecord, NEW delta \in Int
  PROVE  CalculateSkew(child, Shift(parent, delta)) \in Int
BY DEF SpanRecord, CalculateSkew, Shift, FitsIn, End

\* The roots are not shifted.
LEMMA RootsGood ==
  ASSUME NEW tr \in Trace
  PROVE  GoodSkews(tr, RootSkews(tr))
BY DEF GoodSkews, RootSkews, Roots

\* A node is a position of the trace.
LEMMA NodesInTrace ==
  ASSUME NEW tr \in Trace, NEW i \in Nodes(tr)
  PROVE  i \in DOMAIN tr /\ tr[i] \in SpanRecord
BY DEF Nodes, Trace

\* A level of shifts follows from the level above it.
LEMMA BelowGood ==
  ASSUME NEW tr \in Trace, NEW s, GoodSkews(tr, s)
  PROVE  GoodSkews(tr, SkewsBelow(tr, s))
<1> DEFINE below == {i \in Nodes(tr) \ Roots(tr) : ParentNodes(tr, i) \subseteq DOMAIN s}
           t == SkewsBelow(tr, s)
<1>1. /\ DOMAIN t = DOMAIN s \cup below
      /\ \A i \in DOMAIN s : t[i] = s[i]
      /\ \A i \in below \ DOMAIN s : t[i] = SkewBelow(tr, s, i)
  BY DEF SkewsBelow
<1> HIDE DEF t
<1>2. ASSUME NEW i \in below \ DOMAIN s
      PROVE  t[i].host = tr[i].host /\ t[i].delta \in Int /\ Agrees(tr, t, i)
  <2>1. PICK p \in Nodes(tr) : ParentNodes(tr, i) = {p}
    BY OneParent
  <2>2. p \in DOMAIN s /\ t[p] = s[p] /\ s[p].host = tr[p].host /\ s[p].delta \in Int
    BY <1>1, <2>1 DEF GoodSkews
  <2>3. t[i] = IF OtherHost(tr[i], tr[p].host)
               THEN [host |-> tr[i].host,
                     delta |-> CalculateSkew(tr[i], Shift(tr[p], s[p].delta))]
               ELSE s[p]
    BY <1>1, <2>1, <2>2 DEF SkewBelow
  <2>4. tr[i] \in SpanRecord /\ tr[p] \in SpanRecord
    BY NodesInTrace
  <2>5. CASE OtherHost(tr[i], tr[p].host)
    <3>1. CalculateSkew(tr[i], Shift(tr[p], s[p].delta)) \in Int
      BY <2>2, <2>4, SkewTyped
    <3>2. /\ t[i].host = tr[i].host
          /\ t[i].delta = CalculateSkew(tr[i], Shift(tr[p], s[p].delta))
      BY <2>3, <2>5
    <3> QED
      BY <1>1, <2>1, <2>2, <2>5, <3>1, <3>2 DEF Agrees
  <2>6. CASE ~OtherHost(tr[i], tr[p].host)
    <3>1. tr[i].host = tr[p].host
      BY <2>6 DEF OtherHost
    <3>2. t[i] = s[p]
      BY <2>3, <2>6
    <3> QED
      BY <1>1, <2>1, <2>2, <2>6, <3>1, <3>2 DEF Agrees
  <2> QED
    BY <2>5, <2>6
<1>3. ASSUME NEW i \in DOMAIN s \ Roots(tr) PROVE Agrees(tr, t, i)
  BY <1>1 DEF GoodSkews, Agrees
<1>4. Roots(tr) \subseteq DOMAIN t /\ DOMAIN t \subseteq Nodes(tr)
  BY <1>1 DEF GoodSkews
<1>5. \A i \in DOMAIN t : t[i].host = tr[i].host /\ t[i].delta \in Int
  BY <1>1, <1>2 DEF GoodSkews
<1>6. \A i \in Roots(tr) : t[i].delta = 0
  BY <1>1 DEF GoodSkews
<1>7. \A i \in DOMAIN t \ Roots(tr) : Agrees(tr, t, i)
  BY <1>1, <1>2, <1>3
<1> QED
  BY <1>4, <1>5, <1>6, <1>7 DEF GoodSkews, t

\* So every level of shifts agrees with the tree.
LEMMA EveryLevelGood ==
  ASSUME NEW tr \in Trace
  PROVE  \A n \in 0 .. Len(tr) : GoodSkews(tr, SkewsTo(tr)[n])
<1> DEFINE S == {n \in Nat : n <= Len(tr) => GoodSkews(tr, SkewsTo(tr)[n])}
<1>1. Len(tr) \in Nat
  BY DEF Trace
<1>2. 0 \in S
  <2>1. GoodSkews(tr, SkewsTo(tr)[0])
    BY RootsGood, Levels
  <2> QED
    BY <2>1
<1>3. ASSUME NEW n \in S PROVE n + 1 \in S
  <2>1. CASE n + 1 <= Len(tr)
    <3>1. n \in 0 .. Len(tr) - 1 /\ GoodSkews(tr, SkewsTo(tr)[n])
      BY <1>1, <2>1
    <3>2. GoodSkews(tr, SkewsTo(tr)[n + 1])
      BY <3>1, BelowGood, Levels
    <3> QED
      BY <3>2
  <2> QED
    BY <2>1
<1>4. S = Nat
  <2> HIDE DEF S
  <2>1. S \subseteq Nat
    BY DEF S
  <2> QED
    BY <1>2, <1>3, <2>1, Induct
<1> QED
  BY <1>1, <1>4

\* And so do the shifts that the adjuster uses.
LEMMA SkewsGood ==
  ASSUME NEW tr \in Trace
  PROVE  GoodSkews(tr, Skews(tr))
<1>1. Len(tr) \in 0 .. Len(tr)
  BY DEF Trace
<1> QED
  BY <1>1, EveryLevelGood DEF Skews

\* Which nodes are reached depends on the tree only.
LEMMA SameReach ==
  ASSUME NEW tr \in Trace, NEW ur \in Trace, SameTree(tr, ur)
  PROVE  DOMAIN Skews(tr) = DOMAIN Skews(ur)
<1> DEFINE S == {n \in Nat : n <= Len(tr) =>
                   DOMAIN SkewsTo(tr)[n] = DOMAIN SkewsTo(ur)[n]}
<1>1. Len(tr) \in Nat /\ Len(ur) = Len(tr)
  BY DEF Trace, SameTree
<1>2. 0 \in S
  <2>1. DOMAIN SkewsTo(tr)[0] = DOMAIN SkewsTo(ur)[0]
    BY SameNodes, Levels DEF RootSkews
  <2> QED
    BY <2>1
<1>3. ASSUME NEW n \in S PROVE n + 1 \in S
  <2>1. CASE n + 1 <= Len(tr)
    <3> DEFINE s == SkewsTo(tr)[n]
               t == SkewsTo(ur)[n]
    <3>1. n \in 0 .. Len(tr) - 1 /\ DOMAIN s = DOMAIN t
      BY <1>1, <2>1
    <3>2. SkewsTo(tr)[n + 1] = SkewsBelow(tr, s) /\ SkewsTo(ur)[n + 1] = SkewsBelow(ur, t)
      BY <1>1, <3>1, Levels
    <3> HIDE DEF s, t
    <3>3. DOMAIN SkewsBelow(tr, s) = DOMAIN SkewsBelow(ur, t)
      BY <3>1, SameNodes DEF SkewsBelow
    <3> QED
      BY <3>2, <3>3
  <2> QED
    BY <2>1
<1>4. S = Nat
  <2> HIDE DEF S
  <2>1. S \subseteq Nat
    BY DEF S
  <2> QED
    BY <1>2, <1>3, <2>1, Induct
<1> QED
  BY <1>1, <1>4 DEF Skews

-----------------------------------------------------------------------------
(* ClockSkew                                                               *)

\* ClockSkew moves spans and changes nothing else.
LEMMA AdjustMoves ==
  ASSUME NEW tr \in Trace
  PROVE  /\ AdjustClockSkew(tr) \in Trace
         /\ Len(AdjustClockSkew(tr)) = Len(tr)
         /\ \A i \in DOMAIN tr :
              \E d \in Int :
                /\ d = IF i \in DOMAIN Skews(tr) THEN Skews(tr)[i].delta ELSE 0
                /\ AdjustClockSkew(tr)[i] = Shift(tr[i], d)
<1> DEFINE skews == Skews(tr)
           ur == AdjustClockSkew(tr)
<1>1. Len(tr) \in Nat /\ DOMAIN tr = 1 .. Len(tr) /\ \A i \in DOMAIN tr : tr[i] \in SpanRecord
  BY DEF Trace
<1>2. \A i \in DOMAIN skews : skews[i].delta \in Int
  BY SkewsGood DEF GoodSkews
<1>3. ur = [i \in 1 .. Len(tr) |-> IF i \in DOMAIN skews THEN Shift(tr[i], skews[i].delta) ELSE tr[i]]
  BY <1>1 DEF AdjustClockSkew
<1> HIDE DEF skews, ur
<1>4. ASSUME NEW rec \in SpanRecord, NEW d \in Int
      PROVE  Shift(rec, d) \in SpanRecord /\ (d = 0 => Shift(rec, d) = rec)
  BY DEF SpanRecord, Shift
<1>5. ASSUME NEW i \in DOMAIN tr
      PROVE  \E d \in Int :
                /\ d = IF i \in DOMAIN skews THEN skews[i].delta ELSE 0
                /\ ur[i] = Shift(tr[i], d)
  <2>1. CASE i \in DOMAIN skews
    BY <1>1, <1>2, <1>3, <2>1
  <2>2. CASE i \notin DOMAIN skews
    <3>1. ur[i] = tr[i] /\ Shift(tr[i], 0) = tr[i]
      BY <1>1, <1>3, <1>4, <2>2
    <3> QED
      BY <2>2, <3>1
  <2> QED
    BY <2>1, <2>2
<1>6. \A i \in 1 .. Len(tr) : ur[i] \in SpanRecord
  BY <1>1, <1>4, <1>5
<1>7. ur \in [1 .. Len(tr) -> SpanRecord]
  BY <1>3, <1>6
<1>8. ur \in Seq(SpanRecord) /\ Len(ur) = Len(tr)
  BY <1>1, <1>7, SequenceOf
<1> QED
  BY <1>5, <1>8 DEF Trace, ur, skews

\* The adjuster moves start times and nothing else.
LEMMA AdjustKeepsTree ==
  ASSUME NEW tr \in Trace
  PROVE  /\ SameTree(tr, AdjustClockSkew(tr))
         /\ \A i \in DOMAIN tr :
              /\ AdjustClockSkew(tr)[i].host = tr[i].host
              /\ AdjustClockSkew(tr)[i].kind = tr[i].kind
              /\ AdjustClockSkew(tr)[i].dur = tr[i].dur
<1>1. \A i \in DOMAIN tr : tr[i] \in SpanRecord
  BY DEF Trace
<1>2. ASSUME NEW rec \in SpanRecord, NEW d \in Int
      PROVE  /\ Shift(rec, d).id = rec.id /\ Shift(rec, d).parent = rec.parent
             /\ Shift(rec, d).host = rec.host /\ Shift(rec, d).kind = rec.kind
             /\ Shift(rec, d).dur = rec.dur
  BY DEF SpanRecord, Shift
<1>3. ASSUME NEW i \in DOMAIN tr
      PROVE  /\ AdjustClockSkew(tr)[i].id = tr[i].id /\ AdjustClockSkew(tr)[i].parent = tr[i].parent
             /\ AdjustClockSkew(tr)[i].host = tr[i].host /\ AdjustClockSkew(tr)[i].kind = tr[i].kind
             /\ AdjustClockSkew(tr)[i].dur = tr[i].dur
  BY <1>1, <1>2, AdjustMoves
<1> QED
  BY <1>3, AdjustMoves DEF SameTree

\* The arithmetic of calculateSkew: the child it has moved fits.
LEMMA SkewPutsInto ==
  ASSUME NEW child \in SpanRecord, NEW parent \in SpanRecord,
         NEW moved, moved = Shift(child, CalculateSkew(child, parent))
  PROVE  IF moved.dur > parent.dur THEN moved.start >= parent.start
         ELSE FitsIn(moved, parent)
<1> DEFINE d == CalculateSkew(child, parent)
<1>1. /\ child.start \in Int /\ child.dur \in Int /\ parent.start \in Int /\ parent.dur \in Int
      /\ moved.dur = child.dur /\ moved.start = child.start + d
  BY DEF SpanRecord, Shift
<1>2. CASE child.dur > parent.dur
  BY <1>1, <1>2 DEF CalculateSkew
<1>3. CASE ~(child.dur > parent.dur) /\ FitsIn(child, parent)
  <2>1. d = 0
    BY <1>3 DEF CalculateSkew
  <2> QED
    BY <1>1, <1>3, <2>1 DEF FitsIn, End
<1>4. CASE ~(child.dur > parent.dur) /\ ~FitsIn(child, parent)
  <2>1. d = parent.start + (parent.dur - child.dur) \div 2 - child.start
    BY <1>4 DEF CalculateSkew
  <2> DEFINE half == (parent.dur - child.dur) \div 2
  <2>2. half \in Int /\ 0 <= half /\ half <= parent.dur - child.dur
    BY <1>1, <1>4
  <2>3. moved.start = parent.start + half
    BY <1>1, <2>1, <2>2
  <2> HIDE DEF half
  <2> QED
    BY <1>1, <1>4, <2>2, <2>3 DEF FitsIn, End
<1> QED
  BY <1>2, <1>3, <1>4

\* After ClockSkew every span that was compared with its parent fits it.
LEMMA AdjustedFits ==
  ASSUME NEW tr \in Trace
  PROVE  ChildrenFit(AdjustClockSkew(tr))
<1> DEFINE ur == AdjustClockSkew(tr)
<1>1. ur \in Trace /\ SameTree(tr, ur) /\ DOMAIN ur = DOMAIN tr
  BY AdjustMoves, AdjustKeepsTree DEF Trace
<1>2. \A i \in DOMAIN tr : ur[i].host = tr[i].host /\ ur[i].dur = tr[i].dur
  BY AdjustKeepsTree
<1>3. \A i \in DOMAIN tr : i \in DOMAIN Skews(tr) => ur[i] = Shift(tr[i], Skews(tr)[i].delta)
  BY AdjustMoves
<1>4. /\ DOMAIN Skews(ur) = DOMAIN Skews(tr) /\ Roots(ur) = Roots(tr)
      /\ \A i \in Nodes(tr) : ParentNodes(ur, i) = ParentNodes(tr, i)
  BY <1>1, SameReach, SameNodes
<1> HIDE DEF ur
<1>5. ASSUME NEW i \in DOMAIN Skews(tr) \ Roots(tr), NEW p \in ParentNodes(tr, i),
             OtherHost(ur[i], ur[p].host)
      PROVE  IF ur[i].dur > ur[p].dur THEN ur[i].start >= ur[p].start ELSE FitsIn(ur[i], ur[p])
  <2>1. /\ i \in Nodes(tr) /\ p \in Nodes(tr) /\ p \in DOMAIN Skews(tr)
        /\ Agrees(tr, Skews(tr), i) /\ Skews(tr)[p].delta \in Int
    BY SkewsGood DEF GoodSkews, Agrees, ParentNodes
  <2>2. i \in DOMAIN tr /\ p \in DOMAIN tr /\ tr[i] \in SpanRecord /\ ur[p] \in SpanRecord
    BY <1>1, <2>1, NodesInTrace DEF Trace
  <2>3. OtherHost(tr[i], tr[p].host)
    BY <1>2, <1>5, <2>2 DEF OtherHost
  <2>4. ur[p] = Shift(tr[p], Skews(tr)[p].delta)
    BY <1>3, <2>1, <2>2
  <2>5. Skews(tr)[i].delta = CalculateSkew(tr[i], ur[p])
    BY <2>1, <2>3, <2>4 DEF Agrees
  <2>6. ur[i] = Shift(tr[i], CalculateSkew(tr[i], ur[p]))
    BY <1>3, <2>2, <2>5
  <2> QED
    BY <2>2, <2>6, SkewPutsInto
<1>6. \A i \in DOMAIN Skews(tr) \ Roots(tr) : i \in Nodes(tr)
  BY SkewsGood DEF GoodSkews
<1> QED
  BY <1>4, <1>5, <1>6 DEF ChildrenFit, ur

\* A level keeps what the levels above it have.
LEMMA LevelsGrow ==
  ASSUME NEW tr \in Trace, NEW n \in 0 .. Len(tr)
  PROVE  \A i \in DOMAIN SkewsTo(tr)[n] : i \in DOMAIN Skews(tr)
<1> DEFINE f == SkewsTo(tr)
           S == {k \in Nat : n + k <= Len(tr) => DOMAIN f[n] \subseteq DOMAIN f[n + k]}
<1>1. Len(tr) \in Nat /\ n \in Nat
  BY DEF Trace
<1>2. 0 \in S
  BY <1>1
<1>3. ASSUME NEW k \in S PROVE k + 1 \in S
  <2>1. CASE n + k + 1 <= Len(tr)
    <3>1. n + k \in 0 .. Len(tr) - 1 /\ DOMAIN f[n] \subseteq DOMAIN f[n + k]
      BY <1>1, <2>1
    <3>2. f[n + k + 1] = SkewsBelow(tr, f[n + k])
      BY <3>1, Levels
    <3> HIDE DEF f
    <3>3. DOMAIN f[n + k] \subseteq DOMAIN f[n + k + 1]
      BY <3>2 DEF SkewsBelow
    <3>4. n + (k + 1) = n + k + 1
      BY <1>1
    <3> QED
      BY <3>1, <3>3, <3>4
  <2>2. n + (k + 1) = n + k + 1
    BY <1>1
  <2> QED
    BY <2>1, <2>2
<1>4. S = Nat
  <2> HIDE DEF S
  <2>1. S \subseteq Nat
    BY DEF S
  <2> QED
    BY <1>2, <1>3, <2>1, Induct
<1>5. Len(tr) - n \in Nat /\ n + (Len(tr) - n) = Len(tr)
  BY <1>1
<1>6. DOMAIN f[n] \subseteq DOMAIN f[n + (Len(tr) - n)]
  <2>1. Len(tr) - n \in S
    BY <1>4, <1>5
  <2> QED
    BY <1>1, <1>5, <2>1
<1> QED
  BY <1>5, <1>6 DEF Skews

\* When every child fits, no node is to be moved.
LEMMA NothingToMove ==
  ASSUME NEW tr \in Trace, ChildrenFit(tr)
  PROVE  \A i \in DOMAIN Skews(tr) : Skews(tr)[i].delta = 0
<1> DEFINE f == SkewsTo(tr)
           S == {n \in Nat : n <= Len(tr) => \A i \in DOMAIN f[n] : f[n][i].delta = 0}
<1>1. Len(tr) \in Nat
  BY DEF Trace
<1>2. 0 \in S
  <2>1. f[0] = RootSkews(tr)
    BY Levels
  <2>2. \A i \in DOMAIN RootSkews(tr) : RootSkews(tr)[i].delta = 0
    BY DEF RootSkews
  <2> HIDE DEF f
  <2>3. \A i \in DOMAIN f[0] : f[0][i].delta = 0
    BY <2>1, <2>2
  <2> QED
    BY <2>3
<1>3. ASSUME NEW n \in S PROVE n + 1 \in S
  <2>1. ASSUME n + 1 <= Len(tr), NEW i \in DOMAIN f[n + 1] PROVE f[n + 1][i].delta = 0
    <3>1. n \in 0 .. Len(tr) - 1 /\ \A j \in DOMAIN f[n] : f[n][j].delta = 0
      BY <1>1, <2>1
    <3>2. f[n + 1] = SkewsBelow(tr, f[n])
      BY <3>1, Levels
    <3>3. GoodSkews(tr, f[n]) /\ GoodSkews(tr, f[n + 1]) /\ i \in DOMAIN Skews(tr)
      BY <1>1, <3>1, <2>1, EveryLevelGood, LevelsGrow
    <3> HIDE DEF f
    <3>4. CASE i \in DOMAIN f[n]
      BY <3>1, <3>2, <3>4 DEF SkewsBelow
    <3>5. CASE i \in Roots(tr)
      BY <3>3, <3>5 DEF GoodSkews
    <3>6. CASE i \notin DOMAIN f[n] /\ i \notin Roots(tr)
      <4>1. /\ i \in Nodes(tr) \ Roots(tr) /\ Agrees(tr, f[n + 1], i)
            /\ ParentNodes(tr, i) \subseteq DOMAIN f[n]
        BY <2>1, <3>2, <3>3, <3>6 DEF SkewsBelow, GoodSkews
      <4>2. PICK p \in Nodes(tr) : ParentNodes(tr, i) = {p}
        BY <4>1, OneParent
      <4>3. p \in DOMAIN f[n] /\ f[n + 1][p] = f[n][p] /\ f[n][p].delta = 0
        <5>1. p \in DOMAIN f[n]
          BY <4>1, <4>2
        <5>2. SkewsBelow(tr, f[n])[p] = f[n][p]
          BY <5>1 DEF SkewsBelow
        <5> QED
          BY <3>1, <3>2, <5>1, <5>2
      <4>4. tr[i] \in SpanRecord /\ tr[p] \in SpanRecord
        BY <4>1, <4>2, NodesInTrace
      <4>5. Shift(tr[p], 0) = tr[p]
        BY <4>4 DEF SpanRecord, Shift
      <4>6. f[n + 1][i].delta = IF OtherHost(tr[i], tr[p].host) THEN CalculateSkew(tr[i], tr[p]) ELSE 0
        <5>1. f[n + 1][i].delta = IF OtherHost(tr[i], tr[p].host)
                                  THEN CalculateSkew(tr[i], Shift(tr[p], f[n + 1][p].delta))
                                  ELSE f[n + 1][p].delta
          BY <4>1, <4>2 DEF Agrees
        <5>2. f[n + 1][p].delta = 0
          BY <4>3
        <5> QED
          BY <4>5, <5>1, <5>2
      <4>7. CASE OtherHost(tr[i], tr[p].host)
        <5>1. IF tr[i].dur > tr[p].dur THEN tr[i].start >= tr[p].start ELSE FitsIn(tr[i], tr[p])
          BY <3>3, <3>6, <4>2, <4>7 DEF ChildrenFit
        <5>2. CalculateSkew(tr[i], tr[p]) = 0
          BY <4>4, <5>1 DEF SpanRecord, CalculateSkew
        <5> QED
          BY <4>6, <4>7, <5>2
      <4> QED
        BY <4>6, <4>7
    <3> QED
      BY <3>4, <3>5, <3>6
  <2> QED
    BY <2>1
<1>4. S = Nat
  <2> HIDE DEF S
  <2>1. S \subseteq Nat
    BY DEF S
  <2> QED
    BY <1>2, <1>3, <2>1, Induct
<1> QED
  BY <1>1, <1>4 DEF Skews

\* ClockSkew does nothing the second time.
LEMMA AdjustOnce ==
  ASSUME NEW tr \in Trace, ChildrenFit(tr)
  PROVE  AdjustClockSkew(tr) = tr
<1>1. \A i \in DOMAIN Skews(tr) : Skews(tr)[i].delta = 0
  BY NothingToMove
<1>2. \A i \in DOMAIN tr : Shift(tr[i], 0) = tr[i]
  <2>1. \A rec \in SpanRecord : Shift(rec, 0) = rec
    BY DEF SpanRecord, Shift
  <2> QED
    BY <2>1 DEF Trace
<1>3. AdjustClockSkew(tr) = [i \in DOMAIN tr |-> tr[i]]
  BY <1>1, <1>2 DEF AdjustClockSkew
<1>4. tr = [i \in DOMAIN tr |-> tr[i]]
  BY DEF Trace
<1> QED
  BY <1>3, <1>4

\* A trace that is adjusted fits, and a trace that fits is left as it is.
LEMMA AdjustTwice ==
  ASSUME NEW tr \in Trace
  PROVE  AdjustClockSkew(AdjustClockSkew(tr)) = AdjustClockSkew(tr)
BY AdjustMoves, AdjustedFits, AdjustOnce

\* There are n numbers from 1 to n.
LEMMA FirstNumbers ==
  ASSUME NEW n \in Nat
  PROVE  IsFiniteSet(1 .. n) /\ Cardinality(1 .. n) = n
<1>1. /\ IsFiniteSet(1 .. n)
      /\ Cardinality(1 .. n) = IF 1 > n THEN 0 ELSE n - 1 + 1
  <2>1. 1 \in Int /\ n \in Int
    OBVIOUS
  <2> QED
    BY <2>1, FS_Interval
<1> QED
  BY <1>1

\* A trace has no more ids than spans.
LEMMA IDsFinite ==
  ASSUME NEW S, NEW tr \in Seq(S)
  PROVE  IsFiniteSet(IDs(tr)) /\ Cardinality(IDs(tr)) <= Len(tr) /\ Cardinality(IDs(tr)) \in Nat
<1> DEFINE f == [i \in 1 .. Len(tr) |-> tr[i].id]
<1>1. Len(tr) \in Nat /\ DOMAIN tr = 1 .. Len(tr)
  OBVIOUS
<1>2. \A x \in IDs(tr) : \E i \in 1 .. Len(tr) : f[i] = x
  BY <1>1 DEF IDs
<1>3. f \in [1 .. Len(tr) -> IDs(tr)]
  BY <1>1 DEF IDs
<1>4. f \in Surjection(1 .. Len(tr), IDs(tr))
  BY <1>2, <1>3 DEF Surjection
<1>5. IsFiniteSet(1 .. Len(tr)) /\ Cardinality(1 .. Len(tr)) = Len(tr)
  BY <1>1, FirstNumbers
<1> QED
  BY <1>4, <1>5, FS_Surjection, FS_CardinalityType

\* makeUniqueSpanID always finds an id that the trace does not have.
LEMMA UniqueSpanIDExists ==
  ASSUME NEW R, NEW tr \in Seq(R), NEW n \in Nat \ {0}
  PROVE  UniqueSpanID(tr, n) \in 1 .. Len(tr) + n /\ UniqueSpanID(tr, n) \notin IDs(tr)
<1> DEFINE Free(m) == (1 .. m) \ IDs(tr)
           S == {m \in Nat : Cardinality(Free(m)) >= n}
<1>1. Len(tr) \in Nat
  OBVIOUS
<1>2. ASSUME NEW m \in Nat
      PROVE  /\ IsFiniteSet(Free(m)) /\ Cardinality(Free(m)) \in Nat
             /\ Cardinality(Free(m)) >= m - Len(tr)
  <2>1. IsFiniteSet(1 .. m) /\ Cardinality(1 .. m) = m
    BY FirstNumbers
  <2>2. IsFiniteSet(Free(m)) /\ Cardinality(Free(m)) = m - Cardinality((1 .. m) \cap IDs(tr))
    BY <2>1, FS_Difference
  <2>3. Cardinality((1 .. m) \cap IDs(tr)) <= Len(tr) /\ Cardinality((1 .. m) \cap IDs(tr)) \in Nat
    <3>1. IsFiniteSet((1 .. m) \cap IDs(tr))
          /\ Cardinality((1 .. m) \cap IDs(tr)) <= Cardinality(IDs(tr))
      BY IDsFinite, FS_Intersection
    <3>2. Cardinality((1 .. m) \cap IDs(tr)) \in Nat
      BY <3>1, FS_CardinalityType
    <3> QED
      BY <1>1, <3>1, <3>2, IDsFinite
  <2>4. Cardinality(Free(m)) \in Nat
    BY <2>2, FS_CardinalityType
  <2> HIDE DEF Free
  <2> QED
    BY <1>1, <2>2, <2>3, <2>4
<1>3. Len(tr) + n \in S
  <2>1. Len(tr) + n \in Nat /\ (Len(tr) + n) - Len(tr) = n
    BY <1>1
  <2> HIDE DEF Free
  <2> QED
    BY <1>1, <1>2, <2>1
<1>4. PICK least \in S : \A m \in S : least <= m
  <2> HIDE DEF S
  <2>1. S \subseteq Nat /\ S # {}
    BY <1>3 DEF S
  <2> QED
    BY <2>1, LeastNatural
<1>5. least \in Nat /\ least # 0
  <2>1. Free(0) = {}
    OBVIOUS
  <2>2. Cardinality(Free(0)) = 0
    BY <2>1, FS_EmptySet
  <2>3. least \in Nat /\ Cardinality(Free(least)) >= n
    BY <1>4
  <2> HIDE DEF Free, S
  <2> QED
    BY <2>2, <2>3
<1>6. least - 1 \in Nat /\ ~(Cardinality(Free(least - 1)) >= n)
  <2>1. least - 1 \in Nat /\ ~(least <= least - 1)
    BY <1>5
  <2> HIDE DEF Free
  <2> QED
    BY <1>4, <2>1
<1>7. Free(least) = IF least \in IDs(tr) THEN Free(least - 1) ELSE Free(least - 1) \cup {least}
  <2>1. 1 .. least = (1 .. least - 1) \cup {least}
    BY <1>5
  <2> QED
    BY <2>1
<1>8. least \notin Free(least - 1)
  BY <1>5
<1>9. least \notin IDs(tr)
  <2> HIDE DEF Free
  <2> QED
    BY <1>4, <1>6, <1>7
<1>10. Cardinality(Free(least)) = Cardinality(Free(least - 1)) + 1
  <2> HIDE DEF Free
  <2> QED
    BY <1>2, <1>6, <1>7, <1>8, <1>9, FS_AddElement
<1>11. Cardinality(Free(least)) = n
  <2> HIDE DEF Free
  <2>1. Cardinality(Free(least - 1)) \in Nat /\ Cardinality(Free(least)) >= n
    BY <1>2, <1>4, <1>6
  <2> QED
    BY <1>6, <1>10, <2>1
<1>12. least \in 1 .. Len(tr) + n
  <2> HIDE DEF S
  <2>1. least <= Len(tr) + n
    BY <1>3, <1>4
  <2> QED
    BY <1>1, <1>5, <2>1
<1>13. \E id \in 1 .. Len(tr) + n : id \notin IDs(tr) /\ Cardinality((1 .. id) \ IDs(tr)) = n
  BY <1>9, <1>11, <1>12
<1> QED
  BY <1>13 DEF UniqueSpanID

\* The id given to a shared one is not in the trace.
LEMMA NewIDIsNew ==
  ASSUME NEW tr \in Trace, NEW i \in Shared(tr)
  PROVE  NewID(tr, i) \in Nat /\ NewID(tr, i) \notin IDs(tr)
<1> DEFINE upTo == {j \in Shared(tr) : j <= i}
<1>1. Len(tr) \in Nat /\ DOMAIN tr = 1 .. Len(tr)
  BY DEF Trace
<1>2. upTo \in SUBSET (1 .. Len(tr)) /\ i \in upTo
  BY <1>1 DEF Shared
<1>3. IsFiniteSet(upTo)
  BY <1>1, <1>2, FirstNumbers, FS_Subset
<1>4. Cardinality(upTo) \in Nat \ {0}
  <2> HIDE DEF upTo
  <2> QED
    BY <1>2, <1>3, FS_CardinalityType, FS_EmptySet
<1>5. NewID(tr, i) = UniqueSpanID(tr, Cardinality(upTo))
  BY DEF NewID
<1> HIDE DEF upTo
<1>6. NewID(tr, i) \in 1 .. Len(tr) + Cardinality(upTo) /\ NewID(tr, i) \notin IDs(tr)
  BY <1>4, <1>5, UniqueSpanIDExists DEF Trace
<1> QED
  BY <1>1, <1>4, <1>6

\* Of the spans in a set of positions there is a last one.
LEMMA LastPosition ==
  ASSUME NEW n \in Nat, NEW S, S \subseteq 1 .. n, S # {}
  PROVE  \E i \in S : \A j \in S : j <= i
<1> DEFINE T == {k \in Nat : \A j \in S : j <= k}
<1>1. n \in T
  OBVIOUS
<1>2. PICK k \in T : \A m \in T : k <= m
  <2> HIDE DEF T
  <2>1. T \subseteq Nat
    BY DEF T
  <2> QED
    BY <1>1, <2>1, LeastNatural
<1>3. k \in S
  <2> SUFFICES ASSUME k \notin S PROVE FALSE
    OBVIOUS
  <2>1. \A j \in S : j <= k - 1
    BY <1>2
  <2>2. PICK j \in S : TRUE
    OBVIOUS
  <2>3. j \in Nat /\ j >= 1 /\ j <= k /\ k \in Nat
    BY <1>2, <2>2
  <2>4. k - 1 \in T /\ ~(k <= k - 1)
    BY <2>1, <2>3
  <2> QED
    BY <1>2, <2>4
<1> QED
  BY <1>2, <1>3

\* What an id is changed into is an id.
LEMMA OldToNewTyped ==
  ASSUME NEW tr \in Trace, NEW id \in DOMAIN OldToNew(tr)
  PROVE  OldToNew(tr)[id] \in Nat
<1> DEFINE S == {i \in Shared(tr) : tr[i].id = id}
           P(i) == i \in Shared(tr) /\ tr[i].id = id /\ \A j \in Shared(tr) : tr[j].id = id => j <= i
           last == CHOOSE i \in Shared(tr) :
                     /\ tr[i].id = id
                     /\ \A j \in Shared(tr) : tr[j].id = id => j <= i
<1>1. Len(tr) \in Nat /\ DOMAIN tr = 1 .. Len(tr)
  BY DEF Trace
<1>2. S \subseteq 1 .. Len(tr) /\ S # {}
  BY <1>1 DEF OldToNew, Shared
<1>3. PICK i \in S : \A j \in S : j <= i
  <2> HIDE DEF S
  <2> QED
    BY <1>1, <1>2, LastPosition
<1>4. last \in Shared(tr)
  BY <1>3
<1>5. OldToNew(tr)[id] = NewID(tr, last)
  BY DEF OldToNew
<1> HIDE DEF last
<1> QED
  BY <1>4, <1>5, NewIDIsNew

-----------------------------------------------------------------------------
(* SpanIDDeduper                                                           *)

\* The deduper changes ids and parents only: the ids of the shared spans, to new ones.
LEMMA DedupeShape ==
  ASSUME NEW tr \in Trace
  PROVE  /\ DedupeSpanIDs(tr) \in Trace /\ Len(DedupeSpanIDs(tr)) = Len(tr)
         /\ \A i \in DOMAIN tr :
              /\ DedupeSpanIDs(tr)[i].kind = tr[i].kind
              /\ DedupeSpanIDs(tr)[i].id = IF i \in Shared(tr) THEN NewID(tr, i) ELSE tr[i].id
<1> DEFINE renamed == [i \in DOMAIN tr |->
                         IF i \in Shared(tr)
                         THEN [tr[i] EXCEPT !.id = NewID(tr, i), !.parent = tr[i].id]
                         ELSE tr[i]]
           new == OldToNew(tr)
           final == [i \in DOMAIN tr |->
                         IF renamed[i].parent \in DOMAIN new /\ new[renamed[i].parent] # renamed[i].id
                         THEN [renamed[i] EXCEPT !.parent = new[renamed[i].parent]]
                         ELSE renamed[i]]
<1>1. Len(tr) \in Nat /\ DOMAIN tr = 1 .. Len(tr) /\ \A i \in DOMAIN tr : tr[i] \in SpanRecord
  BY DEF Trace
<1>2. DedupeSpanIDs(tr) = final
  BY DEF DedupeSpanIDs
<1>3. \A id \in DOMAIN new : new[id] \in Nat
  BY OldToNewTyped
<1>4. ASSUME NEW i \in DOMAIN tr
      PROVE  /\ renamed[i] \in SpanRecord /\ renamed[i].kind = tr[i].kind
             /\ renamed[i].id = IF i \in Shared(tr) THEN NewID(tr, i) ELSE tr[i].id
  <2>1. CASE i \in Shared(tr)
    <3>1. NewID(tr, i) \in Nat /\ tr[i] \in SpanRecord
      BY <1>1, <2>1, NewIDIsNew
    <3>2. renamed[i] = [tr[i] EXCEPT !.id = NewID(tr, i), !.parent = tr[i].id]
      BY <2>1
    <3> HIDE DEF renamed
    <3> QED
      BY <2>1, <3>1, <3>2 DEF SpanRecord
  <2>2. CASE i \notin Shared(tr)
    BY <1>1, <2>2
  <2> QED
    BY <2>1, <2>2
<1> HIDE DEF new, renamed
<1>5. ASSUME NEW i \in DOMAIN tr
      PROVE  /\ final[i] \in SpanRecord /\ final[i].kind = renamed[i].kind
             /\ final[i].id = renamed[i].id
  <2>1. CASE renamed[i].parent \in DOMAIN new /\ new[renamed[i].parent] # renamed[i].id
    <3>1. final[i] = [renamed[i] EXCEPT !.parent = new[renamed[i].parent]]
      BY <2>1
    <3>2. renamed[i] \in SpanRecord /\ new[renamed[i].parent] \in Nat
      BY <1>3, <1>4, <2>1
    <3> HIDE DEF final
    <3> QED
      BY <3>1, <3>2 DEF SpanRecord
  <2>2. CASE ~(renamed[i].parent \in DOMAIN new /\ new[renamed[i].parent] # renamed[i].id)
    <3>1. final[i] = renamed[i]
      BY <2>2
    <3> QED
      BY <1>4, <3>1
  <2> QED
    BY <2>1, <2>2
<1>6. final = [i \in 1 .. Len(tr) |-> final[i]]
  BY <1>1
<1> HIDE DEF final
<1>7. final \in Seq(SpanRecord) /\ Len(final) = Len(tr)
  <2>1. final \in [1 .. Len(tr) -> SpanRecord]
    BY <1>1, <1>5, <1>6
  <2> QED
    BY <1>1, <2>1, SequenceOf
<1> QED
  BY <1>2, <1>4, <1>5, <1>7 DEF Trace

\* After SpanIDDeduper no server shares its id with a client.
LEMMA DedupedApart ==
  ASSUME NEW tr \in Trace
  PROVE  Shared(DedupeSpanIDs(tr)) = {}
<1> DEFINE ur == DedupeSpanIDs(tr)
<1>1. DOMAIN ur = DOMAIN tr
  BY DedupeShape DEF Trace
<1>2. \A i \in DOMAIN tr : ur[i].kind = tr[i].kind
                           /\ ur[i].id = IF i \in Shared(tr) THEN NewID(tr, i) ELSE tr[i].id
  BY DedupeShape
<1> HIDE DEF ur
<1>3. ASSUME NEW i \in DOMAIN ur, ur[i].kind = "server", NEW j \in DOMAIN ur,
             ur[j].id = ur[i].id, ur[j].kind = "client"
      PROVE  FALSE
  <2>1. tr[j].kind = "client" /\ ur[j].id = tr[j].id
    BY <1>1, <1>2, <1>3 DEF Shared
  <2>2. CASE i \in Shared(tr)
    <3>1. tr[j].id = NewID(tr, i)
      BY <1>1, <1>2, <1>3, <2>1, <2>2
    <3> QED
      BY <1>1, <2>2, <3>1, NewIDIsNew DEF IDs
  <2>3. CASE i \notin Shared(tr)
    <3>1. tr[j].id = tr[i].id /\ tr[i].kind = "server"
      BY <1>1, <1>2, <1>3, <2>1, <2>3
    <3> QED
      BY <1>1, <2>1, <2>3, <3>1 DEF Shared, SharedWithClientSpan
  <2> QED
    BY <2>2, <2>3
<1> QED
  BY <1>3 DEF Shared, SharedWithClientSpan, ur

\* Without shared ids the deduper does nothing.
LEMMA DedupeOnce ==
  ASSUME NEW tr \in Trace, Shared(tr) = {}
  PROVE  DedupeSpanIDs(tr) = tr
<1>1. DOMAIN OldToNew(tr) = {}
  BY DEF OldToNew
<1>2. DedupeSpanIDs(tr) = [i \in DOMAIN tr |-> tr[i]]
  BY <1>1 DEF DedupeSpanIDs
<1>3. tr = [i \in DOMAIN tr |-> tr[i]]
  BY DEF Trace
<1> QED
  BY <1>2, <1>3

\* ClockSkew touches no id and no kind.
LEMMA AdjustKeepsShared ==
  ASSUME NEW tr \in Trace
  PROVE  Shared(AdjustClockSkew(tr)) = Shared(tr)
<1> DEFINE ur == AdjustClockSkew(tr)
<1>1. DOMAIN ur = DOMAIN tr
  BY AdjustMoves DEF Trace
<1>2. \A i \in DOMAIN tr : ur[i].id = tr[i].id /\ ur[i].kind = tr[i].kind
  BY AdjustKeepsTree DEF SameTree
<1> HIDE DEF ur
<1>3. Shared(ur) = Shared(tr)
  BY <1>1, <1>2 DEF Shared, SharedWithClientSpan
<1> QED
  BY <1>3 DEF ur

\* The answers of a reader do not change what the next reader gets.
LEMMA Settled ==
  ASSUME NEW tr \in Trace
  PROVE  /\ Adjusted(tr) \in Trace /\ DedupeSpanIDs(tr) \in Trace
         /\ DedupeSpanIDs(DedupeSpanIDs(tr)) = DedupeSpanIDs(tr)
         /\ DedupeSpanIDs(Adjusted(tr)) = Adjusted(tr)
         /\ AdjustClockSkew(DedupeSpanIDs(tr)) = Adjusted(tr)
         /\ AdjustClockSkew(Adjusted(tr)) = Adjusted(tr)
<1>1. DedupeSpanIDs(tr) \in Trace /\ Shared(DedupeSpanIDs(tr)) = {}
  BY DedupeShape, DedupedApart
<1>2. Adjusted(tr) = AdjustClockSkew(DedupeSpanIDs(tr))
  BY DEF Adjusted
<1>3. Adjusted(tr) \in Trace /\ Shared(Adjusted(tr)) = {}
  BY <1>1, <1>2, AdjustMoves, AdjustKeepsShared
<1> QED
  BY <1>1, <1>2, <1>3, DedupeOnce, AdjustTwice

-----------------------------------------------------------------------------
(* A pass of SpanIDDeduper that is alone                                   *)

\* The loop of dedupeSpanIDs has been over the spans before n of trace b.
RenamedSpan(b, i) ==
  IF i \in Shared(b) THEN [b[i] EXCEPT !.id = NewID(b, i), !.parent = b[i].id] ELSE b[i]
Renaming(b, n) == [i \in DOMAIN b |-> IF i < n THEN RenamedSpan(b, i) ELSE b[i]]
SharedTo(b, n) == {i \in Shared(b) : i < n}

\* oldToNewSpanIDs by then.
NewIs(b, n, new) ==
  /\ DOMAIN new = {b[i].id : i \in SharedTo(b, n)}
  /\ \A i \in SharedTo(b, n) :
       (\A j \in SharedTo(b, n) : b[j].id = b[i].id => j <= i) => new[b[i].id] = NewID(b, i)

\* The loop of swapParentIDs has been over the spans before n.
Swapping(b, n) ==
  [i \in DOMAIN b |-> IF i < n THEN DedupeSpanIDs(b)[i] ELSE RenamedSpan(b, i)]

GroupOf(b) == [i \in DOMAIN b |-> [id |-> b[i].id, kind |-> b[i].kind]]

\* Pass p began with trace b, and has made tr of it.
Deduping(p, tr, b) ==
  /\ b \in Trace /\ p.at \in DOMAIN b /\ p.last = Len(b) /\ p.group = GroupOf(b)
  /\ p.stage = "dedupe" =>
       /\ tr = Renaming(b, p.at)
       /\ p.fresh = Cardinality(SharedTo(b, p.at)) /\ NewIs(b, p.at, p.new)
  /\ p.stage = "reparent" =>
       /\ p.at \in Shared(b) /\ tr = Renaming(b, p.at)
       /\ p.fresh = Cardinality(SharedTo(b, p.at + 1)) /\ NewIs(b, p.at, p.new)
  /\ p.stage = "rename" =>
       /\ p.at \in Shared(b)
       /\ tr = [Renaming(b, p.at) EXCEPT ![p.at] = [b[p.at] EXCEPT !.parent = b[p.at].id]]
       /\ p.fresh = Cardinality(SharedTo(b, p.at + 1)) /\ NewIs(b, p.at + 1, p.new)
  /\ p.stage = "swap" => tr = Swapping(b, p.at) /\ NewIs(b, Len(b) + 1, p.new)

\* The grouped spans stand for the trace.
LEMMA GroupStands ==
  ASSUME NEW b \in Trace
  PROVE  /\ IDs(GroupOf(b)) = IDs(b) /\ Len(GroupOf(b)) = Len(b)
         /\ \A id : SharedWithClientSpan(GroupOf(b), id) <=> SharedWithClientSpan(b, id)
         /\ \A n : UniqueSpanID(GroupOf(b), n) = UniqueSpanID(b, n)
<1>1. DOMAIN b = 1 .. Len(b) /\ Len(b) \in Nat
  BY DEF Trace
<1>2. DOMAIN GroupOf(b) = DOMAIN b
      /\ \A i \in DOMAIN b : GroupOf(b)[i].id = b[i].id /\ GroupOf(b)[i].kind = b[i].kind
  BY DEF GroupOf
<1>3. Len(GroupOf(b)) = Len(b)
  <2>1. GroupOf(b) \in Seq({GroupOf(b)[i] : i \in DOMAIN b})
    <3>1. GroupOf(b) \in [1 .. Len(b) -> {GroupOf(b)[i] : i \in DOMAIN b}]
      BY <1>1 DEF GroupOf
    <3> QED
      BY <1>1, <3>1, SequenceOf
  <2> QED
    BY <1>1, <1>2, <2>1
<1> HIDE DEF GroupOf
<1>4. IDs(GroupOf(b)) = IDs(b)
  BY <1>2 DEF IDs
<1>5. \A id : SharedWithClientSpan(GroupOf(b), id) <=> SharedWithClientSpan(b, id)
  BY <1>2 DEF SharedWithClientSpan
<1>6. \A n : UniqueSpanID(GroupOf(b), n) = UniqueSpanID(b, n)
  BY <1>3, <1>4 DEF UniqueSpanID
<1> QED
  BY <1>3, <1>4, <1>5, <1>6

\* One span more: it is counted when it is shared.
LEMMA SharedCount ==
  ASSUME NEW b \in Trace, NEW n \in DOMAIN b
  PROVE  /\ n \notin Shared(b) => SharedTo(b, n + 1) = SharedTo(b, n)
         /\ n \in Shared(b) =>
              /\ SharedTo(b, n + 1) = SharedTo(b, n) \cup {n}
              /\ Cardinality(SharedTo(b, n + 1)) = Cardinality(SharedTo(b, n)) + 1
              /\ Cardinality(SharedTo(b, n + 1)) \in Nat \ {0}
              /\ NewID(b, n) = UniqueSpanID(b, Cardinality(SharedTo(b, n + 1)))
<1>1. Len(b) \in Nat /\ DOMAIN b = 1 .. Len(b) /\ Shared(b) \subseteq 1 .. Len(b)
  BY DEF Trace, Shared
<1>2. n \notin Shared(b) => SharedTo(b, n + 1) = SharedTo(b, n)
  BY <1>1 DEF SharedTo
<1>3. ASSUME n \in Shared(b)
      PROVE  /\ SharedTo(b, n + 1) = SharedTo(b, n) \cup {n} /\ n \notin SharedTo(b, n)
             /\ SharedTo(b, n + 1) = {j \in Shared(b) : j <= n}
  BY <1>1, <1>3 DEF SharedTo
<1>4. IsFiniteSet(SharedTo(b, n))
  <2>1. SharedTo(b, n) \subseteq 1 .. Len(b)
    BY <1>1 DEF SharedTo
  <2> QED
    BY <1>1, <2>1, FirstNumbers, FS_Subset
<1>5. ASSUME n \in Shared(b)
      PROVE  /\ Cardinality(SharedTo(b, n + 1)) = Cardinality(SharedTo(b, n)) + 1
             /\ Cardinality(SharedTo(b, n)) \in Nat
  BY <1>3, <1>4, <1>5, FS_AddElement, FS_CardinalityType
<1>6. n \in Shared(b) => NewID(b, n) = UniqueSpanID(b, Cardinality(SharedTo(b, n + 1)))
  BY <1>3 DEF NewID
<1> QED
  BY <1>2, <1>3, <1>5, <1>6

\* The loops in the end: the spans renamed, and oldToNewSpanIDs complete.
LEMMA LoopsEnd ==
  ASSUME NEW b \in Trace
  PROVE  /\ Renaming(b, Len(b) + 1) = Swapping(b, 1)
         /\ Swapping(b, Len(b) + 1) = DedupeSpanIDs(b)
<1>1. DOMAIN b = 1 .. Len(b) /\ Len(b) \in Nat
  BY DEF Trace
<1>2. \A i \in DOMAIN b : i < Len(b) + 1 /\ ~(i < 1)
  BY <1>1
<1>3. DedupeSpanIDs(b) = [i \in DOMAIN b |-> DedupeSpanIDs(b)[i]]
  BY DEF DedupeSpanIDs
<1> QED
  BY <1>2, <1>3 DEF Renaming, Swapping

\* With every span seen the adjuster's map is OldToNew.
LEMMA NewInTheEnd ==
  ASSUME NEW b \in Trace, NEW new, NewIs(b, Len(b) + 1, new)
  PROVE  DOMAIN new = DOMAIN OldToNew(b) /\ \A id \in DOMAIN new : new[id] = OldToNew(b)[id]
<1>1. Len(b) \in Nat /\ DOMAIN b = 1 .. Len(b) /\ Shared(b) \subseteq 1 .. Len(b)
  BY DEF Trace, Shared
<1>2. SharedTo(b, Len(b) + 1) = Shared(b)
  BY <1>1 DEF SharedTo
<1>3. DOMAIN new = DOMAIN OldToNew(b)
  BY <1>2 DEF NewIs, OldToNew
<1>4. ASSUME NEW id \in DOMAIN new PROVE new[id] = OldToNew(b)[id]
  <2> DEFINE S == {i \in Shared(b) : b[i].id = id}
             last == CHOOSE i \in Shared(b) :
                       /\ b[i].id = id
                       /\ \A j \in Shared(b) : b[j].id = id => j <= i
  <2>1. S \subseteq 1 .. Len(b) /\ S # {}
    BY <1>1, <1>2, <1>4 DEF NewIs
  <2>2. PICK i \in S : \A j \in S : j <= i
    <3> HIDE DEF S
    <3> QED
      BY <1>1, <2>1, LastPosition
  <2>3. last \in Shared(b) /\ b[last].id = id /\ \A j \in Shared(b) : b[j].id = id => j <= last
    BY <2>2
  <2>4. OldToNew(b)[id] = NewID(b, last)
    BY <1>3, <1>4 DEF OldToNew
  <2> HIDE DEF last
  <2> QED
    BY <1>2, <2>3, <2>4 DEF NewIs
<1> QED
  BY <1>3, <1>4

\* The pass begins.
LEMMA DedupingBegins ==
  ASSUME NEW b \in Trace, b # <<>>,
         NEW p, p.stage = "dedupe", p.at = 1, p.last = Len(b), p.fresh = 0, p.new = <<>>,
         p.group = GroupOf(b)
  PROVE  Deduping(p, b, b)
<1>1. Len(b) \in Nat \ {0} /\ DOMAIN b = 1 .. Len(b)
  BY DEF Trace
<1>2. SharedTo(b, 1) = {}
  BY <1>1 DEF SharedTo, Shared
<1>3. Cardinality(SharedTo(b, 1)) = 0
  BY <1>2, FS_EmptySet
<1>4. Renaming(b, 1) = b
  <2>1. \A i \in DOMAIN b : ~(i < 1)
    BY <1>1
  <2>2. b = [i \in DOMAIN b |-> b[i]]
    BY DEF Trace
  <2> QED
    BY <2>1, <2>2 DEF Renaming
<1>5. NewIs(b, 1, <<>>)
  BY <1>2 DEF NewIs
<1> QED
  BY <1>1, <1>3, <1>4, <1>5 DEF Deduping

\* What the pass reads at the next span of the loop is what the trace had.
LEMMA DedupingReads ==
  ASSUME NEW b \in Trace, NEW n \in DOMAIN b
  PROVE  /\ Renaming(b, n)[n] = b[n]
         /\ b[n].kind = "server" /\ SharedWithClientSpan(GroupOf(b), b[n].id) <=> n \in Shared(b)
<1>1. ~(n < n)
  BY DEF Trace
<1>2. Renaming(b, n)[n] = b[n]
  BY <1>1 DEF Renaming
<1>3. SharedWithClientSpan(GroupOf(b), b[n].id) <=> SharedWithClientSpan(b, b[n].id)
  BY GroupStands
<1> QED
  BY <1>2, <1>3 DEF Shared

\* A span that is not shared is passed over.
LEMMA DedupingSkips ==
  ASSUME NEW b \in Trace, NEW n \in DOMAIN b, n \notin Shared(b)
  PROVE  Renaming(b, n + 1) = Renaming(b, n)
<1>1. \A i \in DOMAIN b : i < n + 1 <=> i < n \/ i = n
  BY DEF Trace
<1> QED
  BY <1>1 DEF Renaming, RenamedSpan

\* A shared one has been renamed.
LEMMA DedupingRenames ==
  ASSUME NEW b \in Trace, NEW n \in DOMAIN b, n \in Shared(b),
         NEW half, half = [Renaming(b, n) EXCEPT ![n] = [b[n] EXCEPT !.parent = b[n].id]]
  PROVE  [half EXCEPT ![n] = [half[n] EXCEPT !.id = NewID(b, n)]] = Renaming(b, n + 1)
<1>1. \A i \in DOMAIN b : i < n + 1 <=> i < n \/ i = n
  BY DEF Trace
<1>2. ~(n < n) /\ b[n] \in SpanRecord
  BY DEF Trace
<1>3. half[n] = [b[n] EXCEPT !.parent = b[n].id] /\ DOMAIN half = DOMAIN b
      /\ \A i \in DOMAIN b : i # n => half[i] = Renaming(b, n)[i]
  BY DEF Renaming
<1>4. [half[n] EXCEPT !.id = NewID(b, n)] = RenamedSpan(b, n)
  BY <1>2, <1>3 DEF RenamedSpan, SpanRecord
<1> DEFINE left == [half EXCEPT ![n] = [half[n] EXCEPT !.id = NewID(b, n)]]
<1>5. left = [i \in DOMAIN b |-> IF i = n THEN RenamedSpan(b, n) ELSE half[i]]
  BY <1>3, <1>4
<1>6. \A i \in DOMAIN b : (IF i = n THEN RenamedSpan(b, n) ELSE half[i])
                          = IF i < n + 1 THEN RenamedSpan(b, i) ELSE b[i]
  BY <1>1, <1>3 DEF Renaming
<1> QED
  BY <1>5, <1>6 DEF Renaming

\* A shared one's new id is entered.
LEMMA DedupingEnters ==
  ASSUME NEW b \in Trace, NEW n \in DOMAIN b, n \in Shared(b), NEW new, NewIs(b, n, new)
  PROVE  NewIs(b, n + 1, With(new, b[n].id, NewID(b, n)))
<1> DEFINE next == With(new, b[n].id, NewID(b, n))
<1>1. SharedTo(b, n + 1) = SharedTo(b, n) \cup {n} /\ \A i \in SharedTo(b, n) : i < n /\ i \in Nat
  BY SharedCount DEF SharedTo, Shared, Trace
<1>2. DOMAIN next = DOMAIN new \cup {b[n].id}
      /\ \A id \in DOMAIN next : next[id] = IF id = b[n].id THEN NewID(b, n) ELSE new[id]
  BY DEF With
<1> HIDE DEF next
<1>3. DOMAIN next = {b[i].id : i \in SharedTo(b, n + 1)}
  BY <1>1, <1>2 DEF NewIs
<1>4. ASSUME NEW i \in SharedTo(b, n + 1),
             \A j \in SharedTo(b, n + 1) : b[j].id = b[i].id => j <= i
      PROVE  next[b[i].id] = NewID(b, i)
  <2>1. CASE i = n
    BY <1>2, <2>1
  <2>2. CASE i # n
    <3>1. i \in SharedTo(b, n) /\ i < n /\ ~(n <= i)
      BY <1>1, <2>2 DEF Trace
    <3>2. b[i].id # b[n].id
      BY <1>1, <1>4, <3>1
    <3>3. new[b[i].id] = NewID(b, i)
      BY <1>1, <1>4, <3>1 DEF NewIs
    <3> QED
      BY <1>2, <1>3, <3>2, <3>3
  <2> QED
    BY <2>1, <2>2
<1> QED
  BY <1>3, <1>4 DEF NewIs, next

\* A span's parent is swapped, if it is to be.
SwapIn(tr, n, new) ==
  IF tr[n].parent \in DOMAIN new /\ new[tr[n].parent] # tr[n].id
  THEN [tr EXCEPT ![n] = [tr[n] EXCEPT !.parent = new[tr[n].parent]]]
  ELSE tr

\* One more parent swapped.
LEMMA DedupingSwaps ==
  ASSUME NEW b \in Trace, NEW n \in DOMAIN b, NEW new, NewIs(b, Len(b) + 1, new),
         NEW tr, tr = Swapping(b, n)
  PROVE  SwapIn(tr, n, new) = Swapping(b, n + 1)
<1>1. (\A i \in DOMAIN b : i < n + 1 <=> i < n \/ i = n) /\ ~(n < n)
  BY DEF Trace
<1>2. tr[n] = RenamedSpan(b, n) /\ DOMAIN tr = DOMAIN b
  BY <1>1 DEF Swapping
<1>3. DedupeSpanIDs(b)[n] = IF /\ RenamedSpan(b, n).parent \in DOMAIN OldToNew(b)
                               /\ OldToNew(b)[RenamedSpan(b, n).parent] # RenamedSpan(b, n).id
                            THEN [RenamedSpan(b, n) EXCEPT !.parent = OldToNew(b)[RenamedSpan(b, n).parent]]
                            ELSE RenamedSpan(b, n)
  BY DEF DedupeSpanIDs, RenamedSpan
<1>4. DOMAIN new = DOMAIN OldToNew(b) /\ \A id \in DOMAIN new : new[id] = OldToNew(b)[id]
  BY NewInTheEnd
<1>5. CASE tr[n].parent \in DOMAIN new /\ new[tr[n].parent] # tr[n].id
  <2>1. [tr[n] EXCEPT !.parent = new[tr[n].parent]] = DedupeSpanIDs(b)[n]
    BY <1>2, <1>3, <1>4, <1>5
  <2>2. [tr EXCEPT ![n] = [tr[n] EXCEPT !.parent = new[tr[n].parent]]]
        = [i \in DOMAIN b |-> IF i = n THEN DedupeSpanIDs(b)[n] ELSE tr[i]]
    BY <1>2, <2>1
  <2> QED
    BY <1>1, <1>5, <2>2 DEF Swapping, SwapIn
<1>6. CASE ~(tr[n].parent \in DOMAIN new /\ new[tr[n].parent] # tr[n].id)
  <2>1. tr[n] = DedupeSpanIDs(b)[n]
    BY <1>2, <1>3, <1>4, <1>6
  <2>2. tr = [i \in DOMAIN b |-> IF i = n THEN DedupeSpanIDs(b)[n] ELSE tr[i]]
    BY <1>2, <2>1 DEF Swapping
  <2> QED
    BY <1>1, <1>6, <2>2 DEF Swapping, SwapIn
<1> QED
  BY <1>5, <1>6

-----------------------------------------------------------------------------
(* A pass of ClockSkew that is alone                                       *)

\* The nodes in D have been moved.
Moved(b, D) ==
  [i \in DOMAIN b |-> IF i \in D THEN Shift(b[i], Skews(b)[i].delta) ELSE b[i]]

\* The graph built is the tree of trace b.
TreeIs(b, p) ==
  /\ p.roots = Roots(b) /\ DOMAIN p.parent = Nodes(b) \ Roots(b)
  /\ \A i \in DOMAIN p.parent : ParentNodes(b, i) = {p.parent[i]}

\* The skews computed are some of those of the trace.
SkewsAre(b, p) ==
  /\ DOMAIN p.skews \subseteq DOMAIN Skews(b)
  /\ \A i \in DOMAIN p.skews : p.skews[i] = Skews(b)[i]

\* Pass p began with trace b, and has made tr of it.
Skewing(p, tr, b) ==
  /\ b \in Trace
  /\ p.stage = "graph" =>
       /\ tr = b /\ DOMAIN p.skews = {} /\ DOMAIN p.nodes = IDs(b)
       /\ \A id \in IDs(b) : p.nodes[id] \in Nodes(b) /\ b[p.nodes[id]].id = id
  /\ p.stage = "adjust" =>
       TreeIs(b, p) /\ SkewsAre(b, p) /\ tr = Moved(b, DOMAIN p.skews)
  /\ p.stage = "move" =>
       /\ TreeIs(b, p) /\ SkewsAre(b, p)
       /\ p.at \in DOMAIN p.skews /\ tr = Moved(b, DOMAIN p.skews \ {p.at})

\* Of the spans with an id the first is a node.
LEMMA FirstNode ==
  ASSUME NEW b \in Trace, NEW id \in IDs(b)
  PROVE  \E i \in Nodes(b) : b[i].id = id
<1> DEFINE S == {i \in DOMAIN b : b[i].id = id}
<1>1. DOMAIN b = 1 .. Len(b) /\ Len(b) \in Nat
  BY DEF Trace
<1>2. S \subseteq Nat /\ S # {}
  BY <1>1 DEF IDs
<1>3. PICK i \in S : \A j \in S : i <= j
  <2> HIDE DEF S
  <2> QED
    BY <1>2, LeastNatural
<1>4. ASSUME NEW j \in 1 .. i - 1, b[j].id = b[i].id PROVE FALSE
  <2>1. i \in 1 .. Len(b) /\ j \in 1 .. Len(b) /\ ~(i <= j)
    BY <1>1, <1>3
  <2> QED
    BY <1>1, <1>3, <1>4, <2>1
<1> QED
  BY <1>3, <1>4 DEF Nodes

\* The adjuster's map of nodes.
LEMMA SkewingBegins ==
  ASSUME NEW b \in Trace, NEW p, p.stage = "graph", p.skews = <<>>,
         p.nodes = [id \in IDs(b) |-> CHOOSE i \in Nodes(b) : b[i].id = id]
  PROVE  Skewing(p, b, b)
<1>1. \A id \in IDs(b) : p.nodes[id] \in Nodes(b) /\ b[p.nodes[id]].id = id
  <2>1. ASSUME NEW id \in IDs(b) PROVE p.nodes[id] \in Nodes(b) /\ b[p.nodes[id]].id = id
    <3>1. \E i \in Nodes(b) : b[i].id = id
      BY FirstNode
    <3> QED
      BY <3>1
  <2> QED
    BY <2>1
<1> QED
  BY <1>1 DEF Skewing

\* What buildSubGraphs makes of the map.
NodesOf(p) == {p.nodes[id] : id \in DOMAIN p.nodes}
BelowIn(p, tr) ==
  {i \in NodesOf(p) : tr[i].parent # NoParent /\ tr[i].parent \in DOMAIN p.nodes}
ParentIn(p, tr) == [i \in BelowIn(p, tr) |-> p.nodes[tr[i].parent]]
RootsIn(p, tr, roots) ==
  /\ roots \subseteq NodesOf(p) \ BelowIn(p, tr)
  /\ \A i \in NodesOf(p) \ BelowIn(p, tr) : \E j \in roots : tr[j].id = tr[i].id

\* They are the tree of the trace the pass began with.
LEMMA SkewingTree ==
  ASSUME NEW b \in Trace, NEW p, NEW tr, Skewing(p, tr, b), p.stage = "graph",
         NEW roots, RootsIn(p, tr, roots),
         NEW q, q.stage = "adjust", q.skews = p.skews, q.roots = roots, q.parent = ParentIn(p, tr)
  PROVE  Skewing(q, tr, b)
<1> DEFINE nodes == NodesOf(p)
           below == BelowIn(p, tr)
<1>1. /\ tr = b /\ DOMAIN p.skews = {} /\ DOMAIN p.nodes = IDs(b)
      /\ \A id \in IDs(b) : p.nodes[id] \in Nodes(b) /\ b[p.nodes[id]].id = id
  BY DEF Skewing
<1>2. \A i \in Nodes(b) : i \in DOMAIN b /\ b[i].id \in IDs(b)
  BY DEF Nodes, IDs
<1>3. nodes = Nodes(b)
  <2>1. ASSUME NEW i \in Nodes(b) PROVE i \in nodes
    <3>1. p.nodes[b[i].id] = i
      BY <1>1, <1>2, NodesApart
    <3> QED
      BY <1>1, <1>2, <3>1 DEF NodesOf
  <2> QED
    BY <1>1, <2>1 DEF NodesOf
<1>4. ASSUME NEW i \in Nodes(b), b[i].parent \in IDs(b)
      PROVE  ParentNodes(b, i) = {p.nodes[b[i].parent]}
  <2>1. p.nodes[b[i].parent] \in ParentNodes(b, i)
    BY <1>1, <1>4 DEF ParentNodes
  <2>2. \A m \in ParentNodes(b, i) : m = p.nodes[b[i].parent]
    BY <1>1, <1>4, NodesApart DEF ParentNodes
  <2> QED
    BY <2>1, <2>2
<1>5. ASSUME NEW i \in Nodes(b), b[i].parent \notin IDs(b)
      PROVE  ParentNodes(b, i) = {}
  BY <1>2, <1>5 DEF ParentNodes
<1>6. below = Nodes(b) \ Roots(b) /\ nodes \ below = Roots(b)
  <2>1. ASSUME NEW i \in Nodes(b) PROVE i \in below <=> i \notin Roots(b)
    <3>1. i \in below <=> b[i].parent # NoParent /\ b[i].parent \in IDs(b)
      BY <1>1, <1>3 DEF BelowIn
    <3>2. b[i].parent \in IDs(b) <=> ParentNodes(b, i) # {}
      BY <1>4, <1>5
    <3> QED
      BY <3>1, <3>2 DEF Roots
  <2>2. below \subseteq Nodes(b) /\ Roots(b) \subseteq Nodes(b)
    BY <1>3 DEF Roots, BelowIn
  <2> QED
    BY <1>3, <2>1, <2>2
<1>7. roots = Roots(b)
  <2>1. ASSUME NEW i \in Roots(b) PROVE i \in roots
    <3>1. PICK j \in roots : b[j].id = b[i].id
      BY <1>1, <1>6 DEF RootsIn
    <3>2. i \in Nodes(b) /\ j \in Nodes(b)
      BY <1>6 DEF Roots, RootsIn
    <3>3. j = i
      BY <3>1, <3>2, NodesApart
    <3> QED
      BY <3>3
  <2> QED
    BY <1>6, <2>1 DEF RootsIn
<1>8. TreeIs(b, q)
  <2>1. DOMAIN q.parent = Nodes(b) \ Roots(b)
        /\ \A i \in Nodes(b) \ Roots(b) : q.parent[i] = p.nodes[b[i].parent] /\ b[i].parent \in IDs(b)
    BY <1>1, <1>6 DEF ParentIn, BelowIn
  <2> QED
    BY <1>4, <1>7, <2>1 DEF TreeIs
<1>9. SkewsAre(b, q) /\ tr = Moved(b, DOMAIN q.skews)
  <2>1. b = [i \in DOMAIN b |-> b[i]]
    BY DEF Trace
  <2> QED
    BY <1>1, <2>1 DEF SkewsAre, Moved
<1> QED
  BY <1>8, <1>9 DEF Skewing

\* Every node below one that is reached is reached.
ClosedBelow(b, D) ==
  \A i \in Nodes(b) \ Roots(b) : ParentNodes(b, i) \subseteq D => i \in D

\* There are no more levels than spans.
LEMMA SkewsClosed ==
  ASSUME NEW b \in Trace
  PROVE  ClosedBelow(b, DOMAIN Skews(b))
<1> DEFINE D(n) == DOMAIN SkewsTo(b)[n]
           S == {n \in Nat : n <= Len(b) => ClosedBelow(b, D(n)) \/ Cardinality(D(n)) >= n}
<1>1. Len(b) \in Nat /\ DOMAIN b = 1 .. Len(b)
  BY DEF Trace
<1>2. ASSUME NEW n \in 0 .. Len(b)
      PROVE  /\ D(n) \subseteq Nodes(b) /\ D(n) \subseteq 1 .. Len(b)
             /\ IsFiniteSet(D(n)) /\ Cardinality(D(n)) \in Nat
  <2>1. D(n) \subseteq Nodes(b)
    BY EveryLevelGood DEF GoodSkews
  <2>2. D(n) \subseteq 1 .. Len(b)
    BY <1>1, <2>1 DEF Nodes
  <2> HIDE DEF D
  <2> QED
    BY <1>1, <2>1, <2>2, FirstNumbers, FS_Subset, FS_CardinalityType
<1>3. ASSUME NEW n \in 0 .. Len(b) - 1
      PROVE  D(n + 1) = D(n) \cup {i \in Nodes(b) \ Roots(b) : ParentNodes(b, i) \subseteq D(n)}
  <2> DEFINE above == SkewsTo(b)[n]
  <2>1. SkewsTo(b)[n + 1] = SkewsBelow(b, above)
    BY Levels
  <2> HIDE DEF above
  <2>2. DOMAIN SkewsBelow(b, above)
        = DOMAIN above \cup {i \in Nodes(b) \ Roots(b) : ParentNodes(b, i) \subseteq DOMAIN above}
    BY DEF SkewsBelow
  <2> QED
    BY <2>1, <2>2 DEF above
<1> HIDE DEF D
<1>4. 0 \in S
  BY <1>1, <1>2
<1>5. ASSUME NEW n \in S PROVE n + 1 \in S
  <2> SUFFICES ASSUME n + 1 <= Len(b)
               PROVE  ClosedBelow(b, D(n + 1)) \/ Cardinality(D(n + 1)) >= n + 1
    BY <1>1
  <2>1. n \in 0 .. Len(b) - 1 /\ n \in 0 .. Len(b) /\ n + 1 \in 0 .. Len(b) /\ n \in Nat
    BY <1>1
  <2>2. CASE ClosedBelow(b, D(n))
    <3>1. D(n + 1) = D(n)
      BY <1>3, <2>1, <2>2 DEF ClosedBelow
    <3> QED
      BY <2>2, <3>1
  <2>3. CASE ~ClosedBelow(b, D(n))
    <3>1. PICK i \in Nodes(b) \ Roots(b) : ParentNodes(b, i) \subseteq D(n) /\ i \notin D(n)
      BY <2>3 DEF ClosedBelow
    <3>2. D(n) \cup {i} \subseteq D(n + 1)
      BY <1>3, <2>1, <3>1
    <3>3. Cardinality(D(n) \cup {i}) = Cardinality(D(n)) + 1
      BY <1>2, <2>1, <3>1, FS_AddElement
    <3>4. Cardinality(D(n) \cup {i}) <= Cardinality(D(n + 1))
      BY <1>2, <2>1, <3>2, FS_Subset
    <3>5. Cardinality(D(n)) >= n /\ Cardinality(D(n)) \in Nat /\ Cardinality(D(n + 1)) \in Nat
      BY <1>2, <2>1, <2>3
    <3> QED
      BY <2>1, <3>3, <3>4, <3>5
  <2> QED
    BY <2>2, <2>3
<1>6. S = Nat
  <2> HIDE DEF S
  <2>1. S \subseteq Nat
    BY DEF S
  <2> QED
    BY <1>4, <1>5, <2>1, Induct
<1>7. ClosedBelow(b, D(Len(b)))
  <2>1. CASE Cardinality(D(Len(b))) >= Len(b)
    <3>1. /\ D(Len(b)) \subseteq 1 .. Len(b) /\ Cardinality(D(Len(b))) \in Nat
          /\ Cardinality(D(Len(b))) <= Cardinality(1 .. Len(b))
          /\ IsFiniteSet(1 .. Len(b)) /\ Cardinality(1 .. Len(b)) = Len(b)
      <4>1. Len(b) \in 0 .. Len(b)
        BY <1>1
      <4> QED
        BY <1>1, <1>2, <4>1, FirstNumbers, FS_Subset
    <3>2. Cardinality(D(Len(b))) = Cardinality(1 .. Len(b))
      BY <1>1, <2>1, <3>1
    <3>3. D(Len(b)) = 1 .. Len(b)
      BY <3>1, <3>2, FS_Subset
    <3> QED
      BY <1>1, <3>3 DEF ClosedBelow, Nodes
  <2>2. ClosedBelow(b, D(Len(b))) \/ Cardinality(D(Len(b))) >= Len(b)
    <3>1. Len(b) \in S
      BY <1>1, <1>6
    <3> QED
      BY <1>1, <3>1
  <2> QED
    BY <2>1, <2>2
<1> QED
  BY <1>7 DEF D, Skews

\* A skew is a record of a host and a number.
LEMMA SkewRecords ==
  ASSUME NEW b \in Trace
  PROVE  \A i \in DOMAIN Skews(b) :
           Skews(b)[i] = [host |-> Skews(b)[i].host, delta |-> Skews(b)[i].delta]
<1> DEFINE f == SkewsTo(b)
           Rec(x) == x = [host |-> x.host, delta |-> x.delta]
           S == {n \in Nat : n <= Len(b) => \A i \in DOMAIN f[n] : Rec(f[n][i])}
<1>1. Len(b) \in Nat
  BY DEF Trace
<1>2. 0 \in S
  <2>1. f[0] = RootSkews(b)
    BY Levels
  <2>2. \A i \in DOMAIN RootSkews(b) : Rec(RootSkews(b)[i])
    BY DEF RootSkews
  <2> HIDE DEF f, Rec
  <2> QED
    BY <2>1, <2>2
<1>3. ASSUME NEW n \in S PROVE n + 1 \in S
  <2> SUFFICES ASSUME n + 1 <= Len(b), NEW i \in DOMAIN f[n + 1]
               PROVE  Rec(f[n + 1][i])
    BY <1>1
  <2>1. n \in 0 .. Len(b) - 1 /\ n <= Len(b)
    BY <1>1
  <2>2. f[n + 1] = SkewsBelow(b, f[n])
    BY <2>1, Levels
  <2>3. \A j \in DOMAIN f[n] : Rec(f[n][j])
    BY <2>1
  <2>4. GoodSkews(b, f[n])
    BY <1>1, <2>1, EveryLevelGood
  <2> HIDE DEF f
  <2>5. CASE i \in DOMAIN f[n]
    BY <2>2, <2>3, <2>5 DEF SkewsBelow
  <2>6. CASE i \notin DOMAIN f[n]
    <3>1. f[n + 1][i] = SkewBelow(b, f[n], i) /\ i \in Nodes(b) \ Roots(b)
          /\ ParentNodes(b, i) \subseteq DOMAIN f[n]
      BY <2>2, <2>6 DEF SkewsBelow
    <3>2. PICK m \in Nodes(b) : ParentNodes(b, i) = {m}
      BY <3>1, OneParent
    <3>3. SkewBelow(b, f[n], i) =
            IF OtherHost(b[i], f[n][m].host)
            THEN [host |-> b[i].host, delta |-> CalculateSkew(b[i], Shift(b[m], f[n][m].delta))]
            ELSE f[n][m]
      BY <3>2 DEF SkewBelow
    <3>4. Rec(f[n][m])
      BY <2>3, <3>1, <3>2
    <3> QED
      BY <3>1, <3>3, <3>4
  <2> QED
    BY <2>5, <2>6
<1>4. S = Nat
  <2> HIDE DEF S
  <2>1. S \subseteq Nat
    BY DEF S
  <2> QED
    BY <1>2, <1>3, <2>1, Induct
<1>5. Len(b) \in S /\ Skews(b) = f[Len(b)]
  BY <1>1, <1>4 DEF Skews
<1> QED
  BY <1>1, <1>5

\* The skew of a node by its parent's.
LEMMA SkewByParent ==
  ASSUME NEW b \in Trace, NEW i \in Nodes(b) \ Roots(b), NEW m,
         ParentNodes(b, i) = {m}, m \in DOMAIN Skews(b)
  PROVE  /\ i \in DOMAIN Skews(b)
         /\ Skews(b)[i] =
              IF OtherHost(b[i], Skews(b)[m].host)
              THEN [host |-> b[i].host,
                    delta |-> CalculateSkew(b[i], Shift(b[m], Skews(b)[m].delta))]
              ELSE Skews(b)[m]
<1>1. i \in DOMAIN Skews(b)
  BY SkewsClosed DEF ClosedBelow
<1>2. /\ Agrees(b, Skews(b), i) /\ Skews(b)[i].host = b[i].host
      /\ Skews(b)[m].host = b[m].host
  BY <1>1, SkewsGood DEF GoodSkews
<1>3. /\ Skews(b)[i] = [host |-> Skews(b)[i].host, delta |-> Skews(b)[i].delta]
      /\ Skews(b)[m] = [host |-> Skews(b)[m].host, delta |-> Skews(b)[m].delta]
  BY <1>1, SkewRecords
<1>4. Skews(b)[i].delta = IF OtherHost(b[i], b[m].host)
                          THEN CalculateSkew(b[i], Shift(b[m], Skews(b)[m].delta))
                          ELSE Skews(b)[m].delta
  BY <1>2 DEF Agrees
<1>5. CASE OtherHost(b[i], b[m].host)
  BY <1>1, <1>2, <1>3, <1>4, <1>5
<1>6. CASE ~OtherHost(b[i], b[m].host)
  <2>1. b[i].host = b[m].host
    BY <1>6 DEF OtherHost
  <2> QED
    BY <1>1, <1>2, <1>3, <1>4, <1>6, <2>1
<1> QED
  BY <1>5, <1>6

\* adjustNode computes the skew of the trace, from spans of which the parents have
\* been moved and the rest have not.
SkewIn(p, tr, i) ==
  IF i \notin DOMAIN p.parent THEN [host |-> tr[i].host, delta |-> 0]
  ELSE IF OtherHost(tr[i], p.skews[p.parent[i]].host)
  THEN [host |-> tr[i].host, delta |-> CalculateSkew(tr[i], tr[p.parent[i]])]
  ELSE p.skews[p.parent[i]]

\* So the pass goes on as AdjustClockSkew does.
LEMMA SkewingCompares ==
  ASSUME NEW b \in Trace, NEW p, NEW tr, Skewing(p, tr, b), p.stage = "adjust",
         NEW i \in Reachable(p), NEW skew, skew = SkewIn(p, tr, i),
         NEW q, q.stage = "move", q.at = i, q.skews = With(p.skews, i, skew),
         q.roots = p.roots, q.parent = p.parent
  PROVE  Skewing(q, tr, b) /\ i \in DOMAIN b
<1>1. /\ TreeIs(b, p) /\ SkewsAre(b, p) /\ tr = Moved(b, DOMAIN p.skews)
  BY DEF Skewing
<1>2. i \notin DOMAIN p.skews /\ i \in Nodes(b) /\ i \in DOMAIN b /\ tr[i] = b[i]
  BY <1>1 DEF Reachable, TreeIs, Roots, Nodes, Moved
<1>3. i \in DOMAIN Skews(b) /\ skew = Skews(b)[i]
  <2>1. CASE i \in Roots(b)
    <3>1. i \notin DOMAIN p.parent /\ skew = [host |-> b[i].host, delta |-> 0]
      BY <1>1, <1>2, <2>1 DEF TreeIs, SkewIn
    <3>2. i \in DOMAIN Skews(b) /\ Skews(b)[i].host = b[i].host /\ Skews(b)[i].delta = 0
      BY <2>1, SkewsGood DEF GoodSkews
    <3>3. Skews(b)[i] = [host |-> Skews(b)[i].host, delta |-> Skews(b)[i].delta]
      BY <3>2, SkewRecords
    <3> QED
      BY <3>1, <3>2, <3>3
  <2>2. CASE i \notin Roots(b)
    <3> DEFINE m == p.parent[i]
    <3>1. /\ i \in DOMAIN p.parent /\ ParentNodes(b, i) = {m}
          /\ m \in DOMAIN p.skews /\ m \in DOMAIN Skews(b) /\ p.skews[m] = Skews(b)[m]
      BY <1>1, <1>2, <2>2 DEF TreeIs, Reachable, SkewsAre
    <3>2. m \in DOMAIN b
      BY <3>1 DEF ParentNodes, Nodes
    <3>3. tr[m] = Shift(b[m], Skews(b)[m].delta)
      BY <1>1, <3>1, <3>2 DEF Moved
    <3> HIDE DEF m
    <3>4. skew = IF OtherHost(b[i], Skews(b)[m].host)
                 THEN [host |-> b[i].host,
                       delta |-> CalculateSkew(b[i], Shift(b[m], Skews(b)[m].delta))]
                 ELSE Skews(b)[m]
      BY <1>2, <3>1, <3>3 DEF m, SkewIn
    <3>5. i \in Nodes(b) \ Roots(b)
      BY <1>2, <2>2
    <3>6. /\ i \in DOMAIN Skews(b)
          /\ Skews(b)[i] =
              IF OtherHost(b[i], Skews(b)[m].host)
              THEN [host |-> b[i].host,
                    delta |-> CalculateSkew(b[i], Shift(b[m], Skews(b)[m].delta))]
              ELSE Skews(b)[m]
      BY <3>1, <3>5, SkewByParent
    <3> QED
      BY <3>4, <3>6
  <2> QED
    BY <2>1, <2>2
<1>4. TreeIs(b, q)
  BY <1>1 DEF TreeIs
<1>5. DOMAIN q.skews = DOMAIN p.skews \cup {i} /\ DOMAIN q.skews \ {q.at} = DOMAIN p.skews
  BY <1>2 DEF With
<1>6. SkewsAre(b, q)
  BY <1>1, <1>3, <1>5 DEF SkewsAre, With
<1> QED
  BY <1>1, <1>2, <1>4, <1>5, <1>6 DEF Skewing

\* adjustTimestamps moves the node.
LEMMA SkewingMoves ==
  ASSUME NEW b \in Trace, NEW p, NEW tr, Skewing(p, tr, b), p.stage = "move",
         NEW ur, ur = [tr EXCEPT ![p.at] = [tr[p.at] EXCEPT !.start = tr[p.at].start + p.skews[p.at].delta]],
         NEW q, q.stage = "adjust", q.skews = p.skews, q.roots = p.roots, q.parent = p.parent
  PROVE  Skewing(q, ur, b)
<1>1. /\ TreeIs(b, p) /\ SkewsAre(b, p) /\ p.at \in DOMAIN p.skews
      /\ tr = Moved(b, DOMAIN p.skews \ {p.at})
  BY DEF Skewing
<1>2. p.at \in DOMAIN b /\ p.skews[p.at] = Skews(b)[p.at]
  BY <1>1, SkewsGood DEF SkewsAre, GoodSkews, Nodes
<1>3. tr[p.at] = b[p.at] /\ DOMAIN tr = DOMAIN b
  BY <1>1, <1>2 DEF Moved
<1>4. [tr[p.at] EXCEPT !.start = tr[p.at].start + p.skews[p.at].delta]
        = Shift(b[p.at], Skews(b)[p.at].delta)
  BY <1>2, <1>3 DEF Shift
<1>5. ur = [i \in DOMAIN b |-> IF i = p.at THEN Shift(b[p.at], Skews(b)[p.at].delta) ELSE tr[i]]
  BY <1>3, <1>4
<1>6. ur = Moved(b, DOMAIN p.skews)
  BY <1>1, <1>5 DEF Moved
<1> QED
  BY <1>1, <1>6 DEF Skewing, TreeIs, SkewsAre

\* When no node is left the trace is what ClockSkew makes of it.
LEMMA SkewingEnds ==
  ASSUME NEW b \in Trace, NEW p, NEW tr, Skewing(p, tr, b), p.stage = "adjust", Reachable(p) = {}
  PROVE  tr = AdjustClockSkew(b)
<1> DEFINE f == SkewsTo(b)
           S == {n \in Nat : n <= Len(b) => DOMAIN f[n] \subseteq DOMAIN p.skews}
<1>1. /\ TreeIs(b, p) /\ SkewsAre(b, p) /\ tr = Moved(b, DOMAIN p.skews) /\ Len(b) \in Nat
  BY DEF Skewing, Trace
<1>2. 0 \in S
  <2>1. DOMAIN f[0] = Roots(b)
    BY Levels DEF RootSkews
  <2> QED
    BY <1>1, <2>1 DEF Reachable, TreeIs
<1>3. ASSUME NEW n \in S PROVE n + 1 \in S
  <2> SUFFICES ASSUME n + 1 <= Len(b), NEW i \in DOMAIN f[n + 1]
               PROVE  i \in DOMAIN p.skews
    BY <1>1
  <2>1. n \in 0 .. Len(b) - 1 /\ n <= Len(b)
    BY <1>1
  <2>2. f[n + 1] = SkewsBelow(b, f[n]) /\ DOMAIN f[n] \subseteq DOMAIN p.skews
    BY <2>1, Levels
  <2> HIDE DEF f
  <2>3. i \in DOMAIN f[n] \/ (i \in Nodes(b) \ Roots(b) /\ ParentNodes(b, i) \subseteq DOMAIN f[n])
    BY <2>2 DEF SkewsBelow
  <2>4. CASE i \in Nodes(b) \ Roots(b) /\ ParentNodes(b, i) \subseteq DOMAIN f[n]
    <3>1. i \in DOMAIN p.parent /\ p.parent[i] \in DOMAIN p.skews
      BY <1>1, <2>2, <2>4 DEF TreeIs
    <3> QED
      BY <3>1 DEF Reachable
  <2> QED
    BY <2>2, <2>3, <2>4
<1>4. S = Nat
  <2> HIDE DEF S
  <2>1. S \subseteq Nat
    BY DEF S
  <2> QED
    BY <1>2, <1>3, <2>1, Induct
<1>5. DOMAIN Skews(b) = DOMAIN p.skews
  <2>1. Len(b) \in S /\ Skews(b) = f[Len(b)]
    BY <1>1, <1>4 DEF Skews
  <2>2. DOMAIN Skews(b) \subseteq DOMAIN p.skews
    BY <1>1, <2>1
  <2> QED
    BY <1>1, <2>2 DEF SkewsAre
<1> QED
  BY <1>1, <1>5 DEF Moved, AdjustClockSkew

-----------------------------------------------------------------------------
(* The store's invariant                                                   *)

TraceObject == [trace : TraceID, spans : Trace, raw : Trace,
                seen : BOOLEAN, orderly : BOOLEAN, alone : BOOLEAN]

\* As long as it is orderly, an object that nobody is at is what was reported, or
\* that adjusted by the first adjuster or by both.
Settling(o) ==
  o.orderly => IF o.seen THEN o.spans \in {DedupeSpanIDs(o.raw), Adjusted(o.raw)}
               ELSE o.spans = o.raw

Grouped == [id : Nat, kind : {s.kind : s \in Span}]
Skew == [host : {s.host : s \in Span}, delta : Int]

\* The record of a pass of SpanIDDeduper, and of one of ClockSkew.
Dedupe(stage, at, last, fresh, new, group) ==
  [stage |-> stage, at |-> at, last |-> last, fresh |-> fresh, new |-> new, group |-> group]
Deskew(stage, at, skews, roots, parent, nodes) ==
  [stage |-> stage, at |-> at, skews |-> skews, roots |-> roots, parent |-> parent, nodes |-> nodes]

\* Pass p of SpanIDDeduper over object o.  Of a pass that is alone it is known what it
\* began with, and how far it is.
DedupePass(p, o) ==
  /\ p = Dedupe(p.stage, p.at, p.last, p.fresh, p.new, p.group)
  /\ p.stage \in {"dedupe", "reparent", "rename", "swap"}
  /\ p.last \in 1 .. Len(o.spans) /\ p.at \in 1 .. p.last
  /\ p.fresh \in Nat /\ p.group \in Seq(Grouped)
  /\ p.stage \in {"reparent", "rename"} => p.fresh # 0
  /\ \A id \in DOMAIN p.new : p.new[id] \in Nat
  /\ o.alone => \E b : /\ Deduping(p, o.spans, b)
                       /\ o.orderly => b \in {o.raw, DedupeSpanIDs(o.raw), Adjusted(o.raw)}

\* Pass p of ClockSkew over object o.
SkewPass(p, o) ==
  /\ p = Deskew(p.stage, p.at, p.skews, p.roots, p.parent, p.nodes)
  /\ p.stage \in {"graph", "adjust", "move"}
  /\ p.roots \subseteq 1 .. Len(o.spans)
  /\ \A id \in DOMAIN p.nodes : p.nodes[id] \in 1 .. Len(o.spans)
  /\ DOMAIN p.parent \cap p.roots = {}
  /\ \A i \in DOMAIN p.parent : i \in 1 .. Len(o.spans) /\ p.parent[i] \in 1 .. Len(o.spans)
  /\ \A i \in DOMAIN p.skews : i \in 1 .. Len(o.spans) /\ p.skews[i] \in Skew
  /\ p.stage = "move" => p.at \in DOMAIN p.skews
  /\ o.alone => \E b : /\ Skewing(p, o.spans, b)
                       /\ o.orderly => b \in {DedupeSpanIDs(o.raw), Adjusted(o.raw)}

InPass(p, o) == o.seen /\ (p = Deduped \/ DedupePass(p, o) \/ SkewPass(p, o))

StoreTyped ==
  /\ heap \in Seq(TraceObject) /\ \A k \in DOMAIN heap : Len(heap[k].spans) > 0
  /\ DOMAIN traces \subseteq TraceID
  /\ \A t \in DOMAIN traces : traces[t] \in DOMAIN heap
  /\ held \in [Adjuster -> Seq(DOMAIN heap)]
  /\ DOMAIN pass = Adjuster

\* Whoever is in a pass holds an object that fits it.
Passing ==
  \A a \in Adjuster : pass[a] # Raw => held[a] # <<>> /\ InPass(pass[a], heap[Head(held[a])])

\* A pass that is alone is the only one.
OneAlone ==
  \A k \in DOMAIN heap : \A a, b \in Adjuster :
      heap[k].alone /\ At(a, k) /\ At(b, k) => a = b

Orderly ==
  \A k \in DOMAIN heap :
      heap[k].orderly => IF \E a \in Adjuster : At(a, k) THEN heap[k].alone ELSE Settling(heap[k])

SInv == StoreTyped /\ Passing /\ OneAlone /\ Orderly

\* The fields of the two records.
LEMMA DedupeFields ==
  ASSUME NEW stage, NEW at, NEW last, NEW fresh, NEW new, NEW group, NEW p,
         p = Dedupe(stage, at, last, fresh, new, group)
  PROVE  /\ p.stage = stage /\ p.at = at /\ p.last = last /\ p.fresh = fresh /\ p.new = new /\ p.group = group
         /\ p = Dedupe(p.stage, p.at, p.last, p.fresh, p.new, p.group)
BY DEF Dedupe

\* Those of the other record.
LEMMA DeskewFields ==
  ASSUME NEW stage, NEW at, NEW skews, NEW roots, NEW parent, NEW nodes, NEW p,
         p = Deskew(stage, at, skews, roots, parent, nodes)
  PROVE  /\ p.stage = stage /\ p.at = at /\ p.skews = skews /\ p.roots = roots
         /\ p.parent = parent /\ p.nodes = nodes
         /\ p = Deskew(p.stage, p.at, p.skews, p.roots, p.parent, p.nodes)
BY DEF Deskew

\* A sequence with one element replaced.
LEMMA ReplaceOne ==
  ASSUME NEW S, NEW s \in Seq(S), NEW k \in DOMAIN s, NEW e \in S
  PROVE  LET t == [s EXCEPT ![k] = e]
         IN  /\ t \in Seq(S) /\ DOMAIN t = DOMAIN s /\ Len(t) = Len(s)
             /\ \A j \in DOMAIN s : t[j] = IF j = k THEN e ELSE s[j]
OBVIOUS

\* What is known of a pass that is not alone outlives what others do to its object.
LEMMA PassOutlives ==
  ASSUME NEW o \in TraceObject, NEW u \in TraceObject, NEW p, InPass(p, o),
         u.seen, Len(o.spans) <= Len(u.spans), p = Deduped \/ ~u.alone
  PROVE  InPass(p, u)
<1>1. 1 .. Len(o.spans) \subseteq 1 .. Len(u.spans)
  BY DEF TraceObject, Trace
<1>2. CASE p = Deduped
  BY <1>2 DEF InPass
<1>3. CASE p # Deduped /\ DedupePass(p, o)
  <2>1. DedupePass(p, u)
    BY <1>1, <1>3 DEF DedupePass
  <2> QED
    BY <2>1 DEF InPass
<1>4. CASE p # Deduped /\ SkewPass(p, o)
  <2>1. SkewPass(p, u)
    BY <1>1, <1>4 DEF SkewPass
  <2> QED
    BY <2>1 DEF InPass
<1> QED
  BY <1>2, <1>3, <1>4 DEF InPass

\* Adjuster a has one object in hand at its pass, and the object is on the heap.
LEMMA HeadOfHeld ==
  ASSUME SInv, NEW a \in Adjuster, held[a] # <<>>
  PROVE  /\ held[a] \in Seq(DOMAIN heap) /\ Head(held[a]) \in DOMAIN heap
         /\ heap[Head(held[a])] \in TraceObject /\ Len(heap[Head(held[a])].spans) \in Nat \ {0}
         /\ Tail(held[a]) \in Seq(DOMAIN heap)
<1>1. held[a] \in Seq(DOMAIN heap) /\ heap \in Seq(TraceObject)
  BY DEF SInv, StoreTyped
<1>2. Head(held[a]) \in DOMAIN heap /\ Tail(held[a]) \in Seq(DOMAIN heap)
  BY <1>1, HeadTailProperties
<1>3. heap[Head(held[a])] \in TraceObject /\ Len(heap[Head(held[a])].spans) > 0
  BY <1>1, <1>2 DEF SInv, StoreTyped
<1>4. \A o \in TraceObject : Len(o.spans) \in Nat
  BY DEF TraceObject, Trace
<1> QED
  BY <1>1, <1>2, <1>3, <1>4

\* A step of a that makes object u of the one it holds and p of its pass keeps the
\* invariant if u and p fit each other.
LEMMA StepKeeps ==
  ASSUME SInv, NEW a \in Adjuster, held[a] # <<>>, NEW u \in TraceObject, NEW p, NEW q,
         NEW k, k = Head(held[a]), heap' = [heap EXCEPT ![k] = u],
         pass' = [pass EXCEPT ![a] = p], held' = [held EXCEPT ![a] = q], traces' = traces,
         q = held[a] \/ (p = Raw /\ q = Tail(held[a])),
         Len(u.spans) = Len(heap[k].spans), u.seen,
         p # Raw => InPass(p, u),
         u.alone => \A c \in Adjuster \ {a} : ~At(c, k),
         u.orderly => u.alone,
         p \in {Raw, Deduped} => Settling(u)
  PROVE  SInv'
<1>1. /\ heap \in Seq(TraceObject) /\ k \in DOMAIN heap /\ heap[k] \in TraceObject
      /\ Len(heap[k].spans) \in Nat \ {0} /\ q \in Seq(DOMAIN heap)
  BY HeadOfHeld DEF SInv, StoreTyped
<1>2. /\ heap' \in Seq(TraceObject) /\ DOMAIN heap' = DOMAIN heap
      /\ \A j \in DOMAIN heap : heap'[j] = IF j = k THEN u ELSE heap[j]
  BY <1>1, ReplaceOne
<1>3. /\ DOMAIN pass' = Adjuster /\ DOMAIN held' = Adjuster
      /\ \A c \in Adjuster : /\ pass'[c] = IF c = a THEN p ELSE pass[c]
                             /\ held'[c] = IF c = a THEN q ELSE held[c]
  BY DEF SInv, StoreTyped
<1>4. StoreTyped'
  <2>1. Len(u.spans) > 0
    BY <1>1
  <2>2. held' \in [Adjuster -> Seq(DOMAIN heap)]
    BY <1>1 DEF SInv, StoreTyped
  <2> QED
    BY <1>2, <1>3, <2>1, <2>2 DEF SInv, StoreTyped
<1>5. Passing'
  <2>1. ASSUME NEW c \in Adjuster, pass'[c] # Raw
        PROVE  held'[c] # <<>> /\ InPass(pass'[c], heap'[Head(held'[c])])
    <3>1. CASE c = a
      BY <1>1, <1>2, <1>3, <2>1, <3>1
    <3>2. CASE c # a
      <4>1. /\ pass'[c] = pass[c] /\ held'[c] = held[c] /\ held[c] # <<>>
            /\ InPass(pass[c], heap[Head(held[c])]) /\ Head(held[c]) \in DOMAIN heap
        BY <1>3, <2>1, <3>2, HeadOfHeld DEF SInv, Passing
      <4>2. CASE Head(held[c]) # k
        BY <1>2, <4>1, <4>2
      <4>3. CASE Head(held[c]) = k
        <5>1. pass[c] = Deduped \/ ~u.alone
          BY <2>1, <3>2, <4>1, <4>3 DEF At
        <5>2. InPass(pass[c], u)
          BY <1>1, <4>1, <4>3, <5>1, PassOutlives
        <5> QED
          BY <1>1, <1>2, <4>1, <4>3, <5>2
      <4> QED
        BY <4>2, <4>3
    <3> QED
      BY <3>1, <3>2
  <2> QED
    BY <2>1 DEF Passing
<1>6. \A c \in Adjuster, j \in DOMAIN heap : j # k \/ c # a => (At(c, j)' <=> At(c, j))
  BY <1>3 DEF At
<1>7. At(a, k)' <=> p \notin {Raw, Deduped}
  BY <1>3 DEF At
<1>8. OneAlone'
  <2>1. ASSUME NEW j \in DOMAIN heap, NEW c \in Adjuster, NEW d \in Adjuster,
               heap'[j].alone, At(c, j)', At(d, j)'
        PROVE  c = d
    <3>1. CASE j = k
      BY <1>2, <1>6, <2>1, <3>1
    <3>2. CASE j # k
      BY <1>2, <1>6, <2>1, <3>2 DEF SInv, OneAlone
    <3> QED
      BY <3>1, <3>2
  <2> QED
    BY <1>2, <2>1 DEF OneAlone
<1>9. Orderly'
  <2>1. ASSUME NEW j \in DOMAIN heap, heap'[j].orderly
        PROVE  IF \E c \in Adjuster : At(c, j)' THEN heap'[j].alone ELSE Settling(heap'[j])
    <3>1. CASE j = k
      BY <1>2, <1>7, <2>1, <3>1
    <3>2. CASE j # k
      BY <1>2, <1>6, <2>1, <3>2 DEF SInv, Orderly
    <3> QED
      BY <3>1, <3>2
  <2>2. \A j : Settling(heap[j])' <=> Settling(heap'[j])
    BY DEF Settling
  <2> QED
    BY <1>2, <2>1, <2>2 DEF Orderly
<1> QED
  BY <1>4, <1>5, <1>8, <1>9 DEF SInv

\* In the middle of a pass no more is needed than what is known of it.
LEMMA WithinPass ==
  ASSUME SInv, NEW a \in Adjuster, held[a] # <<>>, pass[a] \notin {Raw, Deduped},
         NEW k, k = Head(held[a]), NEW u \in TraceObject,
         u.alone = heap[k].alone, u.orderly = heap[k].orderly
  PROVE  /\ u.alone => \A c \in Adjuster \ {a} : ~At(c, k)
         /\ u.orderly => u.alone
<1>1. k \in DOMAIN heap /\ At(a, k)
  BY HeadOfHeld DEF At
<1> QED
  BY <1>1 DEF SInv, OneAlone, Orderly

-----------------------------------------------------------------------------
(* A step of a pass, whether alone or not                                  *)

\* Object o with span s at position i.
WithSpan(o, i, s) == [o EXCEPT !.spans = [@ EXCEPT ![i] = s]]

\* It is an object like o but for that span.
LEMMA WithSpanTyped ==
  ASSUME NEW o \in TraceObject, NEW i \in 1 .. Len(o.spans), NEW s \in SpanRecord
  PROVE  LET u == WithSpan(o, i, s)
         IN  /\ u \in TraceObject /\ u.spans = [o.spans EXCEPT ![i] = s]
             /\ Len(u.spans) = Len(o.spans) /\ u.trace = o.trace /\ u.raw = o.raw
             /\ u.seen = o.seen /\ u.orderly = o.orderly /\ u.alone = o.alone
<1>1. o.spans \in Trace /\ i \in DOMAIN o.spans
  BY DEF TraceObject, Trace
<1>2. /\ [o.spans EXCEPT ![i] = s] \in Trace
      /\ Len([o.spans EXCEPT ![i] = s]) = Len(o.spans)
  BY <1>1, ReplaceOne DEF Trace
<1> QED
  BY <1>2 DEF WithSpan, TraceObject

\* What the loops go on with when the trace has n spans by now.
NextOf(p, n) ==
  IF p.at < p.last THEN Dedupe("dedupe", p.at + 1, p.last, p.fresh, p.new, p.group)
  ELSE Dedupe("swap", 1, n, p.fresh, p.new, p.group)

\* A pass that is alone is then where DedupeSpanIDs would be.
LEMMA DedupingNext ==
  ASSUME NEW b \in Trace, NEW p, NEW tr, p.at \in DOMAIN b, p.last = Len(b),
         p.group = GroupOf(b), tr = Renaming(b, p.at + 1), p.fresh = Cardinality(SharedTo(b, p.at + 1)),
         NewIs(b, p.at + 1, p.new), NEW q, q = NextOf(p, Len(b))
  PROVE  Deduping(q, tr, b)
<1>1. DOMAIN b = 1 .. Len(b) /\ Len(b) \in Nat
  BY DEF Trace
<1>2. CASE p.at < Len(b)
  <2>1. /\ q.stage = "dedupe" /\ q.at = p.at + 1 /\ q.last = p.last /\ q.fresh = p.fresh
        /\ q.new = p.new /\ q.group = p.group
    BY <1>2, DedupeFields DEF NextOf
  <2> QED
    BY <1>1, <1>2, <2>1 DEF Deduping
<1>3. CASE ~(p.at < Len(b))
  <2>1. /\ q.stage = "swap" /\ q.at = 1 /\ q.last = Len(b) /\ q.new = p.new /\ q.group = p.group
    BY <1>3, DedupeFields DEF NextOf
  <2>2. p.at = Len(b) /\ 1 \in DOMAIN b
    BY <1>1, <1>3
  <2>3. tr = Swapping(b, 1)
    BY <2>2, LoopsEnd
  <2> QED
    BY <2>1, <2>2, <2>3 DEF Deduping
<1> QED
  BY <1>2, <1>3

\* The types of what comes next.
LEMMA NextOfTyped ==
  ASSUME NEW n \in Nat, NEW p, p.last \in 1 .. n, p.at \in 1 .. p.last, NEW q, q = NextOf(p, n)
  PROVE  /\ q = Dedupe(q.stage, q.at, q.last, q.fresh, q.new, q.group)
         /\ q.stage \in {"dedupe", "swap"} /\ q.last \in 1 .. n /\ q.at \in 1 .. q.last
         /\ q.fresh = p.fresh /\ q.new = p.new /\ q.group = p.group
<1>1. CASE p.at < p.last
  BY <1>1, DedupeFields DEF NextOf
<1>2. CASE ~(p.at < p.last)
  BY <1>2, DedupeFields DEF NextOf
<1> QED
  BY <1>1, <1>2

\* An object's spans.
LEMMA SpansTyped ==
  ASSUME NEW o \in TraceObject
  PROVE  /\ o.spans \in Trace /\ o.raw \in Trace /\ DOMAIN o.spans = 1 .. Len(o.spans)
         /\ Len(o.spans) \in Nat
         /\ \A i \in 1 .. Len(o.spans) : o.spans[i] \in SpanRecord
BY DEF TraceObject, Trace

\* The length of a trace stays what it was when the pass began.
LEMMA DedupingLength ==
  ASSUME NEW b, NEW tr \in Trace, NEW p, Deduping(p, tr, b),
         p.stage \in {"dedupe", "reparent", "rename", "swap"}
  PROVE  b \in Trace /\ Len(b) = Len(tr) /\ p.at \in DOMAIN b /\ p.at \in Nat /\ p.last = Len(b)
<1>1. b \in Trace /\ p.at \in DOMAIN b /\ DOMAIN tr = DOMAIN b /\ p.last = Len(b)
  BY DEF Deduping, Renaming, Swapping
<1>2. Len(b) \in Nat /\ Len(tr) \in Nat /\ DOMAIN b = 1 .. Len(b) /\ DOMAIN tr = 1 .. Len(tr)
  BY <1>1 DEF Trace
<1> QED
  BY <1>1, <1>2

\* The loop is entered at its first span.
Enters(p, o) ==
  IF p.at = 1 THEN Dedupe(p.stage, p.at, Len(o.spans), p.fresh, p.new, p.group) ELSE p

\* The pass is still one that fits the object: alone, it began with as many spans.
LEMMA EnterKeeps ==
  ASSUME NEW o \in TraceObject, NEW p, DedupePass(p, o), NEW q, q = Enters(p, o)
  PROVE  DedupePass(q, o) /\ q.stage = p.stage
<1>1. o.spans \in Trace /\ Len(o.spans) \in Nat
  BY SpansTyped
<1>2. CASE p.at = 1
  <2>1. /\ q = Dedupe(q.stage, q.at, q.last, q.fresh, q.new, q.group)
        /\ q.stage = p.stage /\ q.at = 1 /\ q.last = Len(o.spans) /\ q.fresh = p.fresh
        /\ q.new = p.new /\ q.group = p.group
    BY <1>2, DedupeFields DEF Enters
  <2>2. /\ p.stage \in {"dedupe", "reparent", "rename", "swap"}
        /\ p.last \in 1 .. Len(o.spans) /\ p.fresh \in Nat /\ p.group \in Seq(Grouped)
        /\ p.stage \in {"reparent", "rename"} => p.fresh # 0
        /\ \A id \in DOMAIN p.new : p.new[id] \in Nat
        /\ o.alone => \E b : /\ Deduping(p, o.spans, b)
                             /\ o.orderly => b \in {o.raw, DedupeSpanIDs(o.raw), Adjusted(o.raw)}
    BY DEF DedupePass
  <2>3. q.last \in 1 .. Len(o.spans) /\ q.at \in 1 .. q.last
    BY <1>1, <2>1, <2>2
  <2>4. ASSUME NEW b, Deduping(p, o.spans, b) PROVE Deduping(q, o.spans, b)
    <3>1. Len(b) = Len(o.spans) /\ p.last = Len(b)
      BY <1>1, <2>2, <2>4, DedupingLength
    <3> QED
      BY <1>2, <2>1, <2>4, <3>1 DEF Deduping
  <2> QED
    BY <2>1, <2>2, <2>3, <2>4 DEF DedupePass
<1>3. CASE p.at # 1
  BY <1>3 DEF Enters
<1> QED
  BY <1>2, <1>3

\* The test of a span.
Tested(p, o) ==
  IF o.spans[p.at].kind = "server" /\ SharedWithClientSpan(p.group, o.spans[p.at].id)
  THEN Dedupe("reparent", p.at, p.last, p.fresh + 1, p.new, p.group)
  ELSE NextOf(p, Len(o.spans))

\* The pass stays one that fits the object.
LEMMA TestKeeps ==
  ASSUME NEW o \in TraceObject, NEW p, DedupePass(p, o), p.stage = "dedupe"
  PROVE  DedupePass(Tested(p, o), o)
<1> DEFINE tr == o.spans
           shared == tr[p.at].kind = "server" /\ SharedWithClientSpan(p.group, tr[p.at].id)
           q == Tested(p, o)
<1>0. q = IF shared THEN Dedupe("reparent", p.at, p.last, p.fresh + 1, p.new, p.group)
          ELSE NextOf(p, Len(tr))
  BY DEF Tested
<1> HIDE DEF q
<1>1. tr \in Trace /\ Len(tr) \in Nat /\ DOMAIN tr = 1 .. Len(tr)
  BY SpansTyped
<1>2. p.last \in 1 .. Len(tr) /\ p.at \in 1 .. p.last /\ p.at \in 1 .. Len(tr) /\ p.fresh \in Nat
  BY <1>1 DEF DedupePass
<1>3. ASSUME NEW b, Deduping(p, tr, b) PROVE Deduping(q, tr, b)
  <2>1. b \in Trace /\ Len(b) = Len(tr) /\ p.at \in DOMAIN b /\ p.at \in Nat /\ p.last = Len(b)
    BY <1>1, <1>3, DedupingLength
  <2>2. tr = Renaming(b, p.at) /\ p.group = GroupOf(b)
        /\ p.fresh = Cardinality(SharedTo(b, p.at)) /\ NewIs(b, p.at, p.new)
    BY <1>3 DEF Deduping
  <2>3. shared <=> p.at \in Shared(b)
    BY <2>1, <2>2, DedupingReads
  <2>4. CASE shared
    <3>1. q.stage = "reparent" /\ q.at = p.at /\ q.last = p.last /\ q.fresh = p.fresh + 1
          /\ q.new = p.new /\ q.group = p.group
      BY <1>0, <2>4, DedupeFields
    <3>2. p.fresh + 1 = Cardinality(SharedTo(b, p.at + 1))
      BY <2>1, <2>2, <2>3, <2>4, SharedCount
    <3> QED
      BY <2>1, <2>2, <2>3, <2>4, <3>1, <3>2 DEF Deduping
  <2>5. CASE ~shared
    <3>1. tr = Renaming(b, p.at + 1) /\ SharedTo(b, p.at + 1) = SharedTo(b, p.at)
      BY <2>1, <2>2, <2>3, <2>5, DedupingSkips, SharedCount
    <3>2. NewIs(b, p.at + 1, p.new)
      BY <2>2, <3>1 DEF NewIs
    <3>3. q = NextOf(p, Len(b))
      BY <1>0, <2>1, <2>5
    <3> QED
      BY <2>1, <2>2, <3>1, <3>2, <3>3, DedupingNext
  <2> QED
    BY <2>4, <2>5
<1>4. CASE shared
  <2>1. /\ q = Dedupe(q.stage, q.at, q.last, q.fresh, q.new, q.group)
        /\ q.stage = "reparent" /\ q.at = p.at /\ q.last = p.last /\ q.fresh = p.fresh + 1 /\ q.new = p.new
        /\ q.group = p.group
    BY <1>0, <1>4, DedupeFields
  <2>2. /\ p.last \in 1 .. Len(o.spans) /\ p.at \in 1 .. p.last /\ p.group \in Seq(Grouped)
        /\ \A id \in DOMAIN p.new : p.new[id] \in Nat
        /\ o.alone => \E b : /\ Deduping(p, o.spans, b)
                             /\ o.orderly => b \in {o.raw, DedupeSpanIDs(o.raw), Adjusted(o.raw)}
    BY DEF DedupePass
  <2>3. q.fresh \in Nat /\ q.fresh # 0
    BY <1>2, <2>1
  <2>4. DedupePass(q, o)
    BY <1>3, <2>1, <2>2, <2>3 DEF DedupePass
  <2> QED
    BY <2>4 DEF q
<1>5. CASE ~shared
  <2>1. q = NextOf(p, Len(tr))
    BY <1>0, <1>5
  <2>2. /\ q = Dedupe(q.stage, q.at, q.last, q.fresh, q.new, q.group)
        /\ q.stage \in {"dedupe", "swap"} /\ q.last \in 1 .. Len(tr) /\ q.at \in 1 .. q.last
        /\ q.fresh = p.fresh /\ q.new = p.new /\ q.group = p.group
    BY <1>1, <1>2, <2>1, NextOfTyped
  <2>3. DedupePass(q, o)
    BY <1>3, <2>2 DEF DedupePass
  <2> QED
    BY <2>3 DEF q
<1> QED
  BY <1>4, <1>5

\* A new id is a number, alone or not.
LEMMA FreshTyped ==
  ASSUME NEW o \in TraceObject, NEW p, DedupePass(p, o), p.stage \in {"reparent", "rename"}
  PROVE  UniqueSpanID(p.group, p.fresh) \in Nat
<1>1. p.group \in Seq(Grouped) /\ p.fresh \in Nat \ {0}
  BY DEF DedupePass
<1>2. UniqueSpanID(p.group, p.fresh) \in 1 .. Len(p.group) + p.fresh
  BY <1>1, UniqueSpanIDExists
<1> QED
  BY <1>1, <1>2

\* Both halves of the renaming use the id that DedupeSpanIDs gives the span.
LEMMA FreshIs ==
  ASSUME NEW b \in Trace, NEW n \in Shared(b), NEW fresh, fresh = Cardinality(SharedTo(b, n + 1))
  PROVE  UniqueSpanID(GroupOf(b), fresh) = NewID(b, n)
<1>1. n \in DOMAIN b
  BY DEF Shared
<1> QED
  BY <1>1, GroupStands, SharedCount

\* A step makes u of object o, and leaves its history alone.
Alters(o, u) ==
  /\ u \in TraceObject /\ Len(u.spans) = Len(o.spans) /\ u.trace = o.trace
  /\ u.seen = o.seen /\ u.orderly = o.orderly /\ u.alone = o.alone

\* A shared span becomes a child of the id it had.
Reparented(p, o) ==
  WithSpan(o, p.at, [o.spans[p.at] EXCEPT !.parent = o.spans[p.at].id])
ReparentedPass(p, o) ==
  Dedupe("rename", p.at, p.last, p.fresh,
         With(p.new, o.spans[p.at].id, UniqueSpanID(p.group, p.fresh)), p.group)

\* Pass and object still fit each other.
LEMMA ReparentKeeps ==
  ASSUME NEW o \in TraceObject, NEW p, DedupePass(p, o), p.stage = "reparent"
  PROVE  DedupePass(ReparentedPass(p, o), Reparented(p, o)) /\ Alters(o, Reparented(p, o))
<1> DEFINE s == o.spans[p.at]
           u == Reparented(p, o)
           q == ReparentedPass(p, o)
           id == UniqueSpanID(p.group, p.fresh)
           t == [s EXCEPT !.parent = s.id]
<1>0. s = o.spans[p.at] /\ u = WithSpan(o, p.at, [s EXCEPT !.parent = s.id])
      /\ q = Dedupe("rename", p.at, p.last, p.fresh,
                    With(p.new, s.id, UniqueSpanID(p.group, p.fresh)), p.group)
  BY DEF Reparented, ReparentedPass
<1> HIDE DEF s, u, q
<1> USE <1>0
<1>0a. p.last \in 1 .. Len(o.spans) /\ p.at \in 1 .. p.last
  BY DEF DedupePass
<1>1. o.spans \in Trace /\ s \in SpanRecord /\ p.at \in 1 .. Len(o.spans)
  BY <1>0a, SpansTyped
<1>2. t \in SpanRecord
  BY <1>1 DEF SpanRecord
<1>3. /\ u \in TraceObject /\ u.spans = [o.spans EXCEPT ![p.at] = t] /\ Len(u.spans) = Len(o.spans)
      /\ u.trace = o.trace /\ u.raw = o.raw /\ u.seen = o.seen /\ u.orderly = o.orderly
      /\ u.alone = o.alone
  <2> HIDE DEF t
  <2> QED
    BY <1>1, <1>2, WithSpanTyped DEF t
<1>4. id \in Nat
  BY FreshTyped
<1>6. /\ q.stage = "rename" /\ q.at = p.at /\ q.last = p.last /\ q.fresh = p.fresh /\ q.group = p.group
      /\ q.new = With(p.new, s.id, id)
      /\ q = Dedupe(q.stage, q.at, q.last, q.fresh, q.new, q.group)
  BY DedupeFields
<1>7. \A x \in DOMAIN With(p.new, s.id, id) : With(p.new, s.id, id)[x] \in Nat
  BY <1>4 DEF With, DedupePass
<1>8. ASSUME NEW b, Deduping(p, o.spans, b) PROVE Deduping(q, u.spans, b)
  <2>1. b \in Trace /\ p.at \in DOMAIN b /\ p.at \in Nat
    BY <1>1, <1>8, DedupingLength
  <2>2. /\ p.last = Len(b) /\ p.at \in Shared(b) /\ o.spans = Renaming(b, p.at) /\ p.group = GroupOf(b)
        /\ p.fresh = Cardinality(SharedTo(b, p.at + 1)) /\ NewIs(b, p.at, p.new)
    BY <1>8 DEF Deduping
  <2>3. s = b[p.at]
    BY <2>1, <2>2, DedupingReads
  <2>4. id = NewID(b, p.at)
    BY <2>1, <2>2, FreshIs
  <2>5. NewIs(b, p.at + 1, With(p.new, s.id, id))
    BY <2>1, <2>2, <2>3, <2>4, DedupingEnters
  <2> HIDE DEF id
  <2>6. u.spans = [Renaming(b, p.at) EXCEPT ![p.at] = [b[p.at] EXCEPT !.parent = b[p.at].id]]
    BY <1>3, <2>2, <2>3
  <2> QED
    BY <1>6, <2>1, <2>2, <2>5, <2>6 DEF Deduping
<1> HIDE DEF id
<1>9. DedupePass(q, u)
  <2>1. /\ p.last \in 1 .. Len(o.spans) /\ p.at \in 1 .. p.last
        /\ p.fresh \in Nat /\ p.fresh # 0 /\ p.group \in Seq(Grouped)
        /\ o.alone => \E b : /\ Deduping(p, o.spans, b)
                             /\ o.orderly => b \in {o.raw, DedupeSpanIDs(o.raw), Adjusted(o.raw)}
    BY DEF DedupePass
  <2> QED
    BY <1>3, <1>6, <1>7, <1>8, <2>1 DEF DedupePass
<1> QED
  BY <1>3, <1>9 DEF u, q, Alters

\* It gets an id of its own.
Renamed(p, o) ==
  WithSpan(o, p.at, [o.spans[p.at] EXCEPT !.id = UniqueSpanID(p.group, p.fresh)])

\* Pass and object still fit each other.
LEMMA RenameKeeps ==
  ASSUME NEW o \in TraceObject, NEW p, DedupePass(p, o), p.stage = "rename"
  PROVE  DedupePass(NextOf(p, Len(o.spans)), Renamed(p, o)) /\ Alters(o, Renamed(p, o))
<1> DEFINE s == o.spans[p.at]
           u == Renamed(p, o)
           q == NextOf(p, Len(o.spans))
           id == UniqueSpanID(p.group, p.fresh)
           t == [s EXCEPT !.id = id]
<1>0. s = o.spans[p.at] /\ u = WithSpan(o, p.at, [s EXCEPT !.id = UniqueSpanID(p.group, p.fresh)])
      /\ q = NextOf(p, Len(o.spans))
  BY DEF Renamed
<1> HIDE DEF s, u, q
<1> USE <1>0
<1>0a. p.last \in 1 .. Len(o.spans) /\ p.at \in 1 .. p.last
  BY DEF DedupePass
<1>1. o.spans \in Trace /\ s \in SpanRecord /\ p.at \in 1 .. Len(o.spans) /\ Len(o.spans) \in Nat
  BY <1>0a, SpansTyped
<1>2. id \in Nat
  BY FreshTyped
<1>3. t \in SpanRecord
  <2> HIDE DEF id
  <2> QED
    BY <1>1, <1>2 DEF SpanRecord
<1>4. /\ u \in TraceObject /\ u.spans = [o.spans EXCEPT ![p.at] = t] /\ Len(u.spans) = Len(o.spans)
      /\ u.trace = o.trace /\ u.raw = o.raw /\ u.seen = o.seen /\ u.orderly = o.orderly
      /\ u.alone = o.alone
  <2>1. u = WithSpan(o, p.at, t)
    OBVIOUS
  <2> HIDE DEF t
  <2> QED
    BY <1>1, <1>3, <2>1, WithSpanTyped
<1>6. /\ q = Dedupe(q.stage, q.at, q.last, q.fresh, q.new, q.group)
      /\ q.stage \in {"dedupe", "swap"} /\ q.last \in 1 .. Len(o.spans) /\ q.at \in 1 .. q.last
      /\ q.fresh = p.fresh /\ q.new = p.new /\ q.group = p.group
  BY <1>0a, <1>1, NextOfTyped
<1>7. ASSUME NEW b, Deduping(p, o.spans, b) PROVE Deduping(q, u.spans, b)
  <2>1. b \in Trace /\ Len(b) = Len(o.spans) /\ p.at \in DOMAIN b /\ p.at \in Nat /\ p.last = Len(b)
    BY <1>1, <1>7, DedupingLength
  <2>2. /\ p.at \in Shared(b) /\ p.group = GroupOf(b)
        /\ o.spans = [Renaming(b, p.at) EXCEPT ![p.at] = [b[p.at] EXCEPT !.parent = b[p.at].id]]
        /\ p.fresh = Cardinality(SharedTo(b, p.at + 1)) /\ NewIs(b, p.at + 1, p.new)
    BY <1>7 DEF Deduping
  <2>3. id = NewID(b, p.at)
    BY <2>1, <2>2, FreshIs
  <2>4. u.spans = Renaming(b, p.at + 1)
    <3>1. u.spans = [o.spans EXCEPT ![p.at] = [o.spans[p.at] EXCEPT !.id = NewID(b, p.at)]]
      BY <1>4, <2>3
    <3> QED
      BY <2>1, <2>2, <3>1, DedupingRenames
  <2> QED
    BY <2>1, <2>2, <2>4, DedupingNext
<1>8. DedupePass(q, u)
  BY <1>4, <1>6, <1>7 DEF DedupePass
<1> QED
  BY <1>4, <1>8 DEF u, q, Alters

\* A span's parent is swapped, if it is to be; with the last span the pass is over.
Swapped(p, o) == [o EXCEPT !.spans = SwapIn(@, p.at, p.new)]
SwappedPass(p) == Dedupe("swap", p.at + 1, p.last, p.fresh, p.new, p.group)

\* Pass and object still fit each other, and at the end the object has settled.
LEMMA SwapKeeps ==
  ASSUME NEW o \in TraceObject, NEW p, DedupePass(p, o), p.stage = "swap", o.seen
  PROVE  /\ Alters(o, Swapped(p, o))
         /\ p.at # p.last => DedupePass(SwappedPass(p), Swapped(p, o))
         /\ p.at = p.last /\ Swapped(p, o).alone => Settling(Swapped(p, o))
<1> DEFINE s == o.spans[p.at]
           u == Swapped(p, o)
           q == SwappedPass(p)
<1>0. s = o.spans[p.at] /\ u = [o EXCEPT !.spans = SwapIn(@, p.at, p.new)]
      /\ q = Dedupe("swap", p.at + 1, p.last, p.fresh, p.new, p.group)
  BY DEF Swapped, SwappedPass
<1> HIDE DEF s, u, q
<1> USE <1>0
<1>0a. p.last \in 1 .. Len(o.spans) /\ p.at \in 1 .. p.last
  BY DEF DedupePass
<1>1. o.spans \in Trace /\ s \in SpanRecord /\ p.at \in 1 .. Len(o.spans) /\ Len(o.spans) \in Nat
      /\ o.raw \in Trace
  BY <1>0a, SpansTyped
<1>2. SwapIn(o.spans, p.at, p.new) \in Trace /\ Len(SwapIn(o.spans, p.at, p.new)) = Len(o.spans)
  <2> DEFINE t == [s EXCEPT !.parent = p.new[s.parent]]
  <2>1. CASE s.parent \in DOMAIN p.new /\ p.new[s.parent] # s.id
    <3>1. t \in SpanRecord
      BY <1>1, <2>1 DEF SpanRecord, DedupePass
    <3>2. SwapIn(o.spans, p.at, p.new) = [o.spans EXCEPT ![p.at] = t]
      BY <2>1 DEF SwapIn
    <3> HIDE DEF t
    <3> QED
      BY <1>1, <3>1, <3>2, ReplaceOne DEF Trace
  <2>2. CASE ~(s.parent \in DOMAIN p.new /\ p.new[s.parent] # s.id)
    BY <1>1, <2>2 DEF SwapIn
  <2> QED
    BY <2>1, <2>2
<1>3. /\ u \in TraceObject /\ Len(u.spans) = Len(o.spans) /\ u.spans = SwapIn(o.spans, p.at, p.new)
      /\ u.trace = o.trace /\ u.raw = o.raw /\ u.seen = o.seen /\ u.orderly = o.orderly
      /\ u.alone = o.alone
  BY <1>2 DEF TraceObject
<1>4. ASSUME NEW b, Deduping(p, o.spans, b)
      PROVE  /\ b \in Trace /\ Len(b) = Len(o.spans) /\ p.at \in DOMAIN b /\ p.at \in Nat /\ p.last = Len(b)
             /\ p.group = GroupOf(b) /\ NewIs(b, Len(b) + 1, p.new)
             /\ u.spans = Swapping(b, p.at + 1)
  <2>1. b \in Trace /\ Len(b) = Len(o.spans) /\ p.at \in DOMAIN b /\ p.at \in Nat /\ p.last = Len(b)
    BY <1>1, <1>4, DedupingLength
  <2>2. p.group = GroupOf(b) /\ o.spans = Swapping(b, p.at) /\ NewIs(b, Len(b) + 1, p.new)
    BY <1>4 DEF Deduping
  <2> QED
    BY <1>3, <2>1, <2>2, DedupingSwaps
<1>5. ASSUME p.at # p.last PROVE DedupePass(q, u)
  <2>1. /\ q = Dedupe(q.stage, q.at, q.last, q.fresh, q.new, q.group) /\ q.stage = "swap"
        /\ q.at = p.at + 1 /\ q.last = p.last /\ q.fresh = p.fresh /\ q.new = p.new
        /\ q.group = p.group
    BY DedupeFields
  <2>2. q.last \in 1 .. Len(o.spans) /\ q.at \in 1 .. q.last
    BY <1>0a, <1>1, <1>5, <2>1
  <2>3. ASSUME NEW b, Deduping(p, o.spans, b) PROVE Deduping(q, u.spans, b)
    <3>1. q.at \in DOMAIN b
      BY <1>4, <2>2, <2>3 DEF Trace
    <3> QED
      BY <1>4, <2>1, <2>3, <3>1 DEF Deduping
  <2>4. /\ p.fresh \in Nat /\ p.group \in Seq(Grouped)
        /\ \A id \in DOMAIN p.new : p.new[id] \in Nat
        /\ o.alone => \E b : /\ Deduping(p, o.spans, b)
                             /\ o.orderly => b \in {o.raw, DedupeSpanIDs(o.raw), Adjusted(o.raw)}
    BY DEF DedupePass
  <2> QED
    BY <1>3, <2>1, <2>2, <2>3, <2>4 DEF DedupePass
<1>6. ASSUME p.at = p.last, u.alone, u.orderly
      PROVE  u.spans \in {DedupeSpanIDs(u.raw), Adjusted(u.raw)}
  <2>1. PICK b : Deduping(p, o.spans, b) /\ b \in {o.raw, DedupeSpanIDs(o.raw), Adjusted(o.raw)}
    BY <1>3, <1>6 DEF DedupePass
  <2>2. u.spans = DedupeSpanIDs(b)
    BY <1>4, <1>6, <2>1, LoopsEnd
  <2> QED
    BY <1>1, <1>3, <2>1, <2>2, Settled
<1>7. p.at = p.last /\ u.alone /\ u.orderly => u.spans \in {DedupeSpanIDs(u.raw), Adjusted(u.raw)}
  BY <1>6
<1>8. \A x \in TraceObject :
        (x.orderly => x.spans \in {DedupeSpanIDs(x.raw), Adjusted(x.raw)}) /\ x.seen => Settling(x)
  BY DEF Settling
<1> QED
  BY <1>3, <1>5, <1>7, <1>8 DEF u, q, Alters

\* The tree is read off.
Treed(p, o, roots) ==
  Deskew("adjust", p.at, p.skews, roots, ParentIn(p, o.spans), p.nodes)

\* The pass stays one that fits the object.
LEMMA TreeKeeps ==
  ASSUME NEW o \in TraceObject, NEW p, SkewPass(p, o), p.stage = "graph",
         NEW roots, RootsIn(p, o.spans, roots)
  PROVE  SkewPass(Treed(p, o, roots), o)
<1> DEFINE tr == o.spans
           q == Treed(p, o, roots)
<1>0. tr = o.spans /\ RootsIn(p, tr, roots)
      /\ q = Deskew("adjust", p.at, p.skews, roots, ParentIn(p, tr), p.nodes)
  BY DEF Treed
<1> HIDE DEF tr, q
<1> USE <1>0
<1>1. /\ q = Deskew(q.stage, q.at, q.skews, q.roots, q.parent, q.nodes) /\ q.stage = "adjust"
      /\ q.skews = p.skews /\ q.roots = roots /\ q.parent = ParentIn(p, tr)
      /\ q.nodes = p.nodes
  BY DeskewFields
<1>2. NodesOf(p) \subseteq 1 .. Len(o.spans)
  BY DEF SkewPass, NodesOf
<1>3. /\ roots \subseteq 1 .. Len(o.spans) /\ BelowIn(p, tr) \cap roots = {}
      /\ BelowIn(p, tr) \subseteq 1 .. Len(o.spans)
      /\ \A i \in BelowIn(p, tr) : tr[i].parent \in DOMAIN p.nodes
  BY <1>2 DEF RootsIn, BelowIn
<1>4. DOMAIN ParentIn(p, tr) = BelowIn(p, tr)
      /\ \A i \in BelowIn(p, tr) : ParentIn(p, tr)[i] \in 1 .. Len(o.spans)
  BY <1>3 DEF ParentIn, SkewPass
<1>5. ASSUME NEW b, Skewing(p, o.spans, b) PROVE Skewing(q, o.spans, b)
  <2>1. b \in Trace
    BY <1>5 DEF Skewing
  <2> QED
    BY <1>1, <1>5, <2>1, SkewingTree
<1>6. SkewPass(q, o)
  BY <1>1, <1>3, <1>4, <1>5 DEF SkewPass
<1> QED
  BY <1>6 DEF q

\* A skew, a moved span.
LEMMA SkewIsNumber ==
  ASSUME NEW child \in SpanRecord, NEW parent \in SpanRecord
  PROVE  CalculateSkew(child, parent) \in Int
BY DEF SpanRecord, CalculateSkew, FitsIn, End

\* Moving a span leaves it one.
LEMMA MovedIsSpan ==
  ASSUME NEW s \in SpanRecord, NEW delta \in Int
  PROVE  [s EXCEPT !.start = s.start + delta] \in SpanRecord
BY DEF SpanRecord

\* The skew of a node is computed.
Compared(p, o, i) ==
  Deskew("move", i, With(p.skews, i, SkewIn(p, o.spans, i)), p.roots, p.parent, p.nodes)

\* The pass stays one that fits the object.
LEMMA CompareKeeps ==
  ASSUME NEW o \in TraceObject, NEW p, SkewPass(p, o), p.stage = "adjust", NEW i \in Reachable(p)
  PROVE  SkewPass(Compared(p, o, i), o)
<1> DEFINE tr == o.spans
           skew == SkewIn(p, tr, i)
           q == Compared(p, o, i)
<1>0. tr = o.spans /\ skew = SkewIn(p, tr, i)
      /\ q = Deskew("move", i, With(p.skews, i, skew), p.roots, p.parent, p.nodes)
  BY DEF Compared
<1> HIDE DEF tr, skew, q
<1> USE <1>0
<1>1. /\ q = Deskew(q.stage, q.at, q.skews, q.roots, q.parent, q.nodes) /\ q.stage = "move"
      /\ q.at = i /\ q.skews = With(p.skews, i, skew) /\ q.roots = p.roots /\ q.parent = p.parent
      /\ q.nodes = p.nodes
  BY DeskewFields
<1>2. /\ i \in 1 .. Len(o.spans) /\ tr[i] \in SpanRecord
      /\ i \in DOMAIN p.parent => p.parent[i] \in DOMAIN p.skews /\ tr[p.parent[i]] \in SpanRecord
  BY SpansTyped DEF Reachable, SkewPass
<1>3. skew \in Skew
  <2>1. tr[i].host \in {s.host : s \in Span}
    BY <1>2 DEF SpanRecord
  <2>2. CASE i \notin DOMAIN p.parent
    BY <2>1, <2>2 DEF Skew, SkewIn
  <2>3. CASE i \in DOMAIN p.parent /\ OtherHost(tr[i], p.skews[p.parent[i]].host)
    <3>1. CalculateSkew(tr[i], tr[p.parent[i]]) \in Int
      BY <1>2, <2>3, SkewIsNumber
    <3> QED
      BY <2>1, <2>3, <3>1 DEF Skew, SkewIn
  <2>4. CASE i \in DOMAIN p.parent /\ ~OtherHost(tr[i], p.skews[p.parent[i]].host)
    BY <1>2, <2>4 DEF SkewPass, SkewIn
  <2> QED
    BY <2>2, <2>3, <2>4
<1>4. DOMAIN q.skews = DOMAIN p.skews \cup {i}
      /\ \A j \in DOMAIN q.skews : q.skews[j] = IF j = i THEN skew ELSE p.skews[j]
  BY <1>1 DEF With
<1>5. ASSUME NEW b, Skewing(p, o.spans, b) PROVE Skewing(q, o.spans, b)
  <2>1. b \in Trace
    BY <1>5 DEF Skewing
  <2> QED
    BY <1>1, <1>5, <2>1, SkewingCompares
<1>6. SkewPass(q, o)
  BY <1>1, <1>2, <1>3, <1>4, <1>5 DEF SkewPass
<1> QED
  BY <1>6 DEF q

\* A node is moved.
MovedObject(p, o) ==
  WithSpan(o, p.at, [o.spans[p.at] EXCEPT !.start = o.spans[p.at].start + p.skews[p.at].delta])
MovedPass(p) == Deskew("adjust", p.at, p.skews, p.roots, p.parent, p.nodes)

\* Pass and object still fit each other.
LEMMA MoveKeeps ==
  ASSUME NEW o \in TraceObject, NEW p, SkewPass(p, o), p.stage = "move"
  PROVE  SkewPass(MovedPass(p), MovedObject(p, o)) /\ Alters(o, MovedObject(p, o))
<1> DEFINE s == o.spans[p.at]
           t == [s EXCEPT !.start = s.start + p.skews[p.at].delta]
           u == MovedObject(p, o)
           q == MovedPass(p)
<1>0. s = o.spans[p.at] /\ u = WithSpan(o, p.at, [s EXCEPT !.start = s.start + p.skews[p.at].delta])
      /\ q = Deskew("adjust", p.at, p.skews, p.roots, p.parent, p.nodes)
  BY DEF MovedObject, MovedPass
<1> HIDE DEF s, u, q
<1> USE <1>0
<1>1. p.at \in 1 .. Len(o.spans) /\ p.skews[p.at].delta \in Int /\ s \in SpanRecord
  BY SpansTyped DEF SkewPass, Skew
<1>2. t \in SpanRecord
  BY <1>1, MovedIsSpan
<1>3. /\ u \in TraceObject /\ u.spans = [o.spans EXCEPT ![p.at] = t] /\ Len(u.spans) = Len(o.spans)
      /\ u.trace = o.trace /\ u.raw = o.raw /\ u.seen = o.seen /\ u.orderly = o.orderly
      /\ u.alone = o.alone
  <2>1. u = WithSpan(o, p.at, t)
    OBVIOUS
  <2> HIDE DEF t
  <2> QED
    BY <1>1, <1>2, <2>1, WithSpanTyped
<1>4. /\ q = Deskew(q.stage, q.at, q.skews, q.roots, q.parent, q.nodes) /\ q.stage = "adjust"
      /\ q.skews = p.skews /\ q.roots = p.roots /\ q.parent = p.parent /\ q.nodes = p.nodes
  BY DeskewFields
<1>5. ASSUME NEW b, Skewing(p, o.spans, b) PROVE Skewing(q, u.spans, b)
  <2>1. b \in Trace
    BY <1>5 DEF Skewing
  <2> QED
    BY <1>3, <1>4, <1>5, <2>1, SkewingMoves
<1>6. SkewPass(q, u)
  BY <1>3, <1>4, <1>5 DEF SkewPass
<1> QED
  BY <1>3, <1>6 DEF u, q, Alters

\* No node is left: what a pass that was alone has made of the object.
LEMMA SkewIsDone ==
  ASSUME NEW o \in TraceObject, NEW p, SkewPass(p, o), p.stage = "adjust", Reachable(p) = {}, o.alone
  PROVE  ChildrenFit(o.spans) /\ (o.orderly => o.spans = Adjusted(o.raw))
<1>1. PICK b : Skewing(p, o.spans, b) /\ (o.orderly => b \in {DedupeSpanIDs(o.raw), Adjusted(o.raw)})
  BY DEF SkewPass
<1>2. b \in Trace
  BY <1>1 DEF Skewing
<1>3. o.spans = AdjustClockSkew(b)
  BY <1>1, <1>2, SkewingEnds
<1>4. o.raw \in Trace
  BY SpansTyped
<1> QED
  BY <1>1, <1>2, <1>3, <1>4, AdjustedFits, Settled

-----------------------------------------------------------------------------
(* The steps of an adjuster                                                *)

\* A pass is of the adjuster its stage is of.
LEMMA InDedupe ==
  ASSUME SInv, NEW a \in Adjuster, pass[a].stage \in {"dedupe", "reparent", "rename", "swap"}
  PROVE  /\ held[a] # <<>> /\ pass[a] \notin {Raw, Deduped} /\ heap[Head(held[a])].seen
         /\ DedupePass(pass[a], heap[Head(held[a])])
<1>1. pass[a] \notin {Raw, Deduped}
  BY DEF Raw, Deduped
<1>2. held[a] # <<>> /\ InPass(pass[a], heap[Head(held[a])])
  BY <1>1 DEF SInv, Passing
<1>3. ~SkewPass(pass[a], heap[Head(held[a])])
  BY DEF SkewPass
<1> QED
  BY <1>1, <1>2, <1>3 DEF InPass

\* The same of the other adjuster.
LEMMA InSkew ==
  ASSUME SInv, NEW a \in Adjuster, pass[a].stage \in {"graph", "adjust", "move"}
  PROVE  /\ held[a] # <<>> /\ pass[a] \notin {Raw, Deduped} /\ heap[Head(held[a])].seen
         /\ SkewPass(pass[a], heap[Head(held[a])])
<1>1. pass[a] \notin {Raw, Deduped}
  BY DEF Raw, Deduped
<1>2. held[a] # <<>> /\ InPass(pass[a], heap[Head(held[a])])
  BY <1>1 DEF SInv, Passing
<1>3. ~DedupePass(pass[a], heap[Head(held[a])])
  BY DEF DedupePass
<1> QED
  BY <1>1, <1>2, <1>3 DEF InPass

\* A step within a pass.
LEMMA StepWithin ==
  ASSUME SInv, NEW a \in Adjuster, held[a] # <<>>, pass[a] \notin {Raw, Deduped},
         NEW k, k = Head(held[a]), NEW u \in TraceObject, heap' = [heap EXCEPT ![k] = u],
         NEW p, pass' = [pass EXCEPT ![a] = p], held' = held, traces' = traces,
         Len(u.spans) = Len(heap[k].spans), u.seen = heap[k].seen, heap[k].seen,
         u.alone = heap[k].alone, u.orderly = heap[k].orderly,
         DedupePass(p, u) \/ SkewPass(p, u)
  PROVE  SInv'
<1>1. InPass(p, u)
  BY DEF InPass
<1>2. p \notin {Raw, Deduped}
  BY DEF DedupePass, SkewPass, Raw, Deduped
<1>3. held' = [held EXCEPT ![a] = held[a]]
  BY DEF SInv, StoreTyped
<1>4. /\ u.alone => \A c \in Adjuster \ {a} : ~At(c, k)
      /\ u.orderly => u.alone
  BY WithinPass
<1> QED
  BY <1>1, <1>2, <1>3, <1>4, StepKeeps

\* An object as it is.
LEMMA SameObject ==
  ASSUME SInv, NEW a \in Adjuster, held[a] # <<>>, heap' = heap, NEW k, k = Head(held[a])
  PROVE  heap' = [heap EXCEPT ![k] = heap[k]] /\ heap[k] \in TraceObject
<1>1. k \in DOMAIN heap /\ heap[k] \in TraceObject /\ heap \in Seq(TraceObject)
  BY HeadOfHeld DEF SInv, StoreTyped
<1> QED
  BY <1>1

\* The fields of an object whose pass has begun.
LEMMA BegunTyped ==
  ASSUME NEW o \in TraceObject, NEW others \in BOOLEAN, NEW u, u = Begun(o, others)
  PROVE  /\ u \in TraceObject /\ u.trace = o.trace /\ u.spans = o.spans /\ u.raw = o.raw /\ u.seen
         /\ u.orderly <=> o.orderly /\ ~others
         /\ u.alone <=> ~others
<1> DEFINE orderly == o.orderly /\ ~others
           alone == ~others
<1>1. orderly \in BOOLEAN /\ alone \in BOOLEAN
  OBVIOUS
<1>2. (orderly <=> o.orderly /\ ~others) /\ (alone <=> ~others)
  OBVIOUS
<1>3. u = [o EXCEPT !.seen = TRUE, !.orderly = orderly, !.alone = alone]
  BY DEF Begun
<1> HIDE DEF orderly, alone
<1>4. u = [trace |-> o.trace, spans |-> o.spans, raw |-> o.raw, seen |-> TRUE,
           orderly |-> orderly, alone |-> alone]
  BY <1>3 DEF TraceObject
<1>5. u \in TraceObject /\ u.trace = o.trace /\ u.spans = o.spans /\ u.raw = o.raw /\ u.seen = TRUE
      /\ u.orderly = orderly /\ u.alone = alone
  BY <1>1, <1>4 DEF TraceObject
<1> QED
  BY <1>2, <1>5

\* Somebody else is at the object.
Others(a, k) == \E c \in Adjuster \ {a} : At(c, k)

\* What Begin makes of the object held.
LEMMA BegunHere ==
  ASSUME SInv, NEW a \in Adjuster, held[a] # <<>>,
         NEW k, k = Head(held[a]), NEW u, u = Begun(heap[k], Others(a, k))
  PROVE  /\ u \in TraceObject /\ u.trace = heap[k].trace /\ u.spans = heap[k].spans
         /\ u.raw = heap[k].raw /\ u.seen
         /\ u.orderly <=> heap[k].orderly /\ ~Others(a, k)
         /\ u.alone <=> ~Others(a, k)
<1>1. heap[k] \in TraceObject
  BY HeadOfHeld
<1>2. Others(a, k) \in BOOLEAN
  BY DEF Others
<1> QED
  BY <1>1, <1>2, BegunTyped

\* A pass is neither of the two that are none.
LEMMA PassIsPass ==
  ASSUME NEW p, NEW u, u.seen, DedupePass(p, u) \/ SkewPass(p, u)
  PROVE  InPass(p, u) /\ p \notin {Raw, Deduped}
<1>1. p.stage \in {"dedupe", "reparent", "rename", "swap", "graph", "adjust", "move"}
  BY DEF DedupePass, SkewPass
<1>2. p \notin {Raw, Deduped}
  BY <1>1 DEF Raw, Deduped
<1> QED
  BY <1>2 DEF InPass

\* Beginning a pass: what holds of the object held is what Begin makes of it.
LEMMA BeginKeeps ==
  ASSUME SInv, NEW a \in Adjuster, held[a] # <<>>, pass[a] \in {Raw, Deduped},
         NEW p, Begin(a, p), NEW k, k = Head(held[a]),
         NEW u, u = Begun(heap[k], Others(a, k)),
         DedupePass(p, u) \/ SkewPass(p, u)
  PROVE  SInv'
<1>1. heap[k] \in TraceObject /\ k \in DOMAIN heap /\ heap \in Seq(TraceObject)
  BY HeadOfHeld DEF SInv, StoreTyped
<1>2. /\ u \in TraceObject /\ u.spans = heap[k].spans /\ u.seen
      /\ u.orderly <=> heap[k].orderly /\ ~Others(a, k)
      /\ u.alone <=> ~Others(a, k)
  BY BegunHere
<1>3. heap' = [heap EXCEPT ![k] = u] /\ pass' = [pass EXCEPT ![a] = p] /\ held' = held /\ traces' = traces
  BY <1>1 DEF Begin, Step, Writes, storeVars, Others
<1>4. held' = [held EXCEPT ![a] = held[a]]
  BY <1>3 DEF SInv, StoreTyped
<1>5. InPass(p, u) /\ p \notin {Raw, Deduped}
  BY <1>2, PassIsPass
<1>6. /\ u.alone => \A c \in Adjuster \ {a} : ~At(c, k)
      /\ u.orderly => u.alone
  BY <1>2 DEF Others
<1> QED
  BY <1>2, <1>3, <1>4, <1>5, <1>6, StepKeeps

\* The object a holds before its pass, if nobody else is at it.
LEMMA BeforePass ==
  ASSUME SInv, NEW a \in Adjuster, held[a] # <<>>, pass[a] \in {Raw, Deduped},
         NEW k, k = Head(held[a]), NEW u, u = Begun(heap[k], Others(a, k)), u.orderly
  PROVE  Settling(heap[k]) /\ heap[k].orderly
<1>1. k \in DOMAIN heap
  BY HeadOfHeld
<1>2. heap[k].orderly /\ ~Others(a, k)
  BY BegunHere
<1>3. ~\E c \in Adjuster : At(c, k)
  BY <1>2 DEF At, Others
<1> QED
  BY <1>1, <1>2, <1>3 DEF SInv, Orderly

\* SpanIDDeduper begins.
LEMMA SInvGroupSpans ==
  ASSUME SInv, NEW a \in Adjuster, held[a] # <<>>, GroupSpans(a)
  PROVE  SInv'
<1> DEFINE k == Head(held[a])
           o == heap[k]
           u == Begun(o, Others(a, k))
           p == Dedupe("dedupe", 1, Len(o.spans), 0, <<>>, GroupOf(o.spans))
<1>1. pass[a] = Raw /\ Begin(a, p)
  BY DEF GroupSpans, Dedupe, GroupOf, Spans
<1>2. o \in TraceObject /\ Len(o.spans) \in Nat \ {0}
  BY HeadOfHeld
<1>3. u.spans = o.spans /\ u.raw = o.raw
  BY BegunHere
<1>4. u.orderly => Settling(o) /\ o.orderly
  BY <1>1, BeforePass
<1> HIDE DEF u
<1>5. /\ p = Dedupe(p.stage, p.at, p.last, p.fresh, p.new, p.group) /\ p.stage = "dedupe" /\ p.at = 1
      /\ p.last = Len(o.spans) /\ p.fresh = 0 /\ p.new = <<>> /\ p.group = GroupOf(o.spans)
  BY DedupeFields
<1> HIDE DEF p, o
<1>6. GroupOf(o.spans) \in Seq(Grouped)
  <2>1. GroupOf(o.spans) \in [1 .. Len(o.spans) -> Grouped]
    BY <1>2, SpansTyped DEF GroupOf, Grouped, SpanRecord
  <2> QED
    BY <1>2, <2>1, SequenceOf
<1>7. Deduping(p, o.spans, o.spans)
  <2>1. o.spans \in Trace /\ o.spans # <<>>
    BY <1>2, SpansTyped
  <2> QED
    BY <1>5, <2>1, DedupingBegins
<1>8. u.orderly => o.spans \in {u.raw, DedupeSpanIDs(u.raw), Adjusted(u.raw)}
  BY <1>3, <1>4 DEF Settling
<1>9. p.last \in 1 .. Len(o.spans) /\ p.at \in 1 .. p.last /\ p.fresh \in Nat /\ \A id \in DOMAIN p.new : p.new[id] \in Nat
  BY <1>2, <1>5
<1>10. DedupePass(p, u)
  BY <1>3, <1>5, <1>6, <1>7, <1>8, <1>9 DEF DedupePass
<1> QED
  BY <1>1, <1>10, BeginKeeps DEF o, u

\* The statements of DedupeSpanIDs as the model writes them.
LEMMA DedupeExcept ==
  ASSUME NEW p, p = Dedupe(p.stage, p.at, p.last, p.fresh, p.new, p.group), NEW x
  PROVE  /\ [p EXCEPT !.last = x] = Dedupe(p.stage, p.at, x, p.fresh, p.new, p.group)
         /\ [p EXCEPT !.stage = "reparent", !.fresh = @ + 1]
            = Dedupe("reparent", p.at, p.last, p.fresh + 1, p.new, p.group)
         /\ [p EXCEPT !.stage = "rename", !.new = x]
            = Dedupe("rename", p.at, p.last, p.fresh, x, p.group)
         /\ p.stage = "swap" =>
              [p EXCEPT !.at = @ + 1] = Dedupe("swap", p.at + 1, p.last, p.fresh, p.new, p.group)
         /\ [p EXCEPT !.stage = "dedupe", !.at = @ + 1]
            = Dedupe("dedupe", p.at + 1, p.last, p.fresh, p.new, p.group)
         /\ [p EXCEPT !.stage = "swap", !.at = 1, !.last = x]
            = Dedupe("swap", 1, x, p.fresh, p.new, p.group)
<1>0. p \in [stage : {p.stage}, at : {p.at}, last : {p.last}, fresh : {p.fresh}, new : {p.new},
             group : {p.group}]
  BY DEF Dedupe
<1>1. ASSUME NEW q, q = [p EXCEPT !.stage = "reparent", !.fresh = @ + 1]
      PROVE  q = Dedupe("reparent", p.at, p.last, p.fresh + 1, p.new, p.group)
  <2>1. q \in [stage : {"reparent"}, at : {p.at}, last : {p.last}, fresh : {p.fresh + 1}, new : {p.new},
              group : {p.group}]
    BY <1>0, <1>1
  <2> QED
    BY <2>1 DEF Dedupe
<1>2. ASSUME NEW q, q = [p EXCEPT !.stage = "rename", !.new = x]
      PROVE  q = Dedupe("rename", p.at, p.last, p.fresh, x, p.group)
  <2>1. q \in [stage : {"rename"}, at : {p.at}, last : {p.last}, fresh : {p.fresh}, new : {x},
              group : {p.group}]
    BY <1>0, <1>2
  <2> QED
    BY <2>1 DEF Dedupe
<1>3. ASSUME NEW q, q = [p EXCEPT !.at = @ + 1], p.stage = "swap"
      PROVE  q = Dedupe("swap", p.at + 1, p.last, p.fresh, p.new, p.group)
  <2>1. q \in [stage : {"swap"}, at : {p.at + 1}, last : {p.last}, fresh : {p.fresh}, new : {p.new},
              group : {p.group}]
    BY <1>0, <1>3
  <2> QED
    BY <2>1 DEF Dedupe
<1>4. ASSUME NEW q, q = [p EXCEPT !.stage = "dedupe", !.at = @ + 1]
      PROVE  q = Dedupe("dedupe", p.at + 1, p.last, p.fresh, p.new, p.group)
  <2>1. q \in [stage : {"dedupe"}, at : {p.at + 1}, last : {p.last}, fresh : {p.fresh}, new : {p.new},
              group : {p.group}]
    BY <1>0, <1>4
  <2> QED
    BY <2>1 DEF Dedupe
<1>5. ASSUME NEW q, q = [p EXCEPT !.stage = "swap", !.at = 1, !.last = x]
      PROVE  q = Dedupe("swap", 1, x, p.fresh, p.new, p.group)
  <2>1. q \in [stage : {"swap"}, at : {1}, last : {x}, fresh : {p.fresh}, new : {p.new},
              group : {p.group}]
    BY <1>0, <1>5
  <2> QED
    BY <2>1 DEF Dedupe
<1>6. ASSUME NEW q, q = [p EXCEPT !.last = x]
      PROVE  q = Dedupe(p.stage, p.at, x, p.fresh, p.new, p.group)
  <2>1. q \in [stage : {p.stage}, at : {p.at}, last : {x}, fresh : {p.fresh}, new : {p.new},
              group : {p.group}]
    BY <1>0, <1>6
  <2> QED
    BY <2>1 DEF Dedupe
<1> QED
  BY <1>1, <1>2, <1>3, <1>4, <1>5, <1>6

\* NextSpan in terms of the record.
LEMMA NextSpanIs ==
  ASSUME NEW a, NEW p, p = Dedupe(p.stage, p.at, p.last, p.fresh, p.new, p.group)
  PROVE  NextSpan(a, p) = NextOf(p, Len(Spans(a)))
BY DedupeExcept DEF NextSpan, NextOf

\* Entered in terms of the record.
LEMMA EnteredIs ==
  ASSUME NEW a, NEW p, p = Dedupe(p.stage, p.at, p.last, p.fresh, p.new, p.group)
  PROVE  Entered(a, p) = Enters(p, heap[Head(held[a])])
BY DedupeExcept DEF Entered, Enters, Spans

\* A step within a pass that alters the object held.
LEMMA StepAlters ==
  ASSUME SInv, NEW a \in Adjuster, held[a] # <<>>, pass[a] \notin {Raw, Deduped},
         NEW k, k = Head(held[a]), heap[k].seen, NEW u, Alters(heap[k], u),
         heap' = [heap EXCEPT ![k] = u], NEW p, pass' = [pass EXCEPT ![a] = p],
         held' = held, traces' = traces, DedupePass(p, u) \/ SkewPass(p, u)
  PROVE  SInv'
BY StepWithin DEF Alters

\* TestSpan keeps the invariant.
LEMMA SInvTestSpan ==
  ASSUME SInv, NEW a \in Adjuster, TestSpan(a)
  PROVE  SInv'
<1> DEFINE k == Head(held[a])
           o == heap[k]
           p == pass[a]
           q == Entered(a, p)
<1>1. p.stage = "dedupe"
  BY DEF TestSpan
<1>2. held[a] # <<>> /\ p \notin {Raw, Deduped} /\ o.seen /\ DedupePass(p, o)
  BY <1>1, InDedupe
<1>3. o \in TraceObject /\ p = Dedupe(p.stage, p.at, p.last, p.fresh, p.new, p.group)
  BY <1>2, HeadOfHeld DEF DedupePass
<1>4. DedupePass(q, o) /\ q.stage = "dedupe"
  BY <1>1, <1>2, <1>3, EnteredIs, EnterKeeps
<1>5. q = Dedupe(q.stage, q.at, q.last, q.fresh, q.new, q.group)
  BY <1>4 DEF DedupePass
<1>6. pass' = [pass EXCEPT ![a] = IF /\ o.spans[q.at].kind = "server"
                                     /\ SharedWithClientSpan(q.group, o.spans[q.at].id)
                                  THEN [q EXCEPT !.stage = "reparent", !.fresh = @ + 1]
                                  ELSE NextSpan(a, q)]
      /\ heap' = heap /\ held' = held /\ traces' = traces
  BY DEF TestSpan, Step, Reads, storeVars, Spans
<1> HIDE DEF q
<1>7. pass' = [pass EXCEPT ![a] = Tested(q, o)]
  BY <1>5, <1>6, DedupeExcept, NextSpanIs DEF Spans, Tested
<1>8. heap' = [heap EXCEPT ![k] = o]
  BY <1>2, <1>6, SameObject
<1>9. DedupePass(Tested(q, o), o)
  BY <1>3, <1>4, TestKeeps
<1> QED
  BY <1>2, <1>3, <1>6, <1>7, <1>8, <1>9, StepWithin

\* So does ReparentSpan, the first half of the renaming.
LEMMA SInvReparentSpan ==
  ASSUME SInv, NEW a \in Adjuster, ReparentSpan(a)
  PROVE  SInv'
<1> DEFINE k == Head(held[a])
           o == heap[k]
           p == pass[a]
<1>1. p.stage = "reparent"
  BY DEF ReparentSpan
<1>2. held[a] # <<>> /\ p \notin {Raw, Deduped} /\ o.seen /\ DedupePass(p, o)
  BY <1>1, InDedupe
<1>3. p = Dedupe(p.stage, p.at, p.last, p.fresh, p.new, p.group)
  BY <1>2 DEF DedupePass
<1>4. o \in TraceObject
  BY <1>2, HeadOfHeld
<1>5. pass' = [pass EXCEPT ![a] = ReparentedPass(p, o)] /\ held' = held /\ traces' = traces
  BY <1>3, DedupeExcept DEF ReparentSpan, Step, Writes, storeVars, Spans, ReparentedPass
<1>6. heap' = [heap EXCEPT ![k] = Reparented(p, o)]
  BY DEF ReparentSpan, Set, Spans, WithSpan, Reparented
<1>7. DedupePass(ReparentedPass(p, o), Reparented(p, o)) /\ Alters(o, Reparented(p, o))
  BY <1>1, <1>2, <1>4, ReparentKeeps
<1> QED
  BY <1>2, <1>5, <1>6, <1>7, StepAlters

\* So does RenameSpan, the second.
LEMMA SInvRenameSpan ==
  ASSUME SInv, NEW a \in Adjuster, RenameSpan(a)
  PROVE  SInv'
<1> DEFINE k == Head(held[a])
           o == heap[k]
           p == pass[a]
<1>1. p.stage = "rename"
  BY DEF RenameSpan
<1>2. held[a] # <<>> /\ p \notin {Raw, Deduped} /\ o.seen /\ DedupePass(p, o)
  BY <1>1, InDedupe
<1>3. p = Dedupe(p.stage, p.at, p.last, p.fresh, p.new, p.group)
  BY <1>2 DEF DedupePass
<1>4. o \in TraceObject
  BY <1>2, HeadOfHeld
<1>5. pass' = [pass EXCEPT ![a] = NextOf(p, Len(o.spans))] /\ held' = held /\ traces' = traces
  BY <1>3, NextSpanIs DEF RenameSpan, Step, Writes, storeVars, Spans
<1>6. heap' = [heap EXCEPT ![k] = Renamed(p, o)]
  BY DEF RenameSpan, Set, Spans, WithSpan, Renamed
<1>7. DedupePass(NextOf(p, Len(o.spans)), Renamed(p, o)) /\ Alters(o, Renamed(p, o))
  BY <1>1, <1>2, <1>4, RenameKeeps
<1> QED
  BY <1>2, <1>5, <1>6, <1>7, StepAlters

\* The parent is swapped in the object held.
LEMMA SwapObject ==
  ASSUME SInv, NEW a \in Adjuster, SwapParent(a), NEW k, k = Head(held[a]), held[a] # <<>>
  PROVE  heap' = [heap EXCEPT ![k] = Swapped(pass[a], heap[k])]
<1> DEFINE p == pass[a]
           o == heap[k]
           s == o.spans[p.at]
<1>1. k \in DOMAIN heap /\ o \in TraceObject /\ heap \in Seq(TraceObject)
  BY HeadOfHeld DEF SInv, StoreTyped
<1>2. CASE s.parent \in DOMAIN p.new /\ p.new[s.parent] # s.id
  <2>1. heap' = [heap EXCEPT ![k].spans[p.at]["parent"] = p.new[s.parent]]
    BY <1>2 DEF SwapParent, Set, Spans
  <2>2. SwapIn(o.spans, p.at, p.new) = [o.spans EXCEPT ![p.at] = [s EXCEPT !.parent = p.new[s.parent]]]
    BY <1>2 DEF SwapIn
  <2> QED
    BY <2>1, <2>2 DEF Swapped
<1>3. CASE ~(s.parent \in DOMAIN p.new /\ p.new[s.parent] # s.id)
  <2>1. heap' = heap
    BY <1>3 DEF SwapParent, Spans
  <2>2. SwapIn(o.spans, p.at, p.new) = o.spans
    BY <1>3 DEF SwapIn
  <2>3. Swapped(p, o) = o
    BY <1>1, <2>2 DEF Swapped, TraceObject
  <2> QED
    BY <1>1, <2>1, <2>3
<1> QED
  BY <1>2, <1>3

\* So does SwapParent, which ends the pass of SpanIDDeduper.
LEMMA SInvSwapParent ==
  ASSUME SInv, NEW a \in Adjuster, SwapParent(a)
  PROVE  SInv'
<1> DEFINE k == Head(held[a])
           o == heap[k]
           p == pass[a]
           u == Swapped(p, o)
<1>1. p.stage = "swap"
  BY DEF SwapParent
<1>2. held[a] # <<>> /\ p \notin {Raw, Deduped} /\ o.seen /\ DedupePass(p, o)
  BY <1>1, InDedupe
<1>3. p = Dedupe(p.stage, p.at, p.last, p.fresh, p.new, p.group)
  BY <1>2 DEF DedupePass
<1>4. o \in TraceObject
  BY <1>2, HeadOfHeld
<1>5. heap' = [heap EXCEPT ![k] = u] /\ traces' = traces
  BY <1>2, SwapObject DEF SwapParent, storeVars
<1>6. /\ Alters(o, u)
      /\ p.at # p.last => DedupePass(SwappedPass(p), u)
      /\ p.at = p.last /\ u.alone => Settling(u)
  BY <1>1, <1>2, <1>4, SwapKeeps
<1>7. CASE p.at # p.last
  <2>1. pass' = [pass EXCEPT ![a] = SwappedPass(p)] /\ held' = held
    BY <1>1, <1>3, <1>7, DedupeExcept DEF SwapParent, Step, Spans, SwappedPass
  <2> QED
    BY <1>2, <1>5, <1>6, <1>7, <2>1, StepAlters
<1>8. CASE p.at = p.last
  <2> DEFINE q == IF a = Dependencies THEN Tail(held[a]) ELSE held[a]
             z == IF a = Dependencies THEN Raw ELSE Deduped
  <2>1. pass' = [pass EXCEPT ![a] = z] /\ held' = [held EXCEPT ![a] = q]
    BY <1>8 DEF SwapParent, Step, Spans, SInv, StoreTyped
  <2>2. (q = held[a] \/ (z = Raw /\ q = Tail(held[a]))) /\ (z = Raw \/ z = Deduped)
    OBVIOUS
  <2> HIDE DEF q, z
  <2>3. /\ u.alone => \A c \in Adjuster \ {a} : ~At(c, k)
        /\ u.orderly => u.alone
    BY <1>2, <1>4, <1>6, WithinPass DEF Alters
  <2>4. Settling(u)
    BY <1>6, <1>8, <2>3 DEF Settling
  <2>5. z # Raw => InPass(z, u)
    BY <1>2, <1>6, <2>2 DEF InPass, Alters
  <2>6. u \in TraceObject /\ Len(u.spans) = Len(o.spans) /\ u.seen
    BY <1>2, <1>6 DEF Alters
  <2> HIDE DEF u, o, p, k
  <2> QED
    BY <1>2, <1>5, <2>1, <2>2, <2>3, <2>4, <2>5, <2>6, StepKeeps DEF k, o
<1> QED
  BY <1>7, <1>8

\* The statements of AdjustClockSkew as the model writes them.
LEMMA DeskewExcept ==
  ASSUME NEW p, p = Deskew(p.stage, p.at, p.skews, p.roots, p.parent, p.nodes), NEW x, NEW y
  PROVE  /\ [p EXCEPT !.stage = "adjust", !.roots = x, !.parent = y]
            = Deskew("adjust", p.at, p.skews, x, y, p.nodes)
         /\ [p EXCEPT !.stage = "move", !.at = x, !.skews = y]
            = Deskew("move", x, y, p.roots, p.parent, p.nodes)
         /\ [p EXCEPT !.stage = "adjust"] = Deskew("adjust", p.at, p.skews, p.roots, p.parent, p.nodes)
<1>0. p \in [stage : {p.stage}, at : {p.at}, skews : {p.skews}, roots : {p.roots},
             parent : {p.parent}, nodes : {p.nodes}]
  BY DEF Deskew
<1>1. ASSUME NEW q, q = [p EXCEPT !.stage = "adjust", !.roots = x, !.parent = y]
      PROVE  q = Deskew("adjust", p.at, p.skews, x, y, p.nodes)
  <2>1. q \in [stage : {"adjust"}, at : {p.at}, skews : {p.skews}, roots : {x},
               parent : {y}, nodes : {p.nodes}]
    BY <1>0, <1>1
  <2> QED
    BY <2>1 DEF Deskew
<1>2. ASSUME NEW q, q = [p EXCEPT !.stage = "move", !.at = x, !.skews = y]
      PROVE  q = Deskew("move", x, y, p.roots, p.parent, p.nodes)
  <2>1. q \in [stage : {"move"}, at : {x}, skews : {y}, roots : {p.roots},
               parent : {p.parent}, nodes : {p.nodes}]
    BY <1>0, <1>2
  <2> QED
    BY <2>1 DEF Deskew
<1>3. ASSUME NEW q, q = [p EXCEPT !.stage = "adjust"]
      PROVE  q = Deskew("adjust", p.at, p.skews, p.roots, p.parent, p.nodes)
  <2>1. q \in [stage : {"adjust"}, at : {p.at}, skews : {p.skews}, roots : {p.roots},
               parent : {p.parent}, nodes : {p.nodes}]
    BY <1>0, <1>3
  <2> QED
    BY <2>1 DEF Deskew
<1> QED
  BY <1>1, <1>2, <1>3

\* ClockSkew begins.
LEMMA SInvBuildNodes ==
  ASSUME SInv, NEW a \in Adjuster, held[a] # <<>>, BuildNodes(a)
  PROVE  SInv'
<1> DEFINE k == Head(held[a])
           o == heap[k]
           u == Begun(o, Others(a, k))
           nodes == [id \in IDs(o.spans) |-> CHOOSE i \in Nodes(o.spans) : o.spans[i].id = id]
           p == Deskew("graph", 0, <<>>, {}, <<>>, nodes)
<1>1. pass[a] = Deduped /\ Begin(a, p)
  BY DEF BuildNodes, Deskew, Spans
<1>2. o \in TraceObject /\ Len(o.spans) \in Nat \ {0} /\ o.spans \in Trace /\ o.seen
  <2>1. pass[a] # Raw
    BY <1>1 DEF Raw, Deduped
  <2> QED
    BY <2>1, HeadOfHeld, SpansTyped DEF SInv, Passing, InPass
<1>3. u.spans = o.spans /\ u.raw = o.raw
  BY BegunHere
<1>4. u.orderly => Settling(o) /\ o.orderly
  BY <1>1, BeforePass
<1> HIDE DEF u
<1>5. /\ p = Deskew(p.stage, p.at, p.skews, p.roots, p.parent, p.nodes) /\ p.stage = "graph"
      /\ p.at = 0 /\ p.skews = <<>> /\ p.roots = {} /\ p.parent = <<>> /\ p.nodes = nodes
  <2> HIDE DEF nodes
  <2> QED
    BY DeskewFields
<1> HIDE DEF p, o
<1>6. Skewing(p, o.spans, o.spans)
  BY <1>2, <1>5, SkewingBegins
<1>7. u.orderly => o.spans \in {DedupeSpanIDs(u.raw), Adjusted(u.raw)}
  BY <1>2, <1>3, <1>4 DEF Settling
<1>8. DOMAIN p.nodes = IDs(o.spans) /\ \A id \in DOMAIN p.nodes : p.nodes[id] \in 1 .. Len(o.spans)
  <2>1. DOMAIN p.nodes = IDs(o.spans)
    BY <1>5
  <2>2. \A id \in IDs(o.spans) : p.nodes[id] \in Nodes(o.spans)
    BY <1>5, <1>6 DEF Skewing
  <2> QED
    BY <1>2, <2>1, <2>2 DEF Nodes, Trace
<1> HIDE DEF nodes
<1>9. SkewPass(p, u)
  BY <1>3, <1>5, <1>6, <1>7, <1>8 DEF SkewPass
<1> QED
  BY <1>1, <1>9, BeginKeeps DEF o, u

\* BuildSubGraphs keeps the invariant.
LEMMA SInvBuildSubGraphs ==
  ASSUME SInv, NEW a \in Adjuster, BuildSubGraphs(a)
  PROVE  SInv'
<1> DEFINE k == Head(held[a])
           o == heap[k]
           p == pass[a]
<1>1. p.stage = "graph"
  BY DEF BuildSubGraphs
<1>2. held[a] # <<>> /\ p \notin {Raw, Deduped} /\ o.seen /\ SkewPass(p, o)
  BY <1>1, InSkew
<1>3. p = Deskew(p.stage, p.at, p.skews, p.roots, p.parent, p.nodes)
  BY <1>2 DEF SkewPass
<1>4. PICK roots : /\ RootsIn(p, o.spans, roots)
                   /\ Step(a, [p EXCEPT !.stage = "adjust", !.roots = roots,
                                        !.parent = ParentIn(p, o.spans)])
  BY DEF BuildSubGraphs, RootsIn, NodesOf, BelowIn, ParentIn, Spans
<1>5. pass' = [pass EXCEPT ![a] = Treed(p, o, roots)] /\ heap' = heap /\ held' = held /\ traces' = traces
  <2>1. [p EXCEPT !.stage = "adjust", !.roots = roots, !.parent = ParentIn(p, o.spans)] = Treed(p, o, roots)
    <3> DEFINE parent == ParentIn(p, o.spans)
    <3> HIDE DEF parent, p
    <3>1. [p EXCEPT !.stage = "adjust", !.roots = roots, !.parent = parent]
          = Deskew("adjust", p.at, p.skews, roots, parent, p.nodes)
      BY <1>3, DeskewExcept
    <3> QED
      BY <3>1 DEF Treed, parent
  <2>2. heap' = heap /\ held' = held /\ traces' = traces
    BY DEF BuildSubGraphs, Reads, storeVars
  <2> QED
    BY <1>4, <2>1, <2>2 DEF Step
<1>6. heap' = [heap EXCEPT ![k] = o] /\ o \in TraceObject
  BY <1>2, <1>5, SameObject
<1>7. SkewPass(Treed(p, o, roots), o)
  BY <1>1, <1>2, <1>4, <1>6, TreeKeeps
<1> QED
  BY <1>2, <1>5, <1>6, <1>7, StepWithin

\* So does CompareNode.
LEMMA SInvCompareNode ==
  ASSUME SInv, NEW a \in Adjuster, NEW i, CompareNode(a, i)
  PROVE  SInv'
<1> DEFINE k == Head(held[a])
           o == heap[k]
           p == pass[a]
<1>1. p.stage = "adjust" /\ i \in Reachable(p)
  BY DEF CompareNode
<1>2. held[a] # <<>> /\ p \notin {Raw, Deduped} /\ o.seen /\ SkewPass(p, o)
  BY <1>1, InSkew
<1>3. p = Deskew(p.stage, p.at, p.skews, p.roots, p.parent, p.nodes)
  BY <1>2 DEF SkewPass
<1>4. Step(a, [p EXCEPT !.stage = "move", !.at = i, !.skews = With(@, i, SkewIn(p, o.spans, i))])
  BY DEF CompareNode, SkewIn, Spans
<1>5. pass' = [pass EXCEPT ![a] = Compared(p, o, i)] /\ heap' = heap /\ held' = held /\ traces' = traces
  <2>1. [p EXCEPT !.stage = "move", !.at = i, !.skews = With(p.skews, i, SkewIn(p, o.spans, i))] = Compared(p, o, i)
    <3> DEFINE skews == With(p.skews, i, SkewIn(p, o.spans, i))
    <3> HIDE DEF skews, p
    <3>1. [p EXCEPT !.stage = "move", !.at = i, !.skews = skews]
          = Deskew("move", i, skews, p.roots, p.parent, p.nodes)
      BY <1>3, DeskewExcept
    <3> QED
      BY <3>1 DEF Compared, skews
  <2>2. heap' = heap /\ held' = held /\ traces' = traces
    BY DEF CompareNode, Reads, storeVars
  <2> QED
    BY <1>4, <2>1, <2>2 DEF Step
<1>6. heap' = [heap EXCEPT ![k] = o] /\ o \in TraceObject
  BY <1>2, <1>5, SameObject
<1>7. SkewPass(Compared(p, o, i), o)
  BY <1>1, <1>2, <1>6, CompareKeeps
<1> QED
  BY <1>2, <1>5, <1>6, <1>7, StepWithin

\* So does MoveNode.
LEMMA SInvMoveNode ==
  ASSUME SInv, NEW a \in Adjuster, MoveNode(a)
  PROVE  SInv'
<1> DEFINE k == Head(held[a])
           o == heap[k]
           p == pass[a]
<1>1. p.stage = "move"
  BY DEF MoveNode
<1>2. held[a] # <<>> /\ p \notin {Raw, Deduped} /\ o.seen /\ SkewPass(p, o)
  BY <1>1, InSkew
<1>3. p = Deskew(p.stage, p.at, p.skews, p.roots, p.parent, p.nodes)
  BY <1>2 DEF SkewPass
<1>4. o \in TraceObject
  BY <1>2, HeadOfHeld
<1>5. pass' = [pass EXCEPT ![a] = MovedPass(p)] /\ held' = held /\ traces' = traces
  BY <1>3, DeskewExcept DEF MoveNode, Step, Writes, storeVars, MovedPass
<1>6. heap' = [heap EXCEPT ![k] = MovedObject(p, o)]
  BY DEF MoveNode, Set, Spans, WithSpan, MovedObject
<1>7. SkewPass(MovedPass(p), MovedObject(p, o)) /\ Alters(o, MovedObject(p, o))
  BY <1>1, <1>2, <1>4, MoveKeeps
<1> QED
  BY <1>2, <1>5, <1>6, <1>7, StepAlters

\* What a reader's answer is known to be.
LEMMA AnswerIs ==
  ASSUME SInv, NEW a \in Adjuster, EndSkew(a), NEW o, o = heap[Head(held[a])]
  PROVE  /\ held[a] # <<>> /\ pass[a] \notin {Raw, Deduped} /\ o \in TraceObject /\ o.seen
         /\ o.orderly => o.alone
         /\ o.alone => ChildrenFit(o.spans)
         /\ o.orderly => o.spans = Adjusted(o.raw)
<1>1. pass[a].stage = "adjust" /\ Reachable(pass[a]) = {}
  BY DEF EndSkew
<1>2. held[a] # <<>> /\ pass[a] \notin {Raw, Deduped} /\ o.seen /\ SkewPass(pass[a], o)
  BY <1>1, InSkew
<1>3. o \in TraceObject
  BY <1>2, HeadOfHeld
<1>4. o.orderly => o.alone
  BY <1>2, <1>3, WithinPass
<1> QED
  BY <1>1, <1>2, <1>3, <1>4, SkewIsDone

\* EndSkew leaves an object that has settled, if it is orderly.
LEMMA SInvEndSkew ==
  ASSUME SInv, NEW a \in Adjuster, EndSkew(a)
  PROVE  SInv'
<1> DEFINE k == Head(held[a])
           o == heap[k]
<1>1. /\ held[a] # <<>> /\ pass[a] \notin {Raw, Deduped} /\ o \in TraceObject /\ o.seen
      /\ o.orderly => o.spans = Adjusted(o.raw)
  BY AnswerIs
<1>2. /\ pass' = [pass EXCEPT ![a] = Raw] /\ held' = [held EXCEPT ![a] = Tail(held[a])]
      /\ heap' = heap /\ traces' = traces
  BY DEF EndSkew, Step, storeVars
<1>3. heap' = [heap EXCEPT ![k] = o]
  BY <1>1, <1>2, SameObject
<1>4. Settling(o)
  BY <1>1 DEF Settling
<1>5. /\ o.alone => \A c \in Adjuster \ {a} : ~At(c, k)
      /\ o.orderly => o.alone
  BY <1>1, WithinPass
<1> HIDE DEF o, k
<1> QED
  BY <1>1, <1>2, <1>3, <1>4, <1>5, StepKeeps DEF o, k

\* Every step of an adjuster keeps the invariant.
LEMMA SInvAdjust ==
  ASSUME SInv, NEW a \in Adjuster, Adjust(a)
  PROVE  SInv'
BY SInvGroupSpans, SInvTestSpan, SInvReparentSpan, SInvRenameSpan, SInvSwapParent,
   SInvBuildNodes, SInvBuildSubGraphs, SInvMoveNode, SInvEndSkew, SInvCompareNode DEF Adjust

-----------------------------------------------------------------------------
(* WriteSpan and the queries                                               *)

\* There is nothing on the heap at first.
LEMMA SInvInit == Init => SInv
<1> SUFFICES ASSUME Init PROVE SInv
  OBVIOUS
<1>1. heap \in Seq(TraceObject) /\ DOMAIN heap = {} /\ DOMAIN traces = {}
  BY DEF Init
<1>2. held \in [Adjuster -> Seq(DOMAIN heap)] /\ DOMAIN pass = Adjuster
  <2>1. <<>> \in Seq(DOMAIN heap)
    OBVIOUS
  <2> QED
    BY <2>1 DEF Init
<1>3. \A a \in Adjuster : pass[a] = Raw
  BY DEF Init
<1> QED
  BY <1>1, <1>2, <1>3 DEF SInv, StoreTyped, Passing, OneAlone, Orderly

\* WriteSpan in other words: the object a span goes to, and the map's entries.
Target(s) == IF s.trace \in DOMAIN traces THEN traces[s.trace] ELSE Len(heap) + 1
Objects(s) == IF s.trace \in DOMAIN traces THEN heap ELSE Append(heap, Object(s.trace))
Written(o, s) == [o EXCEPT !.spans = Append(@, s), !.raw = Append(@, s),
                           !.orderly = @ /\ ~o.seen, !.alone = FALSE]

\* The object of a new trace.
LEMMA ObjectTyped ==
  ASSUME NEW t \in TraceID
  PROVE  Object(t) \in TraceObject /\ Settling(Object(t)) /\ Object(t).trace = t
<1>1. <<>> \in Trace
  BY DEF Trace
<1> QED
  BY <1>1 DEF Object, TraceObject, Settling

\* A span more: whoever is at the object is not alone now, and it stays orderly only
\* if nobody has been there.
LEMMA WrittenObject ==
  ASSUME NEW o \in TraceObject, NEW s \in Span, NEW w, w = Written(o, s)
  PROVE  /\ w \in TraceObject /\ w.trace = o.trace /\ w.seen = o.seen /\ ~w.alone
         /\ Len(w.spans) = Len(o.spans) + 1
         /\ w.orderly => o.orderly /\ ~o.seen
         /\ w.orderly /\ Settling(o) => Settling(w)
<1> DEFINE spans == Append(o.spans, s)
           raw == Append(o.raw, s)
           orderly == o.orderly /\ ~o.seen
<1>1. o.spans \in Trace /\ o.raw \in Trace /\ s \in SpanRecord
  BY SpansTyped, SpanAssumption
<1>2. spans \in Trace /\ raw \in Trace /\ Len(spans) = Len(o.spans) + 1 /\ (o.spans = o.raw => spans = raw)
  BY <1>1 DEF Trace
<1>3. orderly \in BOOLEAN /\ (orderly <=> o.orderly /\ ~o.seen)
  BY DEF TraceObject
<1>4. w = [o EXCEPT !.spans = spans, !.raw = raw, !.orderly = orderly, !.alone = FALSE]
  BY DEF Written
<1> HIDE DEF spans, raw, orderly
<1>5. w = [trace |-> o.trace, spans |-> spans, raw |-> raw, seen |-> o.seen,
           orderly |-> orderly, alone |-> FALSE]
  BY <1>4 DEF TraceObject
<1>6. w \in TraceObject /\ w.trace = o.trace /\ w.spans = spans /\ w.raw = raw /\ w.seen = o.seen
      /\ w.orderly = orderly /\ w.alone = FALSE
  BY <1>2, <1>3, <1>5 DEF TraceObject
<1> QED
  BY <1>2, <1>3, <1>6 DEF Settling

\* WriteSpan changes one object, the map's own or a new one.
LEMMA WriteSpanHeap ==
  ASSUME SInv, NEW s \in Span, WriteSpan(s)
  PROVE  /\ Objects(s) \in Seq(TraceObject) /\ Target(s) \in DOMAIN Objects(s)
         /\ DOMAIN heap \subseteq DOMAIN Objects(s)
         /\ \A k \in DOMAIN heap : Objects(s)[k] = heap[k]
         /\ \A k \in DOMAIN Objects(s) \ DOMAIN heap : k = Target(s) /\ Settling(Objects(s)[k])
         /\ heap' = [Objects(s) EXCEPT ![Target(s)] = Written(Objects(s)[Target(s)], s)]
         /\ s.trace \in TraceID
<1>1. s.trace \in TraceID
  BY DEF TraceID
<1>2. heap \in Seq(TraceObject) /\ Len(heap) \in Nat /\ DOMAIN heap = 1 .. Len(heap)
  BY DEF SInv, StoreTyped
<1>3. CASE s.trace \in DOMAIN traces
  <2>1. Objects(s) = heap /\ Target(s) = traces[s.trace] /\ Target(s) \in DOMAIN heap
    BY <1>3 DEF Objects, Target, SInv, StoreTyped
  <2>2. heap' = [heap EXCEPT ![Target(s)].spans = Append(@, s),
                             ![Target(s)].raw   = Append(@, s),
                             ![Target(s)].orderly = @ /\ ~heap[Target(s)].seen,
                             ![Target(s)].alone = FALSE]
    BY <1>3, <2>1 DEF WriteSpan
  <2>3. heap' = [heap EXCEPT ![Target(s)] = Written(heap[Target(s)], s)]
    BY <1>2, <2>1, <2>2 DEF Written
  <2> QED
    BY <1>1, <1>2, <2>1, <2>3
<1>4. CASE s.trace \notin DOMAIN traces
  <2>1. Objects(s) = Append(heap, Object(s.trace)) /\ Target(s) = Len(heap) + 1
    BY <1>4 DEF Objects, Target
  <2>2. /\ Objects(s) \in Seq(TraceObject) /\ Len(Objects(s)) = Len(heap) + 1
        /\ \A j \in 1 .. Len(heap) : Objects(s)[j] = heap[j]
        /\ Objects(s)[Len(heap) + 1] = Object(s.trace)
    BY <1>1, <1>2, <2>1, ObjectTyped, AppendProperties
  <2>3. Target(s) \in DOMAIN Objects(s) /\ DOMAIN Objects(s) = 1 .. Len(heap) + 1
    BY <1>2, <2>1, <2>2
  <2>4. \A k \in DOMAIN Objects(s) \ DOMAIN heap : k = Target(s) /\ Settling(Objects(s)[k])
    <3>1. \A k \in DOMAIN Objects(s) \ DOMAIN heap : k = Len(heap) + 1
      BY <1>2, <2>3
    <3> QED
      BY <1>1, <2>1, <2>2, <3>1, ObjectTyped
  <2>5. heap' = [Objects(s) EXCEPT ![Target(s)].spans = Append(@, s),
                             ![Target(s)].raw   = Append(@, s),
                             ![Target(s)].orderly = @ /\ ~Objects(s)[Target(s)].seen,
                             ![Target(s)].alone = FALSE]
    <3>1. Len(Append(heap, Object(s.trace))) = Target(s)
      BY <2>1, <2>2
    <3> QED
      BY <1>4, <2>1, <3>1 DEF WriteSpan
  <2>6. heap' = [Objects(s) EXCEPT ![Target(s)] = Written(Objects(s)[Target(s)], s)]
    BY <2>2, <2>3, <2>5 DEF Written
  <2> QED
    BY <1>1, <1>2, <2>2, <2>3, <2>4, <2>6
<1> QED
  BY <1>3, <1>4

\* Only the newest object may begin in a step, and every other one stays what it was.
LEMMA WriteSpanObjects ==
  ASSUME SInv, NEW s \in Span, WriteSpan(s)
  PROVE  /\ heap' \in Seq(TraceObject) /\ DOMAIN heap \subseteq DOMAIN heap'
         /\ Len(heap') = Len(Objects(s)) /\ DOMAIN heap' = DOMAIN Objects(s)
         /\ heap'[Target(s)] = Written(Objects(s)[Target(s)], s)
         /\ \A k \in DOMAIN heap' : heap'[k].trace = Objects(s)[k].trace
         /\ \A k \in DOMAIN heap' : k # Target(s) => k \in DOMAIN heap /\ heap'[k] = heap[k]
<1> DEFINE o == Objects(s)
           k == Target(s)
           w == Written(o[k], s)
<1>1. /\ o \in Seq(TraceObject) /\ k \in DOMAIN o
      /\ DOMAIN heap \subseteq DOMAIN o /\ \A j \in DOMAIN heap : o[j] = heap[j]
      /\ \A j \in DOMAIN o \ DOMAIN heap : j = k
      /\ heap' = [o EXCEPT ![k] = w]
  BY WriteSpanHeap
<1> HIDE DEF o, k
<1>2. o[k] \in TraceObject
  BY <1>1
<1>3. w \in TraceObject /\ w.trace = o[k].trace
  BY <1>2, WrittenObject
<1> HIDE DEF w
<1>4. /\ heap' \in Seq(TraceObject) /\ DOMAIN heap' = DOMAIN o /\ Len(heap') = Len(o)
      /\ \A j \in DOMAIN o : heap'[j] = IF j = k THEN w ELSE o[j]
  BY <1>1, <1>3, ReplaceOne
<1> QED
  BY <1>1, <1>3, <1>4 DEF o, k, w

\* The map after WriteSpan: the target is entered, one entry may be dropped.
LEMMA WriteSpanMap ==
  ASSUME SInv, NEW s \in Span, WriteSpan(s)
  PROVE  /\ DOMAIN traces' \subseteq DOMAIN traces \cup {s.trace}
         /\ \A t \in DOMAIN traces' :
              traces'[t] = IF t = s.trace THEN Target(s) ELSE traces[t]
<1>1. CASE s.trace \in DOMAIN traces
  BY <1>1 DEF WriteSpan, Target
<1>2. CASE s.trace \notin DOMAIN traces
  <2>1. heap \in Seq(TraceObject) /\ Object(s.trace) \in TraceObject
    BY ObjectTyped DEF SInv, StoreTyped, TraceID
  <2>2. Len(Append(heap, Object(s.trace))) = Target(s)
    BY <1>2, <2>1, AppendProperties DEF Target
  <2> QED
    BY <1>2, <2>2 DEF WriteSpan
<1> QED
  BY <1>1, <1>2

\* The object a span goes to: what it was before, if it was there.
LEMMA WriteSpanTarget ==
  ASSUME SInv, NEW s \in Span, WriteSpan(s), NEW k, k = Target(s), NEW w, w = heap'[k]
  PROVE  /\ w \in TraceObject /\ ~w.alone /\ Len(w.spans) > 0
         /\ k \in DOMAIN heap =>
              /\ w.seen = heap[k].seen /\ Len(w.spans) = Len(heap[k].spans) + 1
              /\ w.orderly => heap[k].orderly /\ ~heap[k].seen
              /\ w.orderly /\ Settling(heap[k]) => Settling(w)
         /\ k \notin DOMAIN heap => (w.orderly => Settling(w))
<1> DEFINE o == Objects(s)[k]
<1>1. o \in TraceObject /\ w = Written(o, s) /\ (k \in DOMAIN heap => o = heap[k])
      /\ (k \notin DOMAIN heap => Settling(o))
  BY WriteSpanHeap, WriteSpanObjects
<1> HIDE DEF o
<1>2. /\ w \in TraceObject /\ w.seen = o.seen /\ ~w.alone
      /\ Len(w.spans) = Len(o.spans) + 1
      /\ w.orderly => o.orderly /\ ~o.seen
      /\ w.orderly /\ Settling(o) => Settling(w)
  BY <1>1, WrittenObject
<1>3. Len(o.spans) \in Nat
  BY <1>1, SpansTyped
<1> QED
  BY <1>1, <1>2, <1>3

\* WriteSpan keeps the invariant, whoever is adjusting the object meanwhile.
LEMMA SInvWriteSpan ==
  ASSUME SInv, NEW s \in Span, WriteSpan(s)
  PROVE  SInv'
<1> DEFINE k == Target(s)
           w == heap'[k]
<1>1. /\ heap' \in Seq(TraceObject) /\ DOMAIN heap \subseteq DOMAIN heap' /\ k \in DOMAIN heap'
      /\ \A j \in DOMAIN heap' : j # k => j \in DOMAIN heap /\ heap'[j] = heap[j]
  BY WriteSpanHeap, WriteSpanObjects
<1>2. held' = held /\ pass' = pass
  BY DEF WriteSpan
<1>3. \A t \in DOMAIN traces' : t \in TraceID /\ traces'[t] \in DOMAIN heap'
  BY <1>1, WriteSpanHeap, WriteSpanMap DEF SInv, StoreTyped
<1>4. held' \in [Adjuster -> Seq(DOMAIN heap')]
  <2>1. \A q \in Seq(DOMAIN heap) : q \in Seq(DOMAIN heap')
    BY <1>1
  <2> QED
    BY <1>2, <2>1 DEF SInv, StoreTyped
<1>5. /\ w \in TraceObject /\ ~w.alone /\ Len(w.spans) > 0
      /\ k \in DOMAIN heap =>
           /\ w.seen = heap[k].seen /\ Len(w.spans) = Len(heap[k].spans) + 1
           /\ w.orderly => heap[k].orderly /\ ~heap[k].seen
           /\ w.orderly /\ Settling(heap[k]) => Settling(w)
      /\ k \notin DOMAIN heap => (w.orderly => Settling(w))
  BY WriteSpanTarget
<1> HIDE DEF k, w
<1>6. heap'[k] = w
  BY DEF w
<1>7. StoreTyped'
  <2>1. \A j \in DOMAIN heap' : Len(heap'[j].spans) > 0
    BY <1>1, <1>5, <1>6 DEF SInv, StoreTyped
  <2>2. DOMAIN pass' = Adjuster
    BY <1>2 DEF SInv, StoreTyped
  <2> QED
    BY <1>1, <1>3, <1>4, <2>1, <2>2 DEF StoreTyped
<1>8. ASSUME NEW a \in Adjuster, pass[a] # Raw
      PROVE  /\ held[a] # <<>> /\ Head(held[a]) \in DOMAIN heap
             /\ heap[Head(held[a])].seen /\ InPass(pass[a], heap'[Head(held[a])])
  <2>1. held[a] # <<>> /\ InPass(pass[a], heap[Head(held[a])]) /\ heap[Head(held[a])].seen
    BY <1>8 DEF SInv, Passing, InPass
  <2>2. /\ Head(held[a]) \in DOMAIN heap /\ heap[Head(held[a])] \in TraceObject
        /\ Len(heap[Head(held[a])].spans) \in Nat
    BY <2>1, HeadOfHeld
  <2>3. CASE Head(held[a]) = k
    <3>1. Len(heap[k].spans) <= Len(w.spans)
      BY <1>5, <2>2, <2>3
    <3>2. InPass(pass[a], w)
      BY <1>5, <2>1, <2>2, <2>3, <3>1, PassOutlives
    <3> QED
      BY <1>6, <2>1, <2>2, <2>3, <3>2
  <2>4. CASE Head(held[a]) # k
    BY <1>1, <2>1, <2>2, <2>4
  <2> QED
    BY <2>3, <2>4
<1>9. Passing'
  BY <1>2, <1>8 DEF Passing
<1>10. \A a, j : At(a, j)' <=> At(a, j)
  BY <1>2 DEF At
<1>11. OneAlone'
  BY <1>1, <1>5, <1>6, <1>10 DEF SInv, OneAlone
<1>12. Orderly'
  <2>1. ASSUME NEW j \in DOMAIN heap', heap'[j].orderly
        PROVE  IF \E a \in Adjuster : At(a, j) THEN heap'[j].alone ELSE Settling(heap'[j])
    <3>1. CASE j # k
      BY <1>1, <2>1, <3>1 DEF SInv, Orderly
    <3>2. CASE j = k
      <4>1. ~\E a \in Adjuster : At(a, k)
        <5>1. ASSUME NEW a \in Adjuster, At(a, k) PROVE FALSE
          <6>1. k \in DOMAIN heap /\ heap[k].seen
            BY <1>8, <5>1 DEF At
          <6> QED
            BY <1>5, <1>6, <2>1, <3>2, <6>1
        <5> QED
          BY <5>1
      <4>2. CASE k \in DOMAIN heap
        <5>1. Settling(heap[k])
          BY <1>5, <1>6, <2>1, <3>2, <4>1, <4>2 DEF SInv, Orderly
        <5> QED
          BY <1>5, <1>6, <2>1, <3>2, <4>1, <4>2, <5>1
      <4>3. CASE k \notin DOMAIN heap
        BY <1>5, <1>6, <2>1, <3>2, <4>1, <4>3
      <4> QED
        BY <4>2, <4>3
    <3> QED
      BY <3>1, <3>2
  <2>2. \A j : Settling(heap[j])' <=> Settling(heap'[j])
    BY DEF Settling
  <2> QED
    BY <1>10, <2>1, <2>2 DEF Orderly
<1> QED
  BY <1>7, <1>9, <1>11, <1>12 DEF SInv

\* What leaves the objects and all passes as they are keeps the invariant.
LEMMA SInvHeld ==
  ASSUME SInv, heap' = heap, traces' = traces, pass' = pass,
         held' \in [Adjuster -> Seq(DOMAIN heap)],
         \A a \in Adjuster : pass[a] # Raw => held'[a] = held[a]
  PROVE  SInv'
<1>1. StoreTyped'
  BY DEF SInv, StoreTyped
<1>2. Passing'
  BY DEF SInv, Passing
<1>3. \A a \in Adjuster : \A k : At(a, k)' <=> At(a, k)
  BY DEF At
<1>4. OneAlone'
  BY <1>3 DEF SInv, OneAlone
<1>5. Orderly'
  <2>1. \A k : Settling(heap[k])' <=> Settling(heap[k])
    BY DEF Settling
  <2> QED
    BY <1>3, <2>1 DEF SInv, Orderly
<1> QED
  BY <1>1, <1>2, <1>4, <1>5 DEF SInv

\* A query is handed objects of the heap.
LEMMA SInvAsk ==
  ASSUME SInv, NEW a \in Adjuster, NEW objects \in Seq(DOMAIN heap), Ask(a, objects)
  PROVE  SInv'
<1>1. /\ heap' = heap /\ traces' = traces /\ pass' = pass /\ held[a] = <<>>
      /\ held' = [held EXCEPT ![a] = objects]
  BY DEF Ask, storeVars
<1>2. held' \in [Adjuster -> Seq(DOMAIN heap)]
  BY <1>1 DEF SInv, StoreTyped
<1>3. pass[a] = Raw
  BY <1>1 DEF SInv, Passing
<1>4. \A c \in Adjuster : pass[c] # Raw => held'[c] = held[c]
  BY <1>1, <1>3 DEF SInv, StoreTyped
<1> QED
  BY <1>1, <1>2, <1>4, SInvHeld

\* Objects in any order are a sequence.
LEMMA InAnyOrderTyped ==
  ASSUME SInv, NEW K \in SUBSET DOMAIN heap, NEW objects \in InAnyOrder(K)
  PROVE  objects \in Seq(DOMAIN heap)
<1>1. K \in SUBSET (1 .. Len(heap)) /\ Len(heap) \in Nat
  BY DEF SInv, StoreTyped
<1>2. Cardinality(K) \in Nat
  BY <1>1, FirstNumbers, FS_Subset, FS_CardinalityType
<1>3. objects \in [1 .. Cardinality(K) -> DOMAIN heap]
  BY DEF InAnyOrder
<1> QED
  BY <1>2, <1>3, SequenceOf

\* GetTrace hands out the object of the map.
LEMMA SInvGetTrace ==
  ASSUME SInv, NEW r \in Reader, GetTrace(r)
  PROVE  SInv'
<1>1. PICK t \in DOMAIN traces : Ask(r, <<traces[t]>>)
  BY DEF GetTrace
<1>2. <<traces[t]>> \in Seq(DOMAIN heap) /\ r \in Adjuster
  BY DEF SInv, StoreTyped, Adjuster
<1> QED
  BY <1>1, <1>2, SInvAsk

\* FindTraces hands out objects of the map.
LEMMA SInvFindTraces ==
  ASSUME SInv, NEW r \in Reader, FindTraces(r)
  PROVE  SInv'
<1>1. PICK service \in ServiceName :
        \E objects \in InAnyOrder({k \in {traces[t] : t \in DOMAIN traces} : ValidTrace(k, service)}) :
            Ask(r, objects)
  BY DEF FindTraces
<1> DEFINE valid == {k \in {traces[t] : t \in DOMAIN traces} : ValidTrace(k, service)}
<1>2. PICK objects \in InAnyOrder(valid) : Ask(r, objects)
  BY <1>1
<1>3. valid \in SUBSET DOMAIN heap /\ r \in Adjuster
  BY DEF SInv, StoreTyped, Adjuster
<1> HIDE DEF valid
<1>4. objects \in Seq(DOMAIN heap)
  BY <1>3, InAnyOrderTyped
<1> QED
  BY <1>2, <1>3, <1>4, SInvAsk

\* So does GetDependencies to itself.
LEMMA SInvGetDependencies ==
  ASSUME SInv, GetDependencies
  PROVE  SInv'
<1> DEFINE stored == {traces[t] : t \in DOMAIN traces}
<1>1. PICK objects \in InAnyOrder(stored) : Ask(Dependencies, objects)
  BY DEF GetDependencies
<1>2. stored \in SUBSET DOMAIN heap /\ Dependencies \in Adjuster
  BY DEF SInv, StoreTyped, Adjuster
<1> HIDE DEF stored
<1>3. objects \in Seq(DOMAIN heap)
  BY <1>2, InAnyOrderTyped
<1> QED
  BY <1>1, <1>2, <1>3, SInvAsk

\* Every step keeps the invariant.
LEMMA SInvNext == SInv /\ [Next]_vars => SInv'
<1> SUFFICES ASSUME SInv, [Next]_vars PROVE SInv'
  OBVIOUS
<1>1. CASE \E s \in Span : WriteSpan(s)
  BY <1>1, SInvWriteSpan
<1>2. CASE \E r \in Reader : GetTrace(r) \/ FindTraces(r)
  BY <1>2, SInvGetTrace, SInvFindTraces
<1>3. CASE GetDependencies
  BY <1>3, SInvGetDependencies
<1>4. CASE \E a \in Adjuster : Adjust(a)
  BY <1>4, SInvAdjust
<1>5. CASE UNCHANGED vars
  <2>1. held' \in [Adjuster -> Seq(DOMAIN heap)]
    BY <1>5 DEF SInv, StoreTyped, vars
  <2> QED
    BY <1>5, <2>1, SInvHeld DEF vars
<1> QED
  BY <1>1, <1>2, <1>3, <1>4, <1>5 DEF Next

\* The inductive invariant: whoever is in a pass over an object is where the object
\* allows it, a pass that is alone is the only one and has made of the object what it
\* was to make so far, and an orderly object that nobody is at has settled.
THEOREM StoreInvariant == Spec => []SInv
BY SInvInit, SInvNext, PTL DEF Spec

\* Any number of readers and GetDependencies adjust one object in place, step by step
\* and in any order: an answer is the adjustment of what was reported, if none of it
\* was late and no two passes overlapped.
THEOREM StoreAnswersSettle == Spec => AnswersSettle
<1> DEFINE Good == \A r \in Reader : EndSkew(r) =>
                     LET o == heap[Head(held[r])] IN o.orderly => o.spans = Adjusted(o.raw)
<1>1. SInv /\ [Next]_vars => [Good]_vars
  BY AnswerIs DEF Adjuster
<1> QED
  BY <1>1, StoreInvariant, PTL DEF Spec, AnswersSettle

\* Whatever else happened to the object, late spans and overlapping passes: after a
\* pass of ClockSkew that was alone the spans of an answer lie within their parents.
THEOREM StoreSkewFits == Spec => SkewFits
<1> DEFINE Good == \A r \in Reader : EndSkew(r) =>
                     LET o == heap[Head(held[r])] IN o.alone => ChildrenFit(o.spans)
<1>1. SInv /\ [Next]_vars => [Good]_vars
  BY AnswerIs DEF Adjuster
<1> QED
  BY <1>1, StoreInvariant, PTL DEF Spec, SkewFits

-----------------------------------------------------------------------------
(* The ring                                                                *)

\* The object whose trace id is at position i of the ring; none, when not positive.
ObjectAt(i) == Len(heap) - index + i - (IF i <= index THEN 0 ELSE MaxTraces)

Stored(k) == k \in DOMAIN heap /\ k > Len(heap) - MaxTraces

\* The ring holds the traces of the newest objects by position, and the map leads
\* to exactly these objects.
RingMatches ==
  /\ index \in 0 .. MaxTraces - 1
  /\ ids = [i \in 0 .. MaxTraces - 1 |-> IF ObjectAt(i) > 0 THEN heap[ObjectAt(i)].trace ELSE NoTrace]
  /\ \A t \in DOMAIN traces : Stored(traces[t])
  /\ \A k \in DOMAIN heap : Stored(k) => heap[k].trace \in DOMAIN traces /\ traces[heap[k].trace] = k

RInv ==
  /\ \A t \in DOMAIN traces : heap[traces[t]].trace = t
  /\ MaxTraces > 0 => RingMatches

\* The position after i in a ring of m.
LEMMA NextPosition ==
  ASSUME NEW m \in Nat, m > 0, NEW i \in 0 .. m - 1
  PROVE  (i + 1) % m = IF i + 1 = m THEN 0 ELSE i + 1
<1>1. CASE i + 1 = m
  BY <1>1
<1>2. CASE i + 1 # m
  BY <1>2
<1> QED
  BY <1>1, <1>2

\* The ring is empty at first.
LEMMA RInvInit == Init => RInv
<1> SUFFICES ASSUME Init PROVE RInv
  OBVIOUS
<1>1. DOMAIN heap = {} /\ Len(heap) = 0 /\ DOMAIN traces = {} /\ index = 0
  BY DEF Init
<1>2. ASSUME MaxTraces > 0 PROVE RingMatches
  <2>1. \A i \in 0 .. MaxTraces - 1 : ~(ObjectAt(i) > 0)
    BY <1>1, <1>2, LimitAssumption DEF ObjectAt
  <2>2. ids = [i \in 0 .. MaxTraces - 1 |-> IF ObjectAt(i) > 0 THEN heap[ObjectAt(i)].trace ELSE NoTrace]
    BY <2>1 DEF Init
  <2> QED
    BY <1>1, <1>2, <2>2, LimitAssumption DEF RingMatches
<1> QED
  BY <1>1, <1>2 DEF RInv

\* Steps that write no span leave the ring and the traces of the objects alone.
LEMMA RInvKept ==
  ASSUME RInv, SInv, UNCHANGED <<ids, index>>, DOMAIN traces' = DOMAIN traces,
         \A t \in DOMAIN traces : traces'[t] = traces[t],
         DOMAIN heap' = DOMAIN heap, Len(heap') = Len(heap),
         \A k \in DOMAIN heap : heap'[k].trace = heap[k].trace
  PROVE  RInv'
<1>1. \A t \in DOMAIN traces : traces[t] \in DOMAIN heap
  BY DEF SInv, StoreTyped
<1>2. DOMAIN heap = 1 .. Len(heap) /\ Len(heap) \in Nat
  BY DEF SInv, StoreTyped
<1>3. ASSUME MaxTraces > 0, RingMatches PROVE RingMatches'
  <2>1. \A i : ObjectAt(i)' = ObjectAt(i)
    BY DEF ObjectAt
  <2>2. \A i \in 0 .. MaxTraces - 1 : ObjectAt(i) > 0 => ObjectAt(i) \in DOMAIN heap
    BY <1>2, <1>3, LimitAssumption DEF ObjectAt, RingMatches
  <2>3. \A k : Stored(k)' = Stored(k)
    BY DEF Stored
  <2>4. ids' = [i \in 0 .. MaxTraces - 1 |-> IF ObjectAt(i)' > 0 THEN heap'[ObjectAt(i)'].trace ELSE NoTrace]
    BY <1>3, <2>1, <2>2 DEF RingMatches
  <2> QED
    BY <1>3, <2>3, <2>4 DEF RingMatches
<1> QED
  BY <1>1, <1>3 DEF RInv

\* A trace that is in the map gets a span: nothing moves.
LEMMA RInvContinue ==
  ASSUME RInv, SInv, NEW s \in Span, WriteSpan(s), s.trace \in DOMAIN traces
  PROVE  RInv'
<1>1. Objects(s) = heap
  BY DEF Objects
<1>2. /\ DOMAIN heap' = DOMAIN heap /\ Len(heap') = Len(heap)
      /\ \A k \in DOMAIN heap : heap'[k].trace = heap[k].trace
  BY <1>1, WriteSpanObjects
<1>3. DOMAIN traces' = DOMAIN traces /\ \A t \in DOMAIN traces : traces'[t] = traces[t]
  BY DEF WriteSpan
<1>4. ids' = ids /\ index' = index
  BY DEF WriteSpan
<1> QED
  BY <1>2, <1>3, <1>4, RInvKept

\* A trace that is not in the map takes the next place in the ring, and the trace
\* whose place it was, the one begun longest ago, goes.
LEMMA RInvBegin ==
  ASSUME RInv, SInv, NEW s \in Span, WriteSpan(s), s.trace \notin DOMAIN traces
  PROVE  RInv'
<1> DEFINE n == Len(heap)
           M == MaxTraces
           next == (index + 1) % MaxTraces
           t0 == s.trace
<1>0. heap \in Seq(TraceObject) /\ n \in Nat /\ M \in Nat
  BY LimitAssumption DEF SInv, StoreTyped
<1>1. /\ heap \in Seq(TraceObject) /\ n \in Nat /\ DOMAIN heap = 1 .. n /\ M \in Nat
      /\ \A t \in DOMAIN traces : traces[t] \in 1 .. n
      /\ t0 \in TraceID
      /\ \A k \in 1 .. n : heap[k].trace \in TraceID
  <2>1. t0 \in TraceID
    BY DEF TraceID
  <2>2. \A k \in 1 .. n : heap[k].trace \in TraceID
    <3>1. \A k \in 1 .. n : heap[k] \in TraceObject
      BY <1>0
    <3> QED
      BY <3>1 DEF TraceObject
  <2>3. DOMAIN heap = 1 .. n /\ \A t \in DOMAIN traces : traces[t] \in 1 .. n
    BY <1>0 DEF SInv, StoreTyped
  <2> QED
    BY <1>0, <2>1, <2>2, <2>3
<1>2. Object(t0) \in TraceObject /\ Object(t0).trace = t0
  <2>1. t0 \in TraceID
    BY <1>1
  <2> HIDE DEF t0
  <2> QED
    BY <2>1, ObjectTyped
<1>3. /\ Len(Objects(s)) = n + 1 /\ Objects(s)[n + 1] = Object(t0)
      /\ \A k \in 1 .. n : Objects(s)[k] = heap[k]
  BY <1>1, <1>2, AppendProperties DEF Objects
<1>4. /\ heap' \in Seq(TraceObject) /\ Len(heap') = n + 1 /\ DOMAIN heap' = 1 .. n + 1
      /\ \A k \in 1 .. n + 1 : heap'[k].trace = IF k = n + 1 THEN t0 ELSE heap[k].trace
  <2>1. /\ heap' \in Seq(TraceObject) /\ Len(heap') = n + 1
        /\ \A k \in DOMAIN heap' : heap'[k].trace = Objects(s)[k].trace
    BY <1>3, WriteSpanObjects
  <2>2. DOMAIN heap' = 1 .. n + 1
    BY <1>1, <2>1
  <2> QED
    BY <1>1, <1>2, <1>3, <2>1, <2>2
<1>5. Target(s) = n + 1
  BY DEF Target
<1>6. \A t \in DOMAIN traces' : t \in DOMAIN traces \cup {t0}
                              /\ traces'[t] = IF t = t0 THEN n + 1 ELSE traces[t]
  BY <1>5, WriteSpanMap
<1> HIDE DEF n
<1>7. \A t \in DOMAIN traces' : heap'[traces'[t]].trace = t
  BY <1>1, <1>4, <1>6 DEF RInv
<1>8. ASSUME M > 0 PROVE RingMatches'
  <2>1. /\ index \in 0 .. M - 1
        /\ ids = [i \in 0 .. M - 1 |-> IF ObjectAt(i) > 0 THEN heap[ObjectAt(i)].trace ELSE NoTrace]
        /\ \A t \in DOMAIN traces : traces[t] > n - M
        /\ \A k \in 1 .. n : k > n - M => heap[k].trace \in DOMAIN traces /\ traces[heap[k].trace] = k
    BY <1>1, <1>8 DEF RInv, RingMatches, Stored, n
  <2>2. /\ index' = next /\ ids' = [ids EXCEPT ![next] = t0]
        /\ DOMAIN traces' = (DOMAIN traces \cup {t0}) \ Evicted(next)
    BY <1>8 DEF WriteSpan
  <2>3. next = IF index + 1 = M THEN 0 ELSE index + 1
    BY <1>1, <1>8, <2>1, NextPosition
  <2> HIDE DEF next
  <2>4. next \in 0 .. M - 1 /\ index \in Int
    BY <1>1, <2>1, <2>3
  <2>5. ObjectAt(next) = n + 1 - M
    <3>1. index \in 0 .. M - 1 /\ n \in Nat /\ M \in Nat
      BY <1>0, <2>1
    <3>2. ObjectAt(next) = n - index + next - (IF next <= index THEN 0 ELSE M)
      BY DEF ObjectAt, n
    <3>3. CASE index + 1 = M
      <4>1. next = 0
        BY <2>3, <3>3
      <4> QED
        BY <3>1, <3>2, <3>3, <4>1
    <3>4. CASE index + 1 # M
      <4>1. next = index + 1
        BY <2>3, <3>4
      <4> QED
        BY <3>1, <3>2, <3>4, <4>1
    <3> QED
      BY <3>3, <3>4
  <2>6. \A i \in 0 .. M - 1 : ObjectAt(i)' = IF i = next THEN n + 1 ELSE ObjectAt(i)
    <3>1. \A i \in 0 .. M - 1 : ObjectAt(i)' = (n + 1) - next + i - (IF i <= next THEN 0 ELSE M)
      BY <1>4, <2>2 DEF ObjectAt
    <3>2. \A i \in 0 .. M - 1 : ObjectAt(i) = n - index + i - (IF i <= index THEN 0 ELSE M)
      BY DEF ObjectAt, n
    <3>3. ASSUME NEW i \in 0 .. M - 1
          PROVE  (n + 1) - next + i - (IF i <= next THEN 0 ELSE M)
                 = IF i = next THEN n + 1 ELSE n - index + i - (IF i <= index THEN 0 ELSE M)
      <4>1. index \in 0 .. M - 1 /\ n \in Nat /\ M \in Nat /\ i \in Int
        BY <1>0, <2>1
      <4>2. CASE index + 1 = M
        <5>1. next = 0
          BY <2>3, <4>2
        <5> QED
          BY <4>1, <4>2, <5>1
      <4>3. CASE index + 1 # M
        <5>1. next = index + 1
          BY <2>3, <4>3
        <5> QED
          BY <4>1, <4>3, <5>1
      <4> QED
        BY <4>2, <4>3
    <3> QED
      BY <3>1, <3>2, <3>3
  <2>7. \A i \in 0 .. M - 1 : ObjectAt(i) \in Int /\ ObjectAt(i) <= n
    BY <1>1, <2>1 DEF ObjectAt, n
  <2>8. ids' = [i \in 0 .. M - 1 |-> IF ObjectAt(i)' > 0 THEN heap'[ObjectAt(i)'].trace ELSE NoTrace]
    <3>1. DOMAIN ids' = 0 .. M - 1 /\ ids' = [i \in 0 .. M - 1 |-> ids'[i]]
      BY <2>1, <2>2
    <3>2. ASSUME NEW i \in 0 .. M - 1
          PROVE  ids'[i] = IF ObjectAt(i)' > 0 THEN heap'[ObjectAt(i)'].trace ELSE NoTrace
      <4>1. CASE i = next
        <5>1. ids'[i] = t0 /\ ObjectAt(i)' = n + 1
          BY <2>1, <2>2, <2>6, <4>1
        <5> QED
          BY <1>1, <1>4, <5>1
      <4>2. CASE i # next
        <5>1. ids'[i] = ids[i] /\ ObjectAt(i)' = ObjectAt(i)
          BY <2>1, <2>2, <2>6, <4>2
        <5>2. ObjectAt(i) > 0 => ObjectAt(i) \in 1 .. n
          BY <1>1, <2>7
        <5>3. ObjectAt(i) > 0 => heap'[ObjectAt(i)].trace = heap[ObjectAt(i)].trace
          BY <1>1, <1>4, <5>2
        <5> QED
          BY <2>1, <5>1, <5>3
      <4> QED
        BY <4>1, <4>2
    <3> QED
      BY <3>1, <3>2
  <2>9. Evicted(next) = IF n + 1 - M > 0 THEN {heap[n + 1 - M].trace} ELSE {}
    <3>1. ids[next] = IF n + 1 - M > 0 THEN heap[n + 1 - M].trace ELSE NoTrace
      BY <2>1, <2>4, <2>5
    <3>2. n + 1 - M > 0 => heap[n + 1 - M].trace # NoTrace
      <4>1. n + 1 - M > 0 => n + 1 - M \in 1 .. n
        BY <1>0, <1>8
      <4>2. n + 1 - M > 0 => heap[n + 1 - M].trace \in TraceID
        BY <1>1, <4>1
      <4> QED
        BY <4>2, SpanAssumption
    <3> QED
      BY <3>1, <3>2 DEF Evicted
  <2>10. ASSUME NEW t \in DOMAIN traces' PROVE Stored(traces[t])'
    <3>1. CASE t = t0
      <4>1. traces'[t] = n + 1
        BY <1>6, <3>1
      <4>2. n + 1 \in 1 .. n + 1 /\ n + 1 > (n + 1) - M
        BY <1>0, <1>8
      <4>3. traces'[t] \in DOMAIN heap' /\ traces'[t] > Len(heap') - M
        BY <1>4, <4>1, <4>2
      <4> QED
        BY <4>3 DEF Stored
    <3>2. CASE t # t0
      <4>1. t \in DOMAIN traces /\ traces'[t] = traces[t] /\ traces[t] \in 1 .. n /\ traces[t] > n - M
            /\ heap[traces[t]].trace = t
        BY <1>1, <1>6, <2>1, <3>2 DEF RInv
      <4>2. traces[t] # n + 1 - M
        BY <2>2, <2>9, <4>1, <1>1
      <4>3. traces[t] \in 1 .. n + 1 /\ traces[t] > (n + 1) - M
        BY <1>1, <4>1, <4>2
      <4>4. traces'[t] \in DOMAIN heap' /\ traces'[t] > Len(heap') - M
        BY <1>4, <4>1, <4>3
      <4> QED
        BY <4>4 DEF Stored
    <3> QED
      BY <3>1, <3>2
  <2>11. ASSUME NEW k \in 1 .. n + 1, k > (n + 1) - M
         PROVE  heap'[k].trace \in DOMAIN traces' /\ traces'[heap'[k].trace] = k
    <3>1. CASE k = n + 1
      <4>1. t0 \notin Evicted(next)
        <5>1. n + 1 - M > 0 => n + 1 - M \in 1 .. n /\ n + 1 - M > n - M
          BY <1>1, <1>8
        <5> QED
          BY <2>1, <2>9, <5>1
      <4>2. heap'[k].trace = t0 /\ t0 \in DOMAIN traces'
        BY <1>1, <1>4, <2>2, <3>1, <4>1
      <4> QED
        BY <1>6, <3>1, <4>2
    <3>2. CASE k # n + 1
      <4>1. k \in 1 .. n /\ k > n - M /\ k # n + 1 - M
        BY <1>1, <2>11, <3>2
      <4>2. /\ heap'[k].trace = heap[k].trace /\ heap[k].trace \in DOMAIN traces
            /\ traces[heap[k].trace] = k /\ heap[k].trace # t0
        BY <1>1, <1>4, <2>1, <4>1, <3>2
      <4>3. heap[k].trace \notin Evicted(next)
        <5>1. n + 1 - M > 0 => n + 1 - M \in 1 .. n /\ n + 1 - M > n - M
          BY <1>1, <1>8
        <5>2. n + 1 - M > 0 => traces[heap[n + 1 - M].trace] = n + 1 - M
          BY <2>1, <5>1
        <5> QED
          BY <2>9, <4>1, <4>2, <5>2
      <4>4. heap[k].trace \in DOMAIN traces'
        BY <2>2, <4>2, <4>3
      <4> QED
        BY <1>6, <4>2, <4>4
    <3> QED
      BY <3>1, <3>2
  <2>12. \A k \in DOMAIN heap' : Stored(k)' => k \in 1 .. n + 1 /\ k > (n + 1) - M
    BY <1>4 DEF Stored
  <2>13. index' \in 0 .. M - 1
    BY <2>2, <2>4
  <2>14. \A t \in DOMAIN traces' : Stored(traces[t])'
    BY <2>10
  <2>15. \A k \in DOMAIN heap' : Stored(k)' => heap'[k].trace \in DOMAIN traces' /\ traces'[heap'[k].trace] = k
    BY <2>11, <2>12
  <2> QED
    BY <2>8, <2>13, <2>14, <2>15 DEF RingMatches
<1> QED
  BY <1>7, <1>8 DEF RInv

\* Whatever a step of an adjuster does to an object, it stays the trace's.
LEMMA AdjustKeepsTraces ==
  ASSUME SInv, NEW a \in Adjuster, Adjust(a)
  PROVE  /\ traces' = traces /\ ids' = ids /\ index' = index
         /\ DOMAIN heap' = DOMAIN heap /\ Len(heap') = Len(heap)
         /\ \A j \in DOMAIN heap : heap'[j].trace = heap[j].trace
<1> DEFINE k == Head(held[a])
<1>1. heap \in Seq(TraceObject) /\ k \in DOMAIN heap /\ heap[k] \in TraceObject
  BY HeadOfHeld DEF Adjust, SInv, StoreTyped
<1>2. traces' = traces /\ ids' = ids /\ index' = index
  BY DEF Adjust, GroupSpans, TestSpan, ReparentSpan, RenameSpan, SwapParent, BuildNodes,
         BuildSubGraphs, CompareNode, MoveNode, EndSkew, Begin, Writes, Reads, storeVars
<1>3. ASSUME NEW u, heap' = [heap EXCEPT ![k] = u], u.trace = heap[k].trace
      PROVE  /\ DOMAIN heap' = DOMAIN heap
             /\ \A j \in DOMAIN heap : heap'[j].trace = heap[j].trace
  BY <1>1, <1>3
<1>4. ASSUME NEW i, NEW f, NEW value, Set(a, i, f, value)
      PROVE  /\ DOMAIN heap' = DOMAIN heap
             /\ \A j \in DOMAIN heap : heap'[j].trace = heap[j].trace
  <2> DEFINE spans == [heap[k].spans EXCEPT ![i] = [heap[k].spans[i] EXCEPT ![f] = value]]
             u == [heap[k] EXCEPT !.spans = spans]
  <2>1. heap' = [heap EXCEPT ![k] = u]
    BY <1>4 DEF Set
  <2> HIDE DEF spans
  <2>2. u.trace = heap[k].trace
    BY <1>1 DEF TraceObject
  <2> HIDE DEF u, k
  <2> QED
    BY <1>3, <2>1, <2>2
<1>5. ASSUME NEW p, Begin(a, p)
      PROVE  /\ DOMAIN heap' = DOMAIN heap
             /\ \A j \in DOMAIN heap : heap'[j].trace = heap[j].trace
  <2> DEFINE u == Begun(heap[k], \E b \in Adjuster \ {a} : At(b, k))
  <2>1. heap' = [heap EXCEPT ![k] = u]
    BY <1>5 DEF Begin
  <2>2. u.trace = heap[k].trace
    BY <1>1 DEF TraceObject, Begun
  <2> HIDE DEF u, k
  <2> QED
    BY <1>3, <2>1, <2>2
<1>6. DOMAIN heap' = DOMAIN heap /\ \A j \in DOMAIN heap : heap'[j].trace = heap[j].trace
  <2>1. CASE heap' = heap
    BY <2>1
  <2>2. CASE heap' # heap
    <3>1. \/ GroupSpans(a) \/ ReparentSpan(a) \/ RenameSpan(a) \/ SwapParent(a)
          \/ BuildNodes(a) \/ MoveNode(a)
      BY <2>2 DEF Adjust, TestSpan, BuildSubGraphs, CompareNode, EndSkew, Reads
    <3>2. CASE GroupSpans(a)
      BY <1>5, <3>2 DEF GroupSpans
    <3>3. CASE ReparentSpan(a)
      BY <1>4, <3>3 DEF ReparentSpan
    <3>4. CASE RenameSpan(a)
      BY <1>4, <3>4 DEF RenameSpan
    <3>5. CASE SwapParent(a)
      <4>1. \E i, value : Set(a, i, "parent", value)
        BY <2>2, <3>5 DEF SwapParent
      <4> QED
        BY <1>4, <4>1
    <3>6. CASE BuildNodes(a)
      BY <1>5, <3>6 DEF BuildNodes
    <3>7. CASE MoveNode(a)
      BY <1>4, <3>7 DEF MoveNode
    <3> QED
      BY <3>1, <3>2, <3>3, <3>4, <3>5, <3>6, <3>7
  <2> QED
    BY <2>1, <2>2
<1>7. Len(heap') = Len(heap)
  <2>1. heap' \in Seq(TraceObject)
    BY SInvAdjust DEF SInv, StoreTyped
  <2> QED
    BY <1>1, <1>6, <2>1
<1> QED
  BY <1>2, <1>6, <1>7

\* Only WriteSpan moves the ring.
LEMMA RInvNext == RInv /\ SInv /\ [Next]_vars => RInv'
<1> SUFFICES ASSUME RInv, SInv, [Next]_vars PROVE RInv'
  OBVIOUS
<1>1. CASE \E s \in Span : WriteSpan(s)
  BY <1>1, RInvContinue, RInvBegin
<1>2. ASSUME NEW a, NEW objects, Ask(a, objects) PROVE RInv'
  BY <1>2, RInvKept DEF Ask, storeVars
<1>3. CASE \E r \in Reader : GetTrace(r) \/ FindTraces(r)
  BY <1>2, <1>3 DEF GetTrace, FindTraces
<1>4. CASE GetDependencies
  BY <1>2, <1>4 DEF GetDependencies
<1>5. CASE \E a \in Adjuster : Adjust(a)
  BY <1>5, AdjustKeepsTraces, RInvKept
<1>6. CASE UNCHANGED vars
  BY <1>6, RInvKept DEF vars
<1> QED
  BY <1>1, <1>3, <1>4, <1>5, <1>6 DEF Next

\* The ring's invariant says that the newest are kept.
LEMMA RingNewest ==
  ASSUME RInv, SInv
  PROVE  RingKeepsNewest
<1> DEFINE n == Len(heap)
           M == MaxTraces
<1>1. n \in Nat /\ DOMAIN heap = 1 .. n /\ M \in Nat
      /\ \A t \in DOMAIN traces : traces[t] \in 1 .. n /\ t \in TraceID
  BY LimitAssumption DEF SInv, StoreTyped
<1>2. ASSUME M > 0
      PROVE  /\ {traces[t] : t \in DOMAIN traces} = {k \in DOMAIN heap : k > Len(heap) - MaxTraces}
             /\ {ids[i] : i \in DOMAIN ids} \ {NoTrace} = DOMAIN traces
  <2>1. RingMatches /\ \A t \in DOMAIN traces : heap[traces[t]].trace = t
    BY <1>2 DEF RInv
  <2>2. {traces[t] : t \in DOMAIN traces} = {k \in DOMAIN heap : k > Len(heap) - MaxTraces}
    BY <2>1 DEF RingMatches, Stored
  <2>3. /\ DOMAIN ids = 0 .. M - 1 /\ index \in 0 .. M - 1
        /\ \A i \in 0 .. M - 1 : ids[i] = IF ObjectAt(i) > 0 THEN heap[ObjectAt(i)].trace ELSE NoTrace
    BY <2>1 DEF RingMatches
  <2>4. ASSUME NEW i \in 0 .. M - 1, ids[i] # NoTrace PROVE ids[i] \in DOMAIN traces
    <3>1. ObjectAt(i) > 0 /\ ids[i] = heap[ObjectAt(i)].trace
      BY <2>3, <2>4
    <3>2. ObjectAt(i) \in 1 .. n /\ ObjectAt(i) > n - M
      BY <1>1, <2>3, <3>1 DEF ObjectAt
    <3> QED
      BY <1>1, <2>1, <3>1, <3>2 DEF RingMatches, Stored
  <2>5. ASSUME NEW t \in DOMAIN traces PROVE \E i \in 0 .. M - 1 : ids[i] = t
    <3> DEFINE k == traces[t]
               i == IF index >= n - k THEN index - (n - k) ELSE index - (n - k) + M
    <3>1. k \in 1 .. n /\ k > n - M /\ heap[k].trace = t
      BY <1>1, <2>1 DEF RingMatches, Stored
    <3> HIDE DEF k
    <3>2. i \in 0 .. M - 1
      BY <1>1, <2>3, <3>1
    <3>3. ObjectAt(i) = k
      <4>1. ObjectAt(i) = n - index + i - (IF i <= index THEN 0 ELSE M)
        BY DEF ObjectAt
      <4>2. index \in Nat /\ index < M /\ n \in Nat /\ M \in Nat /\ k \in Nat /\ k <= n /\ n - k < M
        BY <1>1, <2>3, <3>1
      <4> HIDE DEF n, M
      <4>3. CASE index >= n - k
        <5>1. i = index - (n - k) /\ i <= index
          BY <4>2, <4>3
        <5> HIDE DEF i
        <5> QED
          BY <4>1, <4>2, <5>1
      <4>4. CASE ~(index >= n - k)
        <5>1. i = index - (n - k) + M /\ ~(i <= index)
          BY <4>2, <4>4
        <5> HIDE DEF i
        <5> QED
          BY <4>1, <4>2, <5>1
      <4> QED
        BY <4>3, <4>4
    <3> HIDE DEF i
    <3>4. ObjectAt(i) > 0
      BY <1>1, <3>1, <3>3
    <3>5. ids[i] = heap[ObjectAt(i)].trace
      BY <2>3, <3>2, <3>4
    <3>6. ids[i] = t
      BY <3>1, <3>3, <3>5
    <3> QED
      BY <3>2, <3>6
  <2>6. \A t \in DOMAIN traces : t # NoTrace
    BY <1>1, SpanAssumption
  <2>7. {ids[i] : i \in DOMAIN ids} \ {NoTrace} = DOMAIN traces
    <3> DEFINE I == 0 .. M - 1
    <3>1. DOMAIN ids = I
      BY <2>3
    <3>2. \A i \in I : ids[i] # NoTrace => ids[i] \in DOMAIN traces
      BY <2>4
    <3>3. \A t \in DOMAIN traces : t # NoTrace /\ \E i \in I : ids[i] = t
      BY <2>5, <2>6
    <3> HIDE DEF I
    <3>4. {ids[i] : i \in I} \ {NoTrace} = DOMAIN traces
      BY <3>2, <3>3
    <3> QED
      BY <3>1, <3>4
  <2> QED
    BY <2>2, <2>7
<1> QED
  BY <1>2 DEF RingKeepsNewest, RInv

\* With a limit of any size, what is stored is the traces begun last, by ring and by
\* map alike.
THEOREM StoreKeepsNewest == Spec => []RingKeepsNewest
<1>1. Spec => []RInv
  <2>1. Init => RInv
    BY RInvInit
  <2>2. RInv /\ SInv /\ [Next]_vars => RInv'
    BY RInvNext
  <2> QED
    BY <2>1, <2>2, StoreInvariant, PTL DEF Spec
<1>2. RInv /\ SInv => RingKeepsNewest
  BY RingNewest
<1> QED
  BY <1>1, <1>2, StoreInvariant, PTL
=============================================================================
