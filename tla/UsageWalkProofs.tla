--------------------------- MODULE UsageWalkProofs ---------------------------
(***************************************************************************)
(* Proofs about UsageWalk for every clause.  IInv: the counter of a        *)
(* listener is the number of SELECTs around the node it is at, and so      *)
(* nothing inside of an inner SELECT is recorded for the expression around *)
(* it.  JInv: the walks that are over have recorded what is outside of     *)
(* inner SELECTs in their nodes, and the walks to come, each over nodes of *)
(* its own, have all the others.                                           *)
(***************************************************************************)
EXTENDS UsageWalk, LeastElement

IsSeq(s) == \E S : s \in Seq(S)

(* The nodes of the clause are numbered from 1. *)
Tree == \E n \in Nat : clause.last \in [1..n -> 1..n]

IsFrame(f) ==
  f = [walk |-> f.walk, next |-> f.next, open |-> f.open, subqueryDepth |-> f.subqueryDepth,
       found |-> f.found]

Selects(f) == {k \in f.open : Rule(k) = "select_with_parens"}

(* The walker has begun: what it has entered and has not passed is open. *)
UnderWay(f) ==
  /\ f.walk.first \in Nodes
  /\ f.next \in Nat /\ f.walk.first < f.next
  /\ \A k \in f.open : k \in Nat /\ k < f.next
  /\ \A k \in f.walk.first..f.next - 1 : k \in Nodes /\ (clause.last[k] >= f.next => k \in f.open)

(* Where the walker is, and what its listener has counted. *)
FrameOK(f) ==
  /\ IsFrame(f)
  /\ IsFiniteSet(f.open)
  /\ (f.next = f.walk.first /\ f.open = {}) \/ UnderWay(f)
  /\ Counts(f.walk.listener) => f.subqueryDepth = Cardinality(Selects(f))

(* What it has collected. *)
FoundOK(f) ==
  /\ IsSeq(f.found)
  /\ f.walk.listener = "columns" =>
       \A i \in DOMAIN f.found : ~Hidden(f.walk.first, f.found[i])
  /\ f.walk.listener = "comparisons" =>
       \A i \in DOMAIN f.found : ~Hidden(f.found[i].context, f.found[i].column)

(* At most two walks, the second over a predicate of the first. *)
Stack ==
  \/ frames = << >>
  \/ frames = <<frames[1]>>
  \/ frames = <<frames[1], frames[2]>> /\ frames[1].walk.listener = "comparisons"
       /\ frames[2].walk.listener = "columns"

IInv ==
  /\ Tree
  /\ Stack
  /\ \A i \in DOMAIN frames : FrameOK(frames[i]) /\ FoundOK(frames[i])
  /\ IsSeq(usages)
  /\ InnerSelectsIgnored

-------------------------------------------------------------------------------
(* Entering a node adds it to the open ones, of which it was none. *)
LEMMA EnteredNode ==
  ASSUME Tree, NEW f, FrameOK(f), NEW m \in Nodes, m = f.next
  PROVE  /\ m \notin f.open
         /\ IsFrame(Entered(f, m)) /\ Entered(f, m).open = f.open \cup {m}
         /\ IsFiniteSet(Entered(f, m).open)
         /\ UnderWay(Entered(f, m))
<1>1. PICK n \in Nat : clause.last \in [1..n -> 1..n]  BY DEF Tree
<1>2. m \in Nat /\ Nodes = 1..n  BY <1>1 DEF Nodes
<1>3. m \notin f.open  BY <1>2 DEF FrameOK, UnderWay
<1>4. IsFrame(Entered(f, m)) /\ Entered(f, m).open = f.open \cup {m} /\ Entered(f, m).next = m + 1
        /\ Entered(f, m).walk = f.walk
  <2> DEFINE g == [f EXCEPT !.open = @ \cup {m}]
  <2>1. IsFrame(g) /\ g.open = f.open \cup {m} /\ g.walk = f.walk
    BY DEF FrameOK, IsFrame
  <2>2. Entered(f, m) = [g EXCEPT !.next = m + 1]  BY DEF Entered
  <2> HIDE DEF g
  <2> QED BY <2>1, <2>2 DEF IsFrame
<1>5. IsFiniteSet(Entered(f, m).open)  BY <1>4, FS_AddElement DEF FrameOK
<1>6. UnderWay(Entered(f, m))
  <2>1. CASE f.next = f.walk.first /\ f.open = {}
    BY <1>1, <1>2, <1>4, <2>1 DEF UnderWay
  <2>2. CASE UnderWay(f)
    <3>1. f.walk.first \in Nodes /\ m + 1 \in Nat /\ f.walk.first < m + 1
      BY <1>2, <2>2 DEF UnderWay
    <3>2. \A k \in f.open \cup {m} : k \in Nat /\ k < m + 1
      BY <1>2, <2>2 DEF UnderWay
    <3>3. ASSUME NEW k \in f.walk.first..m
          PROVE  k \in Nodes /\ (clause.last[k] >= m + 1 => k \in f.open \cup {m})
      <4>1. CASE k = m  BY <4>1
      <4>2. CASE k # m
        <5>1. k \in f.walk.first..f.next - 1  BY <1>2, <3>1, <4>2
        <5>2. k \in Nodes /\ (clause.last[k] >= f.next => k \in f.open)  BY <2>2, <5>1 DEF UnderWay
        <5>3. clause.last[k] \in Nat  BY <1>1, <5>2 DEF Nodes
        <5> QED BY <1>2, <5>2, <5>3
      <4> QED BY <4>1, <4>2
    <3> QED BY <1>2, <1>4, <3>1, <3>2, <3>3 DEF UnderWay
  <2> QED BY <2>1, <2>2 DEF FrameOK
<1> QED BY <1>3, <1>4, <1>5, <1>6

(* A listener that has counted nothing is outside of every inner SELECT. *)
LEMMA OutsideAtDepthZero ==
  ASSUME Tree, NEW f, FrameOK(f), NEW m \in Nodes, m = f.next,
         Counts(f.walk.listener), f.subqueryDepth = 0
  PROVE  ~Hidden(f.walk.first, m)
<1>1. PICK n \in Nat : clause.last \in [1..n -> 1..n]  BY DEF Tree
<1>2. m \in Nat  BY <1>1 DEF Nodes
<1>3. Selects(f) = {}
  <2>1. IsFiniteSet(Selects(f))  BY FS_Subset DEF FrameOK, Selects
  <2> QED BY <2>1, FS_EmptySet DEF FrameOK
<1>4. CASE f.next = f.walk.first /\ f.open = {}  BY <1>2, <1>4 DEF Hidden
<1>5. CASE UnderWay(f)
  <2> SUFFICES ASSUME NEW k \in f.walk.first..m - 1, Rule(k) = "select_with_parens",
                      clause.last[k] >= m
               PROVE FALSE
    BY DEF Hidden
  <2>1. k \in f.open  BY <1>5 DEF UnderWay
  <2> QED BY <1>3, <2>1 DEF Selects
<1> QED BY <1>4, <1>5 DEF FrameOK

(* Entering any other node than a SELECT leaves the count as it is. *)
LEMMA EnterPlain ==
  ASSUME Tree, NEW f, FrameOK(f), NEW m \in Nodes, m = f.next, Rule(m) # "select_with_parens"
  PROVE  FrameOK(Entered(f, m))
<1>1. Selects(Entered(f, m)) = Selects(f)  BY EnteredNode DEF Selects
<1>2. Entered(f, m).subqueryDepth = f.subqueryDepth /\ Entered(f, m).walk = f.walk
  BY DEF FrameOK, IsFrame, Entered
<1> QED BY <1>1, <1>2, EnteredNode DEF FrameOK

LEMMA EnterSelect ==
  ASSUME Tree, NEW f, FrameOK(f), NEW m \in Nodes, m = f.next, Rule(m) = "select_with_parens"
  PROVE  FrameOK(Deeper(Entered(f, m)))
<1> DEFINE e == Entered(f, m)
<1>1. IsFrame(e) /\ IsFiniteSet(e.open) /\ UnderWay(e) /\ m \notin f.open
  BY EnteredNode
<1>2. e.subqueryDepth = f.subqueryDepth /\ e.walk = f.walk
  BY DEF FrameOK, IsFrame, Entered
<1>3. CASE ~Counts(f.walk.listener)
  <2>1. Deeper(e) = e  BY <1>2, <1>3 DEF Deeper
  <2> QED BY <1>1, <1>2, <1>3, <2>1 DEF FrameOK
<1>4. CASE Counts(f.walk.listener)
  <2>1. Selects(e) = Selects(f) \cup {m} /\ m \notin Selects(f)  BY EnteredNode DEF Selects
  <2>2. IsFiniteSet(Selects(f))  BY FS_Subset DEF FrameOK, Selects
  <2>3. Cardinality(Selects(e)) = Cardinality(Selects(f)) + 1  BY <2>1, <2>2, FS_AddElement
  <2>4. Deeper(e) = [e EXCEPT !.subqueryDepth = @ + 1]  BY <1>2, <1>4 DEF Deeper
  <2>5. /\ IsFrame(Deeper(e)) /\ Deeper(e).walk = e.walk /\ Deeper(e).next = e.next
        /\ Deeper(e).open = e.open /\ Deeper(e).subqueryDepth = f.subqueryDepth + 1
    BY <1>1, <1>2, <2>4 DEF IsFrame
  <2>6. UnderWay(Deeper(e)) /\ Selects(Deeper(e)) = Selects(e)
    BY <1>1, <2>5 DEF UnderWay, Selects
  <2>7. Counts(f.walk.listener) => f.subqueryDepth = Cardinality(Selects(f))  BY DEF FrameOK
  <2> HIDE DEF e
  <2>8. FrameOK(Deeper(e))  BY <1>1, <1>2, <1>4, <2>3, <2>5, <2>6, <2>7 DEF FrameOK
  <2> QED BY <2>8 DEF e
<1> QED BY <1>3, <1>4

(* Leaving the innermost open node takes it from the open ones, and from the count if it is a SELECT. *)
LEMMA LeftNode ==
  ASSUME Tree, NEW f, FrameOK(f), NEW m \in f.open, clause.last[m] < f.next
  PROVE  FrameOK(IF Rule(m) = "select_with_parens" THEN LessDeep([f EXCEPT !.open = @ \ {m}])
                                                   ELSE [f EXCEPT !.open = @ \ {m}])
<1> DEFINE l == [f EXCEPT !.open = @ \ {m}]
<1>1. PICK n \in Nat : clause.last \in [1..n -> 1..n]  BY DEF Tree
<1>2. /\ IsFrame(l) /\ l.walk = f.walk /\ l.next = f.next /\ l.open = f.open \ {m}
      /\ l.subqueryDepth = f.subqueryDepth /\ l.found = f.found
  BY DEF FrameOK, IsFrame
<1>3. IsFiniteSet(l.open)  BY <1>2, FS_Subset DEF FrameOK
<1>4. UnderWay(f)  BY DEF FrameOK
<1>5. UnderWay(l)
  <2>1. ASSUME NEW k \in f.walk.first..f.next - 1
        PROVE  k \in Nodes /\ (clause.last[k] >= f.next => k \in f.open \ {m})
    <3>1. k \in Nodes /\ (clause.last[k] >= f.next => k \in f.open)  BY <1>4 DEF UnderWay
    <3>2. clause.last[k] \in Nat /\ f.next \in Nat  BY <1>1, <1>4, <3>1 DEF Nodes, UnderWay
    <3> QED BY <3>1, <3>2
  <2> QED BY <1>2, <1>4, <2>1 DEF UnderWay
<1>6. IsFiniteSet(Selects(f))  BY FS_Subset DEF FrameOK, Selects
<1>7. CASE Rule(m) # "select_with_parens"
  <2>1. Selects(l) = Selects(f)  BY <1>2, <1>7 DEF Selects
  <2> QED BY <1>2, <1>3, <1>5, <1>7, <2>1 DEF FrameOK
<1>8. CASE Rule(m) = "select_with_parens" /\ ~Counts(f.walk.listener)
  <2>1. LessDeep(l) = l  BY <1>2, <1>8 DEF LessDeep
  <2> QED BY <1>2, <1>3, <1>5, <1>8, <2>1 DEF FrameOK
<1>9. CASE Rule(m) = "select_with_parens" /\ Counts(f.walk.listener)
  <2>1. Selects(l) = Selects(f) \ {m} /\ m \in Selects(f)  BY <1>2, <1>9 DEF Selects
  <2>2. Cardinality(Selects(l)) = Cardinality(Selects(f)) - 1  BY <1>6, <2>1, FS_RemoveElement
  <2>3. Cardinality(Selects(f)) \in Nat /\ Cardinality(Selects(f)) # 0
    BY <1>6, <2>1, FS_CardinalityType, FS_EmptySet
  <2>4. l.subqueryDepth > 0  BY <1>2, <1>9, <2>3 DEF FrameOK
  <2>5. LessDeep(l) = [l EXCEPT !.subqueryDepth = @ - 1]  BY <1>2, <1>9, <2>4 DEF LessDeep
  <2>6. /\ IsFrame(LessDeep(l)) /\ LessDeep(l).walk = l.walk /\ LessDeep(l).next = l.next
        /\ LessDeep(l).open = l.open /\ LessDeep(l).subqueryDepth = f.subqueryDepth - 1
    BY <1>2, <2>5 DEF IsFrame
  <2>7. UnderWay(LessDeep(l)) /\ Selects(LessDeep(l)) = Selects(l)
    BY <1>5, <2>6 DEF UnderWay, Selects
  <2>8. FrameOK(LessDeep(l))
    <3> HIDE DEF l
    <3> QED BY <1>2, <1>3, <1>9, <2>2, <2>6, <2>7 DEF FrameOK
  <2> QED BY <1>9, <2>8
<1> QED BY <1>7, <1>8, <1>9

-------------------------------------------------------------------------------
(* What an element added to or taken from a sequence leaves in it. *)
LEMMA AppendAll ==
  ASSUME NEW s, IsSeq(s), NEW e
  PROVE  /\ IsSeq(Append(s, e))
         /\ \A i \in DOMAIN Append(s, e) :
              (i \in DOMAIN s /\ Append(s, e)[i] = s[i]) \/ Append(s, e)[i] = e
<1>1. PICK S : s \in Seq(S)  BY DEF IsSeq
<1>2. s \in Seq(S \cup {e})  BY <1>1
<1>3. Append(s, e) \in Seq(S \cup {e})  BY <1>2
<1>4. \A i \in DOMAIN Append(s, e) :
        (i \in DOMAIN s /\ Append(s, e)[i] = s[i]) \/ Append(s, e)[i] = e
  BY <1>2
<1> QED BY <1>3, <1>4 DEF IsSeq

LEMMA TailAll ==
  ASSUME NEW s, IsSeq(s), s # << >>
  PROVE  /\ 1 \in DOMAIN s /\ Head(s) = s[1]
         /\ IsSeq(Tail(s))
         /\ \A i \in DOMAIN Tail(s) : i + 1 \in DOMAIN s /\ Tail(s)[i] = s[i + 1]
<1>1. PICK S : s \in Seq(S)  BY DEF IsSeq
<1>2. Tail(s) \in Seq(S)  BY <1>1
<1> QED BY <1>1, <1>2 DEF IsSeq

LEMMA ConcatAll ==
  ASSUME NEW s, IsSeq(s), NEW t, IsSeq(t)
  PROVE  /\ IsSeq(s \o t)
         /\ \A i \in DOMAIN (s \o t) :
              (i \in DOMAIN s /\ (s \o t)[i] = s[i])
              \/ (i - Len(s) \in DOMAIN t /\ (s \o t)[i] = t[i - Len(s)])
<1>1. PICK S : s \in Seq(S)  BY DEF IsSeq
<1>2. PICK T : t \in Seq(T)  BY DEF IsSeq
<1>3. s \in Seq(S \cup T) /\ t \in Seq(S \cup T)  BY <1>1, <1>2
<1> QED BY <1>3 DEF IsSeq

(* The stacks that occur. *)
LEMMA Pairs ==
  ASSUME NEW a, NEW b
  PROVE  Front(<<a>>) = << >> /\ Front(<<a, b>>) = <<a>>
<1>1. <<a, b>> \in Seq({a, b}) /\ <<a>> \in Seq({a, b}) /\ Len(<<a, b>>) = 2 /\ Len(<<a>>) = 1
  OBVIOUS
<1>2. Front(<<a>>) = << >>  BY <1>1, SubSeqEmpty DEF Front
<1>3. Front(<<a, b>>) = <<a>>
  <2>1. SubSeq(<<a, b>>, 1, 1) \in Seq({a, b}) /\ Len(SubSeq(<<a, b>>, 1, 1)) = 1
        /\ SubSeq(<<a, b>>, 1, 1)[1] = a
    BY <1>1, SubSeqProperties
  <2>2. \A i \in 1..1 : SubSeq(<<a, b>>, 1, 1)[i] = <<a>>[i]  BY <2>1
  <2>3. SubSeq(<<a, b>>, 1, 1) = <<a>>  BY <1>1, <2>1, <2>2, SeqEqual, Zenon
  <2>4. Front(<<a, b>>) = SubSeq(<<a, b>>, 1, 1)  BY <1>1 DEF Front
  <2> QED BY <2>3, <2>4
<1> QED BY <1>2, <1>3

(* A frame that only collects something keeps its place and its count. *)
LEMMA Collects ==
  ASSUME NEW f, FrameOK(f), NEW s
  PROVE  /\ FrameOK([f EXCEPT !.found = s])
         /\ [f EXCEPT !.found = s].walk = f.walk
         /\ [f EXCEPT !.found = s].found = s
<1>1. /\ IsFrame([f EXCEPT !.found = s])
      /\ [f EXCEPT !.found = s].walk = f.walk /\ [f EXCEPT !.found = s].next = f.next
      /\ [f EXCEPT !.found = s].open = f.open /\ [f EXCEPT !.found = s].subqueryDepth = f.subqueryDepth
      /\ [f EXCEPT !.found = s].found = s
  BY DEF FrameOK, IsFrame
<1> DEFINE g == [f EXCEPT !.found = s]
<1> HIDE DEF g
<1>2. FrameOK(g)  BY <1>1 DEF FrameOK, UnderWay, Selects, g
<1> QED BY <1>1, <1>2 DEF g

(* Moving a frame leaves its walk and what it has collected. *)
LEMMA MovesOnly ==
  ASSUME NEW f, IsFrame(f), NEW m
  PROVE  /\ IsFrame(Entered(f, m)) /\ Entered(f, m).walk = f.walk /\ Entered(f, m).found = f.found
         /\ Entered(f, m).subqueryDepth = f.subqueryDepth
         /\ Deeper(f).walk = f.walk /\ Deeper(f).found = f.found
         /\ LessDeep(f).walk = f.walk /\ LessDeep(f).found = f.found
<1>1. Deeper(f).walk = f.walk /\ Deeper(f).found = f.found  BY DEF IsFrame, Deeper
<1>2. LessDeep(f).walk = f.walk /\ LessDeep(f).found = f.found  BY DEF IsFrame, LessDeep
<1>3. /\ IsFrame(Entered(f, m)) /\ Entered(f, m).walk = f.walk /\ Entered(f, m).found = f.found
      /\ Entered(f, m).subqueryDepth = f.subqueryDepth
  <2> DEFINE g == [f EXCEPT !.open = @ \cup {m}]
  <2>1. IsFrame(g) /\ g.found = f.found /\ g.walk = f.walk /\ g.subqueryDepth = f.subqueryDepth
    BY DEF IsFrame
  <2>2. Entered(f, m) = [g EXCEPT !.next = m + 1]  BY DEF Entered
  <2> HIDE DEF g
  <2> QED BY <2>1, <2>2 DEF IsFrame
<1> QED BY <1>1, <1>2, <1>3

(* A frame and what it has collected are judged by the tree alone, which no step changes. *)
LEMMA TreeStays ==
  ASSUME UNCHANGED clause
  PROVE  /\ Tree <=> Tree'
         /\ \A f : FrameOK(f) <=> FrameOK(f)'
         /\ \A f : FoundOK(f) <=> FoundOK(f)'
         /\ \A m, n : Hidden(m, n) <=> Hidden(m, n)'
BY DEF Tree, FrameOK, UnderWay, Selects, FoundOK, Hidden, Rule, Nodes, IsFrame, Counts

(* Replacing the current frame by another of the same walk. *)
LEMMA ContinueStack ==
  ASSUME Stack, frames # << >>, NEW f, f.walk = current.walk, Continue(f)
  PROVE  /\ Stack' /\ Len(frames) \in DOMAIN frames
         /\ \A i \in DOMAIN frames' :
              i \in DOMAIN frames /\ frames'[i] = IF i = Len(frames) THEN f ELSE frames[i]
BY DEF Stack, Continue, current

-------------------------------------------------------------------------------
(* A callback that only moves the current frame, or collects the node it is for. *)
LEMMA Moved ==
  ASSUME IInv, frames # << >>, NEW f, f.walk = current.walk, FrameOK(f), FoundOK(f),
         Continue(f), UNCHANGED <<clause, usages>>
  PROVE  IInv'
<1>1. Stack' /\ \A i \in DOMAIN frames' :
        i \in DOMAIN frames /\ frames'[i] = IF i = Len(frames) THEN f ELSE frames[i]
  BY ContinueStack DEF IInv
<1>2. \A i \in DOMAIN frames' : FrameOK(frames'[i]) /\ FoundOK(frames'[i])
  BY <1>1 DEF IInv
<1>3. (\A i \in DOMAIN frames : FrameOK(frames[i]) /\ FoundOK(frames[i]))'
  BY <1>2, TreeStays
<1>4. InnerSelectsIgnored'  BY TreeStays DEF IInv, InnerSelectsIgnored
<1> QED BY <1>1, <1>3, <1>4, TreeStays DEF IInv

LEMMA CurrentOK ==
  ASSUME IInv, frames # << >>
  PROVE  Len(frames) \in DOMAIN frames /\ FrameOK(current) /\ FoundOK(current) /\ IsFrame(current)
<1>1. Len(frames) \in DOMAIN frames  BY DEF IInv, Stack
<1> QED BY <1>1 DEF IInv, current, FrameOK

(* A node collected is not hidden if the listener is one of columns, whatever it is otherwise. *)
LEMMA CollectedOK ==
  ASSUME NEW f, FrameOK(f), FoundOK(f), f.walk.listener # "comparisons", NEW m,
         f.walk.listener = "columns" => ~Hidden(f.walk.first, m)
  PROVE  FoundOK([f EXCEPT !.found = Append(@, m)])
<1>1. /\ [f EXCEPT !.found = Append(@, m)].walk = f.walk
      /\ [f EXCEPT !.found = Append(@, m)].found = Append(f.found, m)
  BY Collects
<1> QED BY <1>1, AppendAll DEF FoundOK

LEMMA EnterColumnrefStep == ASSUME IInv, NEW m \in Nodes, EnterColumnref(m) PROVE IInv'
<1>1. /\ frames # << >> /\ m = current.next /\ Rule(m) = "columnref"
      /\ UNCHANGED <<clause, usages>>
  BY DEF EnterColumnref, Arrives
<1>2. FrameOK(current) /\ FoundOK(current) /\ IsFrame(current)  BY <1>1, CurrentOK
<1> DEFINE e == Entered(current, m)
<1>3. FrameOK(e)  BY <1>1, <1>2, EnterPlain DEF IInv
<1>4. e.walk = current.walk /\ FoundOK(e)  BY <1>2, MovesOnly DEF FoundOK
<1>5. CASE current.walk.listener = "columns" /\ current.subqueryDepth = 0
  <2> DEFINE g == [e EXCEPT !.found = Append(@, m)]
  <2>1. ~Hidden(current.walk.first, m)  BY <1>1, <1>2, <1>5, OutsideAtDepthZero DEF Counts, IInv
  <2> HIDE DEF e
  <2>2. FrameOK(g) /\ FoundOK(g) /\ g.walk = current.walk
    BY <1>3, <1>4, <1>5, <2>1, Collects, CollectedOK
  <2>3. Continue(g)  BY <1>5 DEF EnterColumnref, e
  <2> HIDE DEF g
  <2> QED BY <1>1, <2>2, <2>3, Moved
<1>6. CASE ~(current.walk.listener = "columns" /\ current.subqueryDepth = 0)
  <2>1. Continue(e)  BY <1>6 DEF EnterColumnref
  <2> HIDE DEF e
  <2> QED BY <1>1, <1>3, <1>4, <2>1, Moved
<1> QED BY <1>5, <1>6

LEMMA EnterSelectStep == ASSUME IInv, NEW m \in Nodes, EnterSelect_with_parens(m) PROVE IInv'
<1>1. /\ frames # << >> /\ m = current.next /\ Rule(m) = "select_with_parens"
      /\ UNCHANGED <<clause, usages>>
  BY DEF EnterSelect_with_parens, Arrives
<1>2. FrameOK(current) /\ FoundOK(current) /\ IsFrame(current)  BY <1>1, CurrentOK
<1> DEFINE e == Entered(current, m)
           d == Deeper(e)
<1>3. FrameOK(d)  BY <1>1, <1>2, EnterSelect DEF IInv
<1>4. /\ d.walk = current.walk /\ FoundOK(d)
      /\ e.walk = current.walk /\ e.found = current.found /\ IsFrame(e)
  BY <1>2, MovesOnly DEF FoundOK
<1>5. CASE current.walk.listener = "subqueries" /\ current.subqueryDepth = 0
  <2> DEFINE g == Deeper([e EXCEPT !.found = Append(@, m)])
             h == [d EXCEPT !.found = Append(@, m)]
  <2>1. g = h  BY <1>4, <1>5 DEF Deeper, Counts, IsFrame
  <2>2. Continue(g)  BY <1>5 DEF EnterSelect_with_parens
  <2> HIDE DEF d
  <2>3. FrameOK(h) /\ FoundOK(h) /\ h.walk = current.walk
    BY <1>3, <1>4, <1>5, Collects, CollectedOK
  <2> HIDE DEF g, h
  <2> QED BY <1>1, <2>1, <2>2, <2>3, Moved
<1>6. CASE ~(current.walk.listener = "subqueries" /\ current.subqueryDepth = 0)
  <2>1. Continue(d)  BY <1>6 DEF EnterSelect_with_parens
  <2> HIDE DEF d
  <2> QED BY <1>1, <1>3, <1>4, <2>1, Moved
<1> QED BY <1>5, <1>6

LEMMA EnterOverStep == ASSUME IInv, NEW m \in Nodes, EnterOver_clause(m) PROVE IInv'
<1>1. /\ frames # << >> /\ m = current.next /\ Rule(m) = "over_clause"
      /\ UNCHANGED <<clause, usages>>
  BY DEF EnterOver_clause, Arrives
<1>2. FrameOK(current) /\ FoundOK(current) /\ IsFrame(current)  BY <1>1, CurrentOK
<1> DEFINE e == Entered(current, m)
<1>3. FrameOK(e)  BY <1>1, <1>2, EnterPlain DEF IInv
<1>4. e.walk = current.walk /\ FoundOK(e)  BY <1>2, MovesOnly DEF FoundOK
<1>5. CASE current.walk.listener = "windows"
  <2> DEFINE g == [e EXCEPT !.found = Append(@, m)]
  <2> HIDE DEF e
  <2>1. FrameOK(g) /\ FoundOK(g) /\ g.walk = current.walk
    BY <1>3, <1>4, <1>5, Collects, CollectedOK
  <2>2. Continue(g)  BY <1>5 DEF EnterOver_clause, e
  <2> HIDE DEF g
  <2> QED BY <1>1, <2>1, <2>2, Moved
<1>6. CASE current.walk.listener # "windows"
  <2>1. Continue(e)  BY <1>6 DEF EnterOver_clause
  <2> HIDE DEF e
  <2> QED BY <1>1, <1>3, <1>4, <2>1, Moved
<1> QED BY <1>5, <1>6

LEMMA EnterOtherStep == ASSUME IInv, NEW m \in Nodes, EnterOther(m) PROVE IInv'
<1>1. /\ frames # << >> /\ m = current.next /\ Rule(m) # "select_with_parens"
      /\ UNCHANGED <<clause, usages>>
  BY DEF EnterOther, Arrives, WindowParts
<1>2. FrameOK(current) /\ FoundOK(current) /\ IsFrame(current)  BY <1>1, CurrentOK
<1> DEFINE e == Entered(current, m)
<1>3. FrameOK(e)  BY <1>1, <1>2, EnterPlain DEF IInv
<1>4. e.walk = current.walk /\ FoundOK(e)  BY <1>2, MovesOnly DEF FoundOK
<1>5. Continue(e)  BY DEF EnterOther
<1> HIDE DEF e
<1> QED BY <1>1, <1>3, <1>4, <1>5, Moved

LEMMA ExitStep == ASSUME IInv, NEW m \in Nodes, Exit(m) PROVE IInv'
<1>1. frames # << >> /\ m \in current.open /\ clause.last[m] < current.next /\ UNCHANGED <<clause, usages>>
  BY DEF Exit, Passed
<1>2. FrameOK(current) /\ FoundOK(current) /\ IsFrame(current)  BY <1>1, CurrentOK
<1> DEFINE l == [current EXCEPT !.open = @ \ {m}]
           g == IF Rule(m) = "select_with_parens" THEN LessDeep(l) ELSE l
<1>3. FrameOK(g)  BY <1>1, <1>2, LeftNode DEF IInv
<1>4. IsFrame(l) /\ l.walk = current.walk /\ l.found = current.found  BY <1>2 DEF IsFrame
<1>5. g.walk = current.walk /\ g.found = current.found
  <2> HIDE DEF l
  <2> QED BY <1>4, MovesOnly
<1>6. Continue(g)  BY DEF Exit
<1> HIDE DEF g
<1>7. FoundOK(g)  BY <1>2, <1>5 DEF FoundOK
<1> QED BY <1>1, <1>3, <1>5, <1>6, <1>7, Moved

(* A walk that has just begun. *)
LEMMA FreshFrame ==
  ASSUME NEW w
  PROVE  FrameOK(Frame(w)) /\ FoundOK(Frame(w)) /\ Frame(w).walk = w
<1>1. /\ IsFrame(Frame(w)) /\ Frame(w).next = w.first /\ Frame(w).open = {} /\ Frame(w).walk = w
      /\ Frame(w).subqueryDepth = 0 /\ Frame(w).found = << >>
  BY DEF Frame, IsFrame
<1>2. Selects(Frame(w)) = {}  BY <1>1 DEF Selects
<1>3. FrameOK(Frame(w))  BY <1>1, <1>2, FS_EmptySet DEF FrameOK
<1>4. << >> \in Seq({})  OBVIOUS
<1> QED BY <1>1, <1>3, <1>4 DEF FoundOK, IsSeq

LEMMA EnterPredicateStep == ASSUME IInv, NEW m \in Nodes, EnterPredicate(m) PROVE IInv'
<1>1. /\ frames # << >> /\ m = current.next /\ Rule(m) # "select_with_parens"
      /\ UNCHANGED <<clause, usages>>
  BY DEF EnterPredicate, Arrives, Predicates
<1>2. /\ FrameOK(current) /\ FoundOK(current) /\ IsFrame(current)
      /\ Len(frames) \in DOMAIN frames
  BY <1>1, CurrentOK
<1> DEFINE e == Entered(current, m)
<1>3. FrameOK(e)  BY <1>1, <1>2, EnterPlain DEF IInv
<1>4. e.walk = current.walk /\ FoundOK(e)  BY <1>2, MovesOnly DEF FoundOK
<1>5. CASE Compares /\ OperatorOf(Rule(m), Words(m)) # << >>
  <2> DEFINE f == Frame(WalkOf("columns", m, "filter"))
  <2>1. frames' = <<e, f>>  BY <1>5 DEF EnterPredicate
  <2>2. FrameOK(f) /\ FoundOK(f) /\ f.walk = WalkOf("columns", m, "filter")  BY FreshFrame
  <2>3. f.walk.listener = "columns"  BY <2>2 DEF WalkOf, Walk
  <2>4. current.walk.listener = "comparisons"  BY <1>5 DEF Compares
  <2> HIDE DEF e, f
  <2>5. Stack'  BY <1>4, <2>1, <2>3, <2>4 DEF Stack
  <2>6. (\A i \in DOMAIN frames : FrameOK(frames[i]) /\ FoundOK(frames[i]))'
    BY <1>1, <1>3, <1>4, <2>1, <2>2, TreeStays
  <2>7. InnerSelectsIgnored'  BY <1>1, TreeStays DEF IInv, InnerSelectsIgnored
  <2> QED BY <1>1, <2>5, <2>6, <2>7, TreeStays DEF IInv
<1>6. CASE ~(Compares /\ OperatorOf(Rule(m), Words(m)) # << >>)
  <2>1. Continue(e)  BY <1>6 DEF EnterPredicate
  <2> HIDE DEF e
  <2> QED BY <1>1, <1>3, <1>4, <2>1, Moved
<1> QED BY <1>5, <1>6

LEMMA BeginWalkStep == ASSUME IInv, BeginWalk PROVE IInv'
<1> DEFINE f == Frame(Head(todo))
<1>1. frames' = <<f>> /\ UNCHANGED <<clause, usages>>  BY DEF BeginWalk
<1>2. FrameOK(f) /\ FoundOK(f)  BY FreshFrame
<1> HIDE DEF f
<1>3. Stack'  BY <1>1 DEF Stack
<1>4. (\A i \in DOMAIN frames : FrameOK(frames[i]) /\ FoundOK(frames[i]))'
  BY <1>1, <1>2, TreeStays
<1>5. InnerSelectsIgnored'  BY <1>1, TreeStays DEF IInv, InnerSelectsIgnored
<1> QED BY <1>1, <1>3, <1>4, <1>5, TreeStays DEF IInv

(* The walk that ends is taken off the stack. *)
LEMMA Popped ==
  ASSUME IInv, frames # << >>, frames' = Front(frames), UNCHANGED clause
  PROVE  Stack' /\ (\A i \in DOMAIN frames : FrameOK(frames[i]) /\ FoundOK(frames[i]))'
<1>1. frames' = << >> \/ frames' = <<frames[1]>>
  <2>1. CASE frames = <<frames[1]>>  BY <2>1, Pairs, Zenon
  <2>2. CASE frames = <<frames[1], frames[2]>>  BY <2>2, Pairs, Zenon
  <2> QED BY <2>1, <2>2 DEF IInv, Stack
<1>2. Stack'  BY <1>1 DEF Stack
<1>3. 1 \in DOMAIN frames  BY DEF IInv, Stack
<1>4. FrameOK(frames[1]) /\ FoundOK(frames[1])  BY <1>3 DEF IInv
<1> QED BY <1>1, <1>2, <1>4, TreeStays

LEMMA RecordUsageStep == ASSUME IInv, RecordUsage PROVE IInv'
<1> DEFINE recorded == [i \in DOMAIN current.found |->
             Usage(current.found[i], current.walk.role, current.walk.first, << >>)]
<1>1. /\ frames # << >> /\ current.walk.listener = "columns" /\ usages' = usages \o recorded
      /\ frames' = Front(frames) /\ UNCHANGED clause
  BY DEF RecordUsage, Ends
<1>2. FoundOK(current)  BY <1>1, CurrentOK
<1>3. DOMAIN recorded = DOMAIN current.found
      /\ \A i \in DOMAIN recorded : ~Hidden(recorded[i].context, recorded[i].column)
  BY <1>1, <1>2 DEF FoundOK, Usage
<1>4. IsSeq(recorded)
  <2>1. PICK S : current.found \in Seq(S)  BY <1>2 DEF FoundOK, IsSeq
  <2>2. recorded \in Seq({recorded[i] : i \in DOMAIN recorded})  BY <2>1
  <2> QED BY <2>2 DEF IsSeq
<1> HIDE DEF recorded
<1>5. IsSeq(usages \o recorded)
      /\ \A i \in DOMAIN (usages \o recorded) :
           ~Hidden((usages \o recorded)[i].context, (usages \o recorded)[i].column)
  BY <1>3, <1>4, ConcatAll DEF IInv, InnerSelectsIgnored
<1>6. IsSeq(usages)' /\ InnerSelectsIgnored'
  BY <1>1, <1>5, TreeStays DEF InnerSelectsIgnored, IsSeq
<1> QED BY <1>1, <1>6, Popped, TreeStays DEF IInv

LEMMA RecordSubqueriesStep == ASSUME IInv, RecordSubqueries PROVE IInv'
<1>1. frames # << >> /\ frames' = Front(frames) /\ UNCHANGED <<clause, usages>>
  BY DEF RecordSubqueries, Ends
<1>2. InnerSelectsIgnored'  BY <1>1, TreeStays DEF IInv, InnerSelectsIgnored
<1> QED BY <1>1, <1>2, Popped, TreeStays DEF IInv

LEMMA RecordWindowsStep == ASSUME IInv, RecordWindows PROVE IInv'
<1>1. frames # << >> /\ frames' = Front(frames) /\ UNCHANGED <<clause, usages>>
  BY DEF RecordWindows, Ends
<1>2. InnerSelectsIgnored'  BY <1>1, TreeStays DEF IInv, InnerSelectsIgnored
<1> QED BY <1>1, <1>2, Popped, TreeStays DEF IInv

(* What is left to record when the first of the collected is taken is as it was. *)
LEMMA TakenOK ==
  ASSUME NEW f, FrameOK(f), FoundOK(f), f.found # << >>
  PROVE  /\ FrameOK([f EXCEPT !.found = Tail(@)]) /\ FoundOK([f EXCEPT !.found = Tail(@)])
         /\ [f EXCEPT !.found = Tail(@)].walk = f.walk
<1>1. /\ FrameOK([f EXCEPT !.found = Tail(@)])
      /\ [f EXCEPT !.found = Tail(@)].walk = f.walk
      /\ [f EXCEPT !.found = Tail(@)].found = Tail(f.found)
  BY Collects
<1> QED BY <1>1, TailAll DEF FoundOK

LEMMA RecordComparisonsStep == ASSUME IInv, RecordComparisons PROVE IInv'
<1>1. frames # << >> /\ current.walk.listener = "comparisons" /\ UNCHANGED clause
  BY DEF RecordComparisons, Ends
<1>2. FrameOK(current) /\ FoundOK(current)  BY <1>1, CurrentOK
<1>3. CASE current.found = << >>
  <2>1. frames' = Front(frames) /\ usages' = usages  BY <1>3 DEF RecordComparisons
  <2>2. InnerSelectsIgnored'  BY <1>1, <2>1, TreeStays DEF IInv, InnerSelectsIgnored
  <2> QED BY <1>1, <2>1, <2>2, Popped, TreeStays DEF IInv
<1>4. CASE current.found # << >>
  <2> DEFINE f == [current EXCEPT !.found = Tail(@)]
             comparison == Head(current.found)
  <2>1. Continue(f)  BY <1>4 DEF RecordComparisons, Take
  <2>2. FrameOK(f) /\ FoundOK(f) /\ f.walk = current.walk  BY <1>2, <1>4, TakenOK
  <2> HIDE DEF f
  <2>3. Stack' /\ \A i \in DOMAIN frames' :
          i \in DOMAIN frames /\ frames'[i] = IF i = Len(frames) THEN f ELSE frames[i]
    BY <1>1, <2>1, <2>2, ContinueStack DEF IInv
  <2>4. \A i \in DOMAIN frames' : FrameOK(frames'[i]) /\ FoundOK(frames'[i])
    BY <2>2, <2>3 DEF IInv
  <2>5. (\A i \in DOMAIN frames : FrameOK(frames[i]) /\ FoundOK(frames[i]))'
    BY <1>1, <2>4, TreeStays
  <2>6. ~Hidden(comparison.context, comparison.column)
    BY <1>1, <1>2, <1>4, TailAll DEF FoundOK
  <2>7. usages' = usages \/ usages' = Append(usages, comparison)
    BY <1>4 DEF RecordComparisons
  <2> HIDE DEF comparison
  <2>8. IsSeq(usages') /\ \A i \in DOMAIN usages' : ~Hidden(usages'[i].context, usages'[i].column)
    <3>1. IsSeq(usages) /\ \A i \in DOMAIN usages : ~Hidden(usages[i].context, usages[i].column)
      BY DEF IInv, InnerSelectsIgnored
    <3>2. CASE usages' = Append(usages, comparison)
      <4>1. IsSeq(usages') /\ \A i \in DOMAIN usages' :
              (i \in DOMAIN usages /\ usages'[i] = usages[i]) \/ usages'[i] = comparison
        BY <3>1, <3>2, AppendAll
      <4> QED BY <2>6, <3>1, <4>1
    <3> QED BY <2>7, <3>1, <3>2
  <2>9. IsSeq(usages)' /\ InnerSelectsIgnored'
    BY <1>1, <2>8, TreeStays DEF InnerSelectsIgnored, IsSeq
  <2> QED BY <1>1, <2>3, <2>5, <2>9, TreeStays DEF IInv
<1> QED BY <1>3, <1>4

LEMMA RecordComparisonStep == ASSUME IInv, RecordComparison PROVE IInv'
<1> DEFINE predicate == current.walk.first
           column    == Head(current.found)
           compared  == Usage(column, "filter", predicate,
                              OperatorOf(Rule(predicate), Words(predicate)))
           f == [current EXCEPT !.found = Tail(@)]
           g == [frames[1] EXCEPT !.found = Append(@, compared)]
<1>1. /\ frames # << >> /\ current.walk.listener = "columns" /\ Len(frames) = 2
      /\ UNCHANGED <<clause, usages>>
  BY DEF RecordComparison, Ends
<1>2. FrameOK(current) /\ FoundOK(current)  BY <1>1, CurrentOK
<1>3. CASE current.found = << >>
  <2>1. frames' = Front(frames)  BY <1>3 DEF RecordComparison
  <2>2. InnerSelectsIgnored'  BY <1>1, TreeStays DEF IInv, InnerSelectsIgnored
  <2> QED BY <1>1, <2>1, <2>2, Popped, TreeStays DEF IInv
<1>4. CASE current.found # << >>
  <2>1. FrameOK(f) /\ FoundOK(f) /\ f.walk = current.walk  BY <1>2, <1>4, TakenOK
  <2>2. Continue(f) \/ frames' = <<g, f>>  BY <1>4 DEF RecordComparison, Take
  <2>3. CASE Continue(f)
    <3> HIDE DEF f
    <3> QED BY <1>1, <2>1, <2>3, Moved
  <2>4. CASE frames' = <<g, f>>
    <3>1. ~Hidden(compared.context, compared.column)
      BY <1>1, <1>2, <1>4, TailAll DEF FoundOK, Usage
    <3> HIDE DEF compared, f
    <3>2. 1 \in DOMAIN frames /\ frames[1].walk.listener = "comparisons"
      <4>1. \A a : Len(<<a>>) = 1  OBVIOUS
      <4>2. frames # <<frames[1]>>  BY <1>1, <4>1
      <4>3. frames = <<frames[1], frames[2]>> /\ frames[1].walk.listener = "comparisons"
        BY <1>1, <4>2 DEF IInv, Stack
      <4>4. \A a, b : 1 \in DOMAIN <<a, b>>  OBVIOUS
      <4> QED BY <4>3, <4>4, Zenon
    <3>3. FrameOK(frames[1]) /\ FoundOK(frames[1])  BY <3>2 DEF IInv
    <3>4. FrameOK(g) /\ g.walk = frames[1].walk /\ g.found = Append(frames[1].found, compared)
      BY <3>3, Collects
    <3>5. FoundOK(g)  BY <3>1, <3>2, <3>3, <3>4, AppendAll DEF FoundOK
    <3> HIDE DEF g
    <3>6. Stack'  BY <1>1, <2>1, <2>4, <3>2, <3>4 DEF Stack
    <3>7. (\A i \in DOMAIN frames : FrameOK(frames[i]) /\ FoundOK(frames[i]))'
      BY <1>1, <2>1, <2>4, <3>4, <3>5, TreeStays
    <3>8. InnerSelectsIgnored'  BY <1>1, TreeStays DEF IInv, InnerSelectsIgnored
    <3> QED BY <1>1, <3>6, <3>7, <3>8, TreeStays DEF IInv
  <2> QED BY <2>2, <2>3, <2>4
<1> QED BY <1>3, <1>4

-------------------------------------------------------------------------------
LEMMA Start == Init => IInv
<1> SUFFICES ASSUME Init PROVE IInv  OBVIOUS
<1>1. Tree
  <2>1. PICK input \in Inputs :
          \E n \in 1..input.maxNodes : \E last \in [1..n -> 1..n], label \in [1..n -> input.labels] :
            clause = [kind |-> input.kind, last |-> last, label |-> label]
    BY DEF Init
  <2>2. PICK n \in 1..input.maxNodes : \E last \in [1..n -> 1..n], label \in [1..n -> input.labels] :
          clause = [kind |-> input.kind, last |-> last, label |-> label]
    BY <2>1
  <2>3. n \in Nat /\ clause.last \in [1..n -> 1..n]  BY <2>2, InputsAssumption
  <2> QED BY <2>3 DEF Tree
<1>2. frames = << >> /\ usages = << >>  BY DEF Init
<1>3. << >> \in Seq({})  OBVIOUS
<1> QED BY <1>1, <1>2, <1>3 DEF IInv, Stack, IsSeq, InnerSelectsIgnored

LEMMA Inductive == IInv /\ [Next]_vars => IInv'
<1> SUFFICES ASSUME IInv, [Next]_vars PROVE IInv'  OBVIOUS
<1>1. CASE BeginWalk  BY <1>1, BeginWalkStep
<1>2. CASE Enter
  <2>1. PICK m \in Nodes :
          \/ EnterColumnref(m) \/ EnterSelect_with_parens(m) \/ EnterOver_clause(m)
          \/ EnterPredicate(m) \/ EnterOther(m)
    BY <1>2 DEF Enter
  <2> QED BY <2>1, EnterColumnrefStep, EnterSelectStep, EnterOverStep, EnterPredicateStep, EnterOtherStep
<1>3. ASSUME NEW m \in Nodes, Exit(m) PROVE IInv'  BY <1>3, ExitStep
<1>4. CASE RecordUsage  BY <1>4, RecordUsageStep
<1>5. CASE RecordComparison  BY <1>5, RecordComparisonStep
<1>6. CASE RecordComparisons  BY <1>6, RecordComparisonsStep
<1>7. CASE RecordSubqueries  BY <1>7, RecordSubqueriesStep
<1>8. CASE RecordWindows  BY <1>8, RecordWindowsStep
<1>9. CASE UNCHANGED vars
  <2>1. UNCHANGED <<clause, frames, usages>>  BY <1>9 DEF vars
  <2>2. Stack'  BY <2>1 DEF IInv, Stack
  <2>3. (\A i \in DOMAIN frames : FrameOK(frames[i]) /\ FoundOK(frames[i]))'
    BY <2>1, TreeStays DEF IInv
  <2>4. InnerSelectsIgnored'  BY <2>1, TreeStays DEF IInv, InnerSelectsIgnored
  <2> QED BY <2>1, <2>2, <2>3, <2>4, TreeStays DEF IInv
<1> QED BY <1>1, <1>2, <1>3, <1>4, <1>5, <1>6, <1>7, <1>8, <1>9 DEF Next

(* The counter of every listener is the number of open SELECTs            *)
(* (helpers.go:30-49, 64-82), in clauses of any size and depth.           *)
THEOREM DepthIsExact == Spec => []DepthCountsSubqueries
<1>1. IInv => DepthCountsSubqueries
  BY DEF IInv, FrameOK, DepthCountsSubqueries, Selects
<1> QED BY <1>1, Start, Inductive, PTL DEF Spec

(* No column inside of an inner SELECT is recorded for the expression     *)
(* around it (helpers.go:37, 88-127, helpers_comparison.go:383-446), in   *)
(* clauses of any size and depth.                                         *)
THEOREM ScopesSeparate == Spec => []InnerSelectsIgnored
<1>1. IInv => InnerSelectsIgnored  BY DEF IInv
<1> QED BY <1>1, Start, Inductive, PTL DEF Spec

-------------------------------------------------------------------------------
(* Where the walks are, in which order they come, and what they have       *)
(* recorded.                                                               *)

Listed == {"target_list", "where_clause", "having_clause"}
Conditions == {"where_clause", "having_clause"}

WellFormed ==
  /\ clause.kind \in ClauseKinds
  /\ \A m \in Nodes : Rule(m) \in RulesIn(clause.kind)
  /\ \A m \in Nodes : Rule(m) = "a_expr_qual_op" => 1 \in DOMAIN Words(m) /\ ~Negated(Words(m))
  /\ IsClause(clause.kind, clause.last, clause.label)
  /\ 1 \in Nodes

IsTop(m) == m \in Nodes /\ Above(clause.last, m) = {}

(* The walks that the functions of a clause make. *)
ListWalk(w) ==
  clause.kind \in DOMAIN RoleOfClause /\ \E p : IsTop(p) /\ w = WalkOf("columns", p, RoleOfClause[clause.kind])

PartWalk(w) ==
  clause.kind = "target_list" /\ \E p \in Nodes : Rule(p) \in WindowParts /\ w = WalkOf("columns", p, RoleOf(p))

SubqueryWalk(w) == clause.kind \in Listed /\ \E p : IsTop(p) /\ w = WalkOf("subqueries", p, "none")

OverWalk(w) == clause.kind = "target_list" /\ w = Walk("windows", 1, Len(clause.last), "none")

ComparisonWalk(w) == clause.kind \in Conditions /\ w = WalkOf("comparisons", 1, "filter")

IsWalk(w) == ListWalk(w) \/ PartWalk(w) \/ SubqueryWalk(w) \/ OverWalk(w) \/ ComparisonWalk(w)

(* The walk from inside of the callback of a predicate. *)
IsInner(w) ==
  clause.kind \in Conditions /\ \E p \in Nodes :
    /\ Rule(p) \in Predicates /\ OperatorOf(Rule(p), Words(p)) # << >>
    /\ ~Hidden(1, p)
    /\ w = WalkOf("columns", p, "filter")

(* The walker stays below the node at which it began. *)
Placed(f) ==
  /\ f.next \in f.walk.first..f.walk.last + 1
  /\ f.open \subseteq f.walk.first..f.next - 1

Walks ==
  /\ IsSeq(todo)
  /\ \A i \in DOMAIN todo : IsWalk(todo[i])
  /\ \A i \in DOMAIN frames : Placed(frames[i])
  /\ frames # << >> => IsWalk(frames[1].walk)
  /\ Len(frames) = 2 => IsInner(frames[2].walk) /\ frames[2].walk.first < frames[1].next

RuleFor == [columns |-> "columnref", subqueries |-> "select_with_parens", windows |-> "over_clause"]

(* A node that the listener of a walk collects. *)
Gathers(w, m) ==
  /\ w.listener \in DOMAIN RuleFor /\ Rule(m) = RuleFor[w.listener]
  /\ Counts(w.listener) => ~Hidden(w.first, m)

ToCollect(w, next) == {m \in w.first..next - 1 : m \in Nodes /\ Gathers(w, m)}

Collected ==
  /\ frames # << >> /\ frames[1].walk.listener \in DOMAIN RuleFor =>
       Enumerates(frames[1].found, ToCollect(frames[1].walk, frames[1].next))
  /\ Len(frames) = 2 => frames[2].found \in Seq(ToCollect(frames[2].walk, frames[2].next))

(* The walks that are not over, those of the callbacks apart. *)
Outer == IF frames = << >> THEN {} ELSE {frames[1].walk}
Ahead == {todo[i] : i \in DOMAIN todo} \cup Outer

WindowRoles == {"window_partition", "window_order"}

(* Two walks with the same listener and role are over nodes apart, but those over windows in windows. *)
Before(w, v) ==
  w.listener = v.listener /\ w.role = v.role =>
    IF w.role \in WindowRoles THEN w.first # v.first ELSE w.last < v.first

Ordered ==
  /\ \A i, j \in DOMAIN todo : i < j => Before(todo[i], todo[j])
  /\ \A w \in Outer : \A i \in DOMAIN todo : Before(w, todo[i])
  /\ \A w \in Outer : w.listener = "windows" => todo = << >>
  /\ \A i \in DOMAIN todo : todo[i].listener = "windows" => i = Len(todo)
  /\ \A w, v \in Ahead : w.listener = "windows" => v.role \notin WindowRoles

(* The nodes outside of inner SELECTs that no walk has yet to come to. *)
Settled(listener, role, ahead) ==
  {m \in Nodes :
     /\ Rule(m) = RuleFor[listener] /\ ~Hidden(1, m)
     /\ \A w \in ahead : w.listener = listener /\ w.role = role => m \notin w.first..w.last}

(* These stand before those that some walk has yet to come to. *)
SettledFirst(listener, role, ahead) ==
  \A w \in ahead : w.listener = listener /\ w.role = role =>
    \A m \in Settled(listener, role, ahead) : m < w.first

SubqueriesGot(subs, ahead) ==
  clause.kind \in Listed =>
    /\ Enumerates(subs, Settled("subqueries", "none", ahead))
    /\ SettledFirst("subqueries", "none", ahead)

PlacesOf(got, role) == {i \in DOMAIN got : got[i].role = role}

(* The columns recorded for a role are these, in their order. *)
ColumnsAre(got, role, S) ==
  /\ {got[i].column : i \in PlacesOf(got, role)} = S
  /\ \A i, j \in PlacesOf(got, role) : i < j => got[i].column < got[j].column

ColumnsGot(got, ahead) ==
  clause.kind \in DOMAIN RoleOfClause =>
    LET role == RoleOfClause[clause.kind] IN
    /\ ColumnsAre(got, role, Settled("columns", role, ahead))
    /\ SettledFirst("columns", role, ahead)

PlacesIn(got, part) == {i \in DOMAIN got : got[i].context = part /\ got[i].role = RoleOf(part)}

(* The columns of a window part, without a gap and in their order. *)
RunOf(got, part, b, s) ==
  /\ Enumerates(s, ColumnsOf(part))
  /\ PlacesIn(got, part) = b + 1..b + Len(s)
  /\ b + Len(s) <= Len(got)
  /\ \A k \in 1..Len(s) : got[b + k].column = s[k]

WindowsGot(got, ahead) ==
  \A part \in {m \in Nodes : Rule(m) \in WindowParts} :
    IF (\E w \in ahead : w.listener = "windows") \/ WalkOf("columns", part, RoleOf(part)) \in ahead
      THEN PlacesIn(got, part) = {}
      ELSE \E b \in Nat, s \in Seq(ColumnsOf(part)) : RunOf(got, part, b, s)

IsCompared(p, c) ==
  /\ p \in Nodes /\ c \in Nodes
  /\ Rule(p) \in Predicates /\ OperatorOf(Rule(p), Words(p)) # << >>
  /\ Rule(c) = "columnref" /\ c \in Below(p) /\ ~Hidden(1, c)

Comparison(p, c) == Usage(c, "filter", p, OperatorOf(Rule(p), Words(p)))

IsComparison(u) == \E p, c \in Nodes : IsCompared(p, c) /\ u = Comparison(p, c)

HasKey(us, u) == \E i \in DOMAIN us : ComparisonKey(us[i]) = ComparisonKey(u)

Comparing == frames # << >> /\ frames[1].walk.listener = "comparisons"

(* How far a comparison has come: not yet seen, found or, its predicate entered, about to be. *)
Pursued(fs, p, c) ==
  \/ p >= fs[1].next
  \/ HasKey(fs[1].found, Comparison(p, c))
  \/ /\ Len(fs) = 2 /\ fs[2].walk.first = p
     /\ c >= fs[2].next \/ \E i \in DOMAIN fs[2].found : fs[2].found[i] = c

Known(p, c) ==
  \/ \E i \in DOMAIN todo : todo[i].listener = "comparisons"
  \/ HasKey(usages, Comparison(p, c))
  \/ Comparing /\ Pursued(frames, p, c)

ComparisonsGot ==
  clause.kind \in Conditions =>
    /\ \A i \in DOMAIN usages : IsComparison(usages[i])
    /\ \A i, j \in DOMAIN usages : ComparisonKey(usages[i]) = ComparisonKey(usages[j]) => i = j
    /\ Comparing => \A i \in DOMAIN frames[1].found : IsComparison(frames[1].found[i])
    /\ \A p, c \in Nodes : IsCompared(p, c) => Known(p, c)

NothingElse == clause.kind \notin Conditions => \A i \in DOMAIN usages : usages[i].role # "filter"

JInv ==
  /\ WellFormed /\ Walks /\ Collected /\ Ordered
  /\ SubqueriesGot(subqueries, Ahead) /\ ColumnsGot(usages, Ahead) /\ WindowsGot(usages, Ahead)
  /\ ComparisonsGot /\ NothingElse

(* Nodes, what is below them and what is around them. *)
LEMMA Numbered ==
  ASSUME Tree
  PROVE  /\ Len(clause.last) \in Nat /\ Nodes = 1..Len(clause.last)
         /\ \A m \in Nodes : m \in Nat /\ m >= 1 /\ clause.last[m] \in Nodes /\ m <= Len(clause.last)
<1>1. PICK n \in Nat : clause.last \in [1..n -> 1..n]
  BY DEF Tree
<1>2. Nodes = 1..n /\ clause.last \in Seq(1..n)
  BY <1>1 DEF Nodes
<1>3. Len(clause.last) = n
  BY <1>1, <1>2
<1> QED BY <1>1, <1>2, <1>3

LEMMA BelowNode ==
  ASSUME Tree, WellFormed, NEW m \in Nodes
  PROVE  /\ m <= clause.last[m] /\ m \in Below(m)
         /\ Below(m) \subseteq Nodes
         /\ \A k \in Below(m) : m <= k /\ k <= clause.last[m] /\ clause.last[k] <= clause.last[m]
<1>1. clause.last[m] \in Nodes /\ Nodes = 1..Len(clause.last) /\ Len(clause.last) \in Nat
  BY Numbered
<1>2. clause.last[m] >= m /\ \A k \in m..clause.last[m] : clause.last[k] <= clause.last[m]
  BY DEF WellFormed, IsClause, Nodes
<1> QED BY <1>1, <1>2 DEF Below

(* A node in an inner SELECT is in one inside of the node it is below, or that node is. *)
LEMMA HiddenBelow ==
  ASSUME Tree, WellFormed, NEW p \in Nodes, NEW c \in Below(p)
  PROVE  Hidden(1, c) <=> Hidden(p, c) \/ Hidden(1, p)
<1>1. Nodes = 1..Len(clause.last) /\ Len(clause.last) \in Nat /\ c \in Nodes /\ p <= c /\ c <= clause.last[p]
  BY Numbered, BelowNode
<1>2. \A k \in Nodes : clause.last[k] \in Nodes
  BY Numbered
<1>3. ASSUME Hidden(1, c) PROVE Hidden(p, c) \/ Hidden(1, p)
  <2>1. PICK k \in 1..c - 1 : Rule(k) = "select_with_parens" /\ clause.last[k] >= c
    BY <1>3 DEF Hidden
  <2>2. k \in Nodes /\ clause.last[k] \in Nat /\ k \in Nat
    BY <1>1, <1>2
  <2>3. CASE k >= p
    <3>1. k \in p..c - 1
      BY <1>1, <2>3
    <3> QED BY <2>1, <3>1 DEF Hidden
  <2>4. CASE k < p
    <3>1. k \in 1..p - 1 /\ clause.last[k] >= p
      BY <1>1, <2>1, <2>2, <2>4
    <3> QED BY <2>1, <3>1 DEF Hidden
  <2> QED BY <1>1, <2>2, <2>3, <2>4
<1>4. ASSUME Hidden(p, c) PROVE Hidden(1, c)
  <2>1. p..c - 1 \subseteq 1..c - 1
    BY <1>1
  <2> QED BY <1>4, <2>1 DEF Hidden
<1>5. ASSUME Hidden(1, p) PROVE Hidden(1, c)
  <2>1. PICK k \in 1..p - 1 : Rule(k) = "select_with_parens" /\ clause.last[k] >= p
    BY <1>5 DEF Hidden
  <2>2. k \in Nodes /\ clause.last[k] \in Nodes /\ k \in 1..c - 1
    BY <1>1, <1>2
  <2>3. p \in Below(k)
    BY <1>1, <2>1, <2>2 DEF Below
  <2>4. clause.last[p] <= clause.last[k]
    BY <2>2, <2>3, BelowNode
  <2>5. clause.last[k] >= c
    BY <1>1, <1>2, <2>2, <2>4
  <2> QED BY <2>1, <2>2, <2>5 DEF Hidden
<1> QED BY <1>3, <1>4, <1>5

LEMMA TopNode ==
  ASSUME Tree, WellFormed, NEW p, IsTop(p)
  PROVE  p \in Nodes /\ ~Hidden(1, p) /\ \A c \in Below(p) : Hidden(1, c) <=> Hidden(p, c)
<1>1. p \in Nodes
  BY DEF IsTop
<1>2. ~Hidden(1, p)
  BY DEF IsTop, Hidden, Above
<1> QED BY <1>1, <1>2, HiddenBelow

(* Every node is below one of the expressions of the clause. *)
LEMMA UnderTop ==
  ASSUME Tree, WellFormed, NEW m \in Nodes
  PROVE  \E p \in Nodes : IsTop(p) /\ m \in Below(p)
<1>1. Nodes = 1..Len(clause.last) /\ Len(clause.last) \in Nat
  BY Numbered
<1>2. \A k \in Nodes : clause.last[k] \in Nodes
  BY Numbered
<1> DEFINE S == {k \in Nodes : m \in Below(k)}
<1>3. S \in SUBSET (1..Len(clause.last)) /\ S # {}
  BY <1>1, BelowNode
<1> DEFINE p == Min(S)
<1>4. p \in S /\ \A k \in S : p <= k
  BY <1>1, <1>3, MinOfIndices
<1> HIDE DEF p
<1>5. p \in Nodes /\ m \in Below(p)
  BY <1>4
<1>6. \A k \in Above(clause.last, p) : FALSE
  <2> SUFFICES ASSUME NEW k \in 1..p - 1, clause.last[k] >= p PROVE FALSE
    BY DEF Above
  <2>1. k \in Nodes /\ clause.last[k] \in Nodes
    BY <1>1, <1>2, <1>5
  <2>2. p \in Below(k)
    BY <1>1, <1>5, <2>1 DEF Below
  <2>3. clause.last[p] <= clause.last[k]
    BY <2>1, <2>2, BelowNode
  <2>4. m \in Below(k)
    <3>1. p <= m /\ m <= clause.last[p] /\ clause.last[p] \in Nodes
      BY <1>2, <1>5, BelowNode
    <3> QED BY <1>1, <1>5, <2>1, <2>3, <3>1 DEF Below
  <2>5. p <= k
    BY <1>4, <2>1, <2>4
  <2> QED BY <1>1, <1>5, <2>1, <2>5
<1> QED BY <1>5, <1>6 DEF IsTop

(* Two expressions of the clause are apart. *)
LEMMA TopsApart ==
  ASSUME Tree, WellFormed, NEW p, IsTop(p), NEW q, IsTop(q), p < q
  PROVE  clause.last[p] < q
<1>1. p \in Nodes /\ q \in Nodes /\ clause.last[p] \in Nodes /\ Nodes = 1..Len(clause.last) /\ Len(clause.last) \in Nat
  BY Numbered DEF IsTop
<1>2. p \in 1..q - 1 /\ p \notin Above(clause.last, q)
  BY <1>1 DEF IsTop
<1> QED BY <1>1, <1>2 DEF Above

(* What is said of nodes, walks and comparisons is judged by the tree alone. *)
LEMMA WalksStay ==
  ASSUME UNCHANGED clause
  PROVE  /\ Nodes' = Nodes /\ (WellFormed' <=> WellFormed)
         /\ \A m : Rule(m)' = Rule(m) /\ Words(m)' = Words(m) /\ RoleOf(m)' = RoleOf(m)
         /\ \A w : IsWalk(w)' <=> IsWalk(w)
         /\ \A w : IsInner(w)' <=> IsInner(w)
         /\ \A w, n : ToCollect(w, n)' = ToCollect(w, n)
         /\ \A p : ColumnsOf(p)' = ColumnsOf(p)
         /\ \A l, m, r : WalkOf(l, m, r)' = WalkOf(l, m, r)
<1>1. /\ Nodes' = Nodes /\ \A m : Rule(m)' = Rule(m) /\ Words(m)' = Words(m) /\ RoleOf(m)' = RoleOf(m)
      /\ \A l, m, r : WalkOf(l, m, r)' = WalkOf(l, m, r)
      /\ \A m, n : Hidden(m, n)' <=> Hidden(m, n)
      /\ \A m : Below(m)' = Below(m) /\ (IsTop(m)' <=> IsTop(m))
  BY DEF Nodes, Rule, Words, RoleOf, WalkOf, Hidden, Below, IsTop
<1>2. WellFormed' <=> WellFormed
  BY <1>1 DEF WellFormed, Negated
<1>3. \A w : IsWalk(w)' <=> IsWalk(w)
  <2>1. \A w : /\ ListWalk(w)' <=> ListWalk(w)
               /\ PartWalk(w)' <=> PartWalk(w)
               /\ SubqueryWalk(w)' <=> SubqueryWalk(w)
               /\ OverWalk(w)' <=> OverWalk(w)
               /\ ComparisonWalk(w)' <=> ComparisonWalk(w)
    BY <1>1 DEF ListWalk, PartWalk, SubqueryWalk, OverWalk, ComparisonWalk
  <2> QED BY <2>1 DEF IsWalk
<1>4. \A w : IsInner(w)' <=> IsInner(w)
  BY <1>1 DEF IsInner
<1>5. \A w, n : ToCollect(w, n)' = ToCollect(w, n)
  BY <1>1 DEF ToCollect, Gathers, Counts
<1>6. \A p : ColumnsOf(p)' = ColumnsOf(p)
  BY <1>1 DEF ColumnsOf
<1> QED BY <1>1, <1>2, <1>3, <1>4, <1>5, <1>6

LEMMA RecordsStay ==
  ASSUME UNCHANGED clause
  PROVE  /\ \A l, r, a : Settled(l, r, a)' = Settled(l, r, a)
         /\ \A s, a : SubqueriesGot(s, a)' <=> SubqueriesGot(s, a)
         /\ \A g, a : ColumnsGot(g, a)' <=> ColumnsGot(g, a)
         /\ \A g, a : WindowsGot(g, a)' <=> WindowsGot(g, a)
<1>1. /\ Nodes' = Nodes /\ \A m : Rule(m)' = Rule(m) /\ RoleOf(m)' = RoleOf(m)
      /\ \A p : ColumnsOf(p)' = ColumnsOf(p)
      /\ \A l, m, r : WalkOf(l, m, r)' = WalkOf(l, m, r)
      /\ \A m, n : Hidden(m, n)' <=> Hidden(m, n)
  BY WalksStay, TreeStays
<1>2. \A l, r, a : Settled(l, r, a)' = Settled(l, r, a)
  BY <1>1 DEF Settled
<1>3. \A l, r, a : SettledFirst(l, r, a)' <=> SettledFirst(l, r, a)
  BY <1>2 DEF SettledFirst
<1>4. \A s, a : SubqueriesGot(s, a)' <=> SubqueriesGot(s, a)
  BY <1>2, <1>3 DEF SubqueriesGot
<1>5. \A g, a : ColumnsGot(g, a)' <=> ColumnsGot(g, a)
  BY <1>2, <1>3 DEF ColumnsGot, ColumnsAre, PlacesOf
<1>6. \A g, p : PlacesIn(g, p)' = PlacesIn(g, p)
  BY <1>1 DEF PlacesIn
<1>7. \A g, p, b, s : RunOf(g, p, b, s)' <=> RunOf(g, p, b, s)
  BY <1>1, <1>6 DEF RunOf
<1>8. \A g, a : WindowsGot(g, a)' <=> WindowsGot(g, a)
  BY <1>1, <1>6, <1>7 DEF WindowsGot
<1> QED BY <1>2, <1>4, <1>5, <1>8

LEMMA ComparisonsStay ==
  ASSUME UNCHANGED clause
  PROVE  /\ \A p, c : IsCompared(p, c)' <=> IsCompared(p, c)
         /\ \A p, c : Comparison(p, c)' = Comparison(p, c)
         /\ \A u : IsComparison(u)' <=> IsComparison(u)
         /\ \A u : ComparisonKey(u)' = ComparisonKey(u)
         /\ \A us, u : HasKey(us, u)' <=> HasKey(us, u)
<1>1. /\ Nodes' = Nodes /\ \A m : Rule(m)' = Rule(m) /\ Words(m)' = Words(m)
      /\ \A m, n : Hidden(m, n)' <=> Hidden(m, n)
      /\ \A m : Below(m)' = Below(m) /\ Text(m)' = Text(m)
  BY WalksStay, TreeStays DEF Below, Text
<1>2. /\ \A p, c : IsCompared(p, c)' <=> IsCompared(p, c)
      /\ \A p, c : Comparison(p, c)' = Comparison(p, c)
  BY <1>1 DEF IsCompared, Comparison
<1>3. \A u : IsComparison(u)' <=> IsComparison(u)
  BY <1>1, <1>2 DEF IsComparison
<1>4. \A u : ComparisonKey(u)' = ComparisonKey(u)
  BY <1>1 DEF ComparisonKey
<1>5. \A us, u : HasKey(us, u)' <=> HasKey(us, u)
  BY <1>4 DEF HasKey
<1> QED BY <1>2, <1>3, <1>4, <1>5

(* What a walk is. *)
LEMMA WalkFields ==
  /\ \A l, m, r : WalkOf(l, m, r).listener = l /\ WalkOf(l, m, r).first = m
                /\ WalkOf(l, m, r).last = clause.last[m] /\ WalkOf(l, m, r).role = r
  /\ \A l, m, n, r : Walk(l, m, n, r).listener = l /\ Walk(l, m, n, r).first = m
                   /\ Walk(l, m, n, r).last = n /\ Walk(l, m, n, r).role = r
BY DEF WalkOf, Walk

LEMMA WalkKinds ==
  ASSUME WellFormed, NEW w
  PROVE  /\ ListWalk(w) =>
              /\ w.listener = "columns" /\ clause.kind \in {"target_list", "group_clause", "order_clause"}
              /\ w.role = RoleOfClause[clause.kind] /\ w.role \in {"projection", "group", "order"}
              /\ IsTop(w.first) /\ w.last = clause.last[w.first]
         /\ PartWalk(w) =>
              /\ w.listener = "columns" /\ clause.kind = "target_list" /\ w.role \in WindowRoles
              /\ w.first \in Nodes /\ Rule(w.first) \in WindowParts /\ w.role = RoleOf(w.first)
              /\ w = WalkOf("columns", w.first, RoleOf(w.first)) /\ w.last = clause.last[w.first]
         /\ SubqueryWalk(w) =>
              /\ w.listener = "subqueries" /\ w.role = "none" /\ clause.kind \in Listed
              /\ IsTop(w.first) /\ w.last = clause.last[w.first]
         /\ OverWalk(w) =>
              /\ w.listener = "windows" /\ w.role = "none" /\ clause.kind = "target_list"
              /\ w.first = 1 /\ w.last = Len(clause.last)
         /\ ComparisonWalk(w) =>
              /\ w.listener = "comparisons" /\ w.role = "filter" /\ clause.kind \in Conditions
              /\ w.first = 1 /\ w.last = clause.last[1]
         /\ IsInner(w) =>
              /\ w.listener = "columns" /\ w.role = "filter" /\ clause.kind \in Conditions
              /\ w.first \in Nodes /\ w.last = clause.last[w.first]
              /\ Rule(w.first) \in Predicates /\ OperatorOf(Rule(w.first), Words(w.first)) # << >>
              /\ ~Hidden(1, w.first)
<1>1. ASSUME ListWalk(w)
      PROVE  /\ w.listener = "columns" /\ clause.kind \in {"target_list", "group_clause", "order_clause"}
             /\ w.role = RoleOfClause[clause.kind] /\ w.role \in {"projection", "group", "order"}
             /\ IsTop(w.first) /\ w.last = clause.last[w.first]
  <2>1. PICK p : IsTop(p) /\ w = WalkOf("columns", p, RoleOfClause[clause.kind])
    BY <1>1 DEF ListWalk
  <2>2. clause.kind \in {"target_list", "group_clause", "order_clause"}
        /\ RoleOfClause[clause.kind] \in {"projection", "group", "order"}
    BY <1>1 DEF ListWalk, RoleOfClause
  <2> QED BY <2>1, <2>2, WalkFields
<1>2. ASSUME PartWalk(w)
      PROVE  /\ w.listener = "columns" /\ clause.kind = "target_list" /\ w.role \in WindowRoles
             /\ w.first \in Nodes /\ Rule(w.first) \in WindowParts /\ w.role = RoleOf(w.first)
             /\ w = WalkOf("columns", w.first, RoleOf(w.first)) /\ w.last = clause.last[w.first]
  <2>1. PICK p \in Nodes : Rule(p) \in WindowParts /\ w = WalkOf("columns", p, RoleOf(p))
    BY <1>2 DEF PartWalk
  <2>2. RoleOf(p) \in WindowRoles
    BY DEF RoleOf, WindowRoles
  <2>3. w.listener = "columns" /\ w.first = p /\ w.last = clause.last[p] /\ w.role = RoleOf(p)
    BY <2>1, WalkFields
  <2> QED BY <1>2, <2>1, <2>2, <2>3 DEF PartWalk
<1>3. ASSUME SubqueryWalk(w)
      PROVE  /\ w.listener = "subqueries" /\ w.role = "none" /\ clause.kind \in Listed
             /\ IsTop(w.first) /\ w.last = clause.last[w.first]
  BY <1>3, WalkFields DEF SubqueryWalk
<1>4. ASSUME OverWalk(w)
      PROVE  /\ w.listener = "windows" /\ w.role = "none" /\ clause.kind = "target_list"
             /\ w.first = 1 /\ w.last = Len(clause.last)
  BY <1>4, WalkFields DEF OverWalk
<1>5. ASSUME ComparisonWalk(w)
      PROVE  /\ w.listener = "comparisons" /\ w.role = "filter" /\ clause.kind \in Conditions
             /\ w.first = 1 /\ w.last = clause.last[1]
  BY <1>5, WalkFields DEF ComparisonWalk
<1>6. ASSUME IsInner(w)
      PROVE  /\ w.listener = "columns" /\ w.role = "filter" /\ clause.kind \in Conditions
             /\ w.first \in Nodes /\ w.last = clause.last[w.first]
             /\ Rule(w.first) \in Predicates /\ OperatorOf(Rule(w.first), Words(w.first)) # << >>
             /\ ~Hidden(1, w.first)
  BY <1>6, WalkFields DEF IsInner
<1> QED BY <1>1, <1>2, <1>3, <1>4, <1>5, <1>6

(* The nodes a walk is over. *)
LEMMA WalkNodes ==
  ASSUME Tree, WellFormed, NEW w, IsWalk(w) \/ IsInner(w)
  PROVE  /\ w.first \in Nodes /\ w.last \in Nodes /\ w.first <= w.last
         /\ w.first..w.last \subseteq Nodes
         /\ w.listener # "windows" => w.last = clause.last[w.first]
<1>1. Nodes = 1..Len(clause.last) /\ Len(clause.last) \in Nat /\ 1 \in Nodes
  BY Numbered DEF WellFormed
<1>2. w.first \in Nodes /\ (w.last = clause.last[w.first] \/ (w.first = 1 /\ w.last = Len(clause.last)))
      /\ (w.listener # "windows" => w.last = clause.last[w.first])
  BY <1>1, WalkKinds DEF IsWalk, IsTop
<1>3. clause.last[w.first] \in Nodes /\ w.first <= clause.last[w.first]
  BY <1>2, Numbered, BelowNode
<1> QED BY <1>1, <1>2, <1>3

LEMMA PartOfWindow ==
  ASSUME Tree, WellFormed, NEW m \in Nodes, Rule(m) \in WindowParts
  PROVE  /\ Parent(clause.last, m) \in Nodes /\ Rule(Parent(clause.last, m)) = "over_clause"
         /\ m \in PartsOf(Parent(clause.last, m))
         /\ clause.kind = "target_list"
<1>1. Nodes = 1..Len(clause.last) /\ Len(clause.last) \in Nat /\ m \in Nat
  BY Numbered
<1>2. Parent(clause.last, m) # 0 /\ Rule(Parent(clause.last, m)) = "over_clause"
  BY DEF WellFormed, IsClause, Rule, Nodes
<1>3. Above(clause.last, m) \in SUBSET (1..m - 1) /\ m - 1 \in Nat
  BY <1>1 DEF Above
<1>4. Above(clause.last, m) # {} /\ Parent(clause.last, m) = Max(Above(clause.last, m))
  BY <1>2 DEF Parent
<1>5. Parent(clause.last, m) \in 1..m - 1
  BY <1>3, <1>4, MaxOfIndices
<1>6. clause.kind = "target_list"
  <2>1. clause.kind \in ClauseKinds /\ Rule(m) \in RulesIn(clause.kind)
    BY DEF WellFormed
  <2> QED BY <2>1 DEF RulesIn, ClauseKinds, WindowParts, Predicates
<1> QED BY <1>1, <1>2, <1>5, <1>6 DEF PartsOf

(* The listener has counted nothing just where no SELECT of the walk is around the node. *)
LEMMA DepthZero ==
  ASSUME Tree, NEW f, FrameOK(f), Placed(f), NEW m \in Nodes, m = f.next, \A k \in f.open : m <= clause.last[k],
         Counts(f.walk.listener)
  PROVE  f.subqueryDepth = 0 <=> ~Hidden(f.walk.first, m)
<1>1. ASSUME f.subqueryDepth # 0 PROVE Hidden(f.walk.first, m)
  <2>1. f.subqueryDepth = Cardinality(Selects(f))
    BY DEF FrameOK
  <2>2. Selects(f) # {}
    BY <1>1, <2>1, FS_EmptySet
  <2>3. PICK k \in f.open : Rule(k) = "select_with_parens"
    BY <2>2 DEF Selects
  <2>4. k \in f.walk.first..m - 1
    BY DEF Placed
  <2>5. m \in Nat /\ clause.last[k] >= m
    <3>1. m \in Nat /\ m <= clause.last[k]
      BY Numbered
    <3> QED BY <3>1
  <2> QED BY <2>3, <2>4, <2>5 DEF Hidden
<1> QED BY <1>1, OutsideAtDepthZero

(* One node on. *)
Steps(f, g, m) ==
  /\ m \in Nodes /\ m = f.next /\ m <= f.walk.last
  /\ IsFrame(g) /\ g.walk = f.walk /\ g.next = m + 1 /\ g.open = f.open \cup {m}
  /\ g.found = IF Gathers(f.walk, m) THEN Append(f.found, m) ELSE f.found

LEMMA EnteredFields ==
  ASSUME NEW f, IsFrame(f), NEW m
  PROVE  /\ IsFrame(Entered(f, m)) /\ Entered(f, m).walk = f.walk /\ Entered(f, m).found = f.found
         /\ Entered(f, m).next = m + 1 /\ Entered(f, m).open = f.open \cup {m}
         /\ Entered(f, m).subqueryDepth = f.subqueryDepth
<1> DEFINE g == [f EXCEPT !.open = @ \cup {m}]
<1>1. IsFrame(g) /\ g.found = f.found /\ g.walk = f.walk /\ g.subqueryDepth = f.subqueryDepth
      /\ g.open = f.open \cup {m}
  BY DEF IsFrame
<1>2. Entered(f, m) = [g EXCEPT !.next = m + 1]
  BY DEF Entered
<1> HIDE DEF g
<1> QED BY <1>1, <1>2 DEF IsFrame

LEMMA FoundFields ==
  ASSUME NEW f, IsFrame(f), NEW s
  PROVE  /\ IsFrame([f EXCEPT !.found = s]) /\ [f EXCEPT !.found = s].walk = f.walk
         /\ [f EXCEPT !.found = s].found = s /\ [f EXCEPT !.found = s].next = f.next
         /\ [f EXCEPT !.found = s].open = f.open
BY DEF IsFrame

LEMMA CountFields ==
  ASSUME NEW f, IsFrame(f)
  PROVE  /\ IsFrame(Deeper(f)) /\ Deeper(f).walk = f.walk /\ Deeper(f).found = f.found
         /\ Deeper(f).next = f.next /\ Deeper(f).open = f.open
         /\ IsFrame(LessDeep(f)) /\ LessDeep(f).walk = f.walk /\ LessDeep(f).found = f.found
         /\ LessDeep(f).next = f.next /\ LessDeep(f).open = f.open
<1>1. /\ IsFrame(Deeper(f)) /\ Deeper(f).walk = f.walk /\ Deeper(f).found = f.found
      /\ Deeper(f).next = f.next /\ Deeper(f).open = f.open
  BY DEF IsFrame, Deeper
<1>2. /\ IsFrame(LessDeep(f)) /\ LessDeep(f).walk = f.walk /\ LessDeep(f).found = f.found
      /\ LessDeep(f).next = f.next /\ LessDeep(f).open = f.open
  BY DEF IsFrame, LessDeep
<1> QED BY <1>1, <1>2

(* The frame of the current walk. *)
LEMMA CurrentPlaced ==
  ASSUME IInv, Walks, frames # << >>
  PROVE  /\ Len(frames) \in DOMAIN frames
         /\ FrameOK(current) /\ FoundOK(current) /\ IsFrame(current) /\ Placed(current)
         /\ (IsWalk(current.walk) \/ IsInner(current.walk))
         /\ \/ frames = <<current>> /\ Len(frames) = 1 /\ IsWalk(current.walk)
            \/ /\ frames = <<frames[1], current>> /\ Len(frames) = 2 /\ IsInner(current.walk)
               /\ IsWalk(frames[1].walk) /\ frames[1].walk.listener = "comparisons"
               /\ FrameOK(frames[1]) /\ FoundOK(frames[1]) /\ Placed(frames[1])
<1>1. /\ Len(frames) \in DOMAIN frames
      /\ FrameOK(current) /\ FoundOK(current) /\ IsFrame(current)
  BY CurrentOK
<1>2. Placed(current)
  BY <1>1 DEF Walks, current
<1>3. CASE frames = <<frames[1]>>
  <2>1. Len(frames) = 1
    <3>1. \A a : Len(<<a>>) = 1
      OBVIOUS
    <3> QED BY <1>3, <3>1
  <2>2. current = frames[1]
    BY <2>1 DEF current
  <2> QED BY <1>1, <1>2, <1>3, <2>1, <2>2 DEF Walks
<1>4. CASE frames = <<frames[1], frames[2]>> /\ frames[1].walk.listener = "comparisons"
  <2>1. Len(frames) = 2 /\ DOMAIN frames = 1..2
    <3>1. \A a, b : Len(<<a, b>>) = 2 /\ DOMAIN <<a, b>> = 1..2
      OBVIOUS
    <3> QED BY <1>4, <3>1
  <2>2. current = frames[2]
    BY <2>1 DEF current
  <2>3. FrameOK(frames[1]) /\ FoundOK(frames[1]) /\ Placed(frames[1])
    BY <2>1, 1 \in 1..2 DEF IInv, Walks
  <2> QED BY <1>1, <1>2, <1>4, <2>1, <2>2, <2>3 DEF Walks
<1> QED BY <1>3, <1>4 DEF IInv, Stack

LEMMA EnterColumnrefSteps ==
  ASSUME IInv, Walks, NEW m \in Nodes, EnterColumnref(m)
  PROVE  \E g : Continue(g) /\ Steps(current, g, m)
<1>1. /\ frames # << >> /\ m = current.next /\ m <= current.walk.last /\ Rule(m) = "columnref"
      /\ \A k \in current.open : m <= clause.last[k]
  BY DEF EnterColumnref, Arrives
<1>2. FrameOK(current) /\ IsFrame(current) /\ Placed(current)
  BY <1>1, CurrentPlaced
<1> DEFINE e == Entered(current, m)
           g == IF current.walk.listener = "columns" /\ current.subqueryDepth = 0
                  THEN [e EXCEPT !.found = Append(@, m)] ELSE e
<1>3. /\ IsFrame(e) /\ e.walk = current.walk /\ e.found = current.found
      /\ e.next = m + 1 /\ e.open = current.open \cup {m}
  BY <1>2, EnteredFields
<1>4. Continue(g)
  BY DEF EnterColumnref
<1> HIDE DEF e
<1>5. current.walk.listener = "columns" => (current.subqueryDepth = 0 <=> ~Hidden(current.walk.first, m))
  BY <1>1, <1>2, DepthZero DEF Counts, IInv
<1>6. Gathers(current.walk, m) <=> current.walk.listener = "columns" /\ current.subqueryDepth = 0
  BY <1>1, <1>5 DEF Gathers, RuleFor, Counts
<1>7. Steps(current, g, m)
  <2>1. IsFrame(g) /\ g.walk = e.walk /\ g.next = e.next /\ g.open = e.open
        /\ g.found = IF Gathers(current.walk, m) THEN Append(e.found, m) ELSE e.found
    <3>1. CASE Gathers(current.walk, m)
      <4>1. g = [e EXCEPT !.found = Append(@, m)]
        BY <1>6, <3>1
      <4> HIDE DEF g
      <4>2. PICK x : x = e
        OBVIOUS
      <4>3. IsFrame(x) /\ g = [x EXCEPT !.found = Append(@, m)]
        BY <1>3, <4>1, <4>2
      <4>4. IsFrame(g) /\ g.walk = x.walk /\ g.next = x.next /\ g.open = x.open
            /\ g.found = Append(x.found, m)
        BY <4>3 DEF IsFrame
      <4> QED BY <3>1, <4>2, <4>4
    <3>2. CASE ~Gathers(current.walk, m)
      <4>1. g = e
        BY <1>6, <3>2
      <4> HIDE DEF g
      <4> QED BY <1>3, <3>2, <4>1
    <3> QED BY <3>1, <3>2
  <2> HIDE DEF g
  <2> QED BY <1>1, <1>3, <2>1 DEF Steps
<1> QED BY <1>4, <1>7

LEMMA EnterSelectSteps ==
  ASSUME IInv, Walks, NEW m \in Nodes, EnterSelect_with_parens(m)
  PROVE  \E g : Continue(g) /\ Steps(current, g, m)
<1>1. /\ frames # << >> /\ m = current.next /\ m <= current.walk.last /\ Rule(m) = "select_with_parens"
      /\ \A k \in current.open : m <= clause.last[k]
  BY DEF EnterSelect_with_parens, Arrives
<1>2. FrameOK(current) /\ IsFrame(current) /\ Placed(current)
  BY <1>1, CurrentPlaced
<1> DEFINE e == Entered(current, m)
           h == IF current.walk.listener = "subqueries" /\ current.subqueryDepth = 0
                  THEN [e EXCEPT !.found = Append(@, m)] ELSE e
           g == Deeper(h)
<1>3. /\ IsFrame(e) /\ e.walk = current.walk /\ e.found = current.found
      /\ e.next = m + 1 /\ e.open = current.open \cup {m}
  BY <1>2, EnteredFields
<1>4. Continue(g)
  BY DEF EnterSelect_with_parens
<1> HIDE DEF e
<1>5. current.walk.listener = "subqueries" => (current.subqueryDepth = 0 <=> ~Hidden(current.walk.first, m))
  BY <1>1, <1>2, DepthZero DEF Counts, IInv
<1>6. Gathers(current.walk, m) <=> current.walk.listener = "subqueries" /\ current.subqueryDepth = 0
  BY <1>1, <1>5 DEF Gathers, RuleFor, Counts
<1>7. Steps(current, g, m)
  <2>1. IsFrame(h) /\ h.walk = e.walk /\ h.next = e.next /\ h.open = e.open
        /\ h.found = IF Gathers(current.walk, m) THEN Append(e.found, m) ELSE e.found
    <3>1. CASE Gathers(current.walk, m)
      <4>1. h = [e EXCEPT !.found = Append(@, m)]
        BY <1>6, <3>1
      <4> HIDE DEF h
      <4>2. PICK x : x = e
        OBVIOUS
      <4>3. IsFrame(x) /\ h = [x EXCEPT !.found = Append(@, m)]
        BY <1>3, <4>1, <4>2
      <4>4. IsFrame(h) /\ h.walk = x.walk /\ h.next = x.next /\ h.open = x.open
            /\ h.found = Append(x.found, m)
        BY <4>3 DEF IsFrame
      <4> QED BY <3>1, <4>2, <4>4
    <3>2. CASE ~Gathers(current.walk, m)
      <4>1. h = e
        BY <1>6, <3>2
      <4> HIDE DEF h
      <4> QED BY <1>3, <3>2, <4>1
    <3> QED BY <3>1, <3>2
  <2> HIDE DEF h
  <2>2. IsFrame(g) /\ g.walk = h.walk /\ g.next = h.next /\ g.open = h.open /\ g.found = h.found
    BY <2>1, CountFields
  <2> HIDE DEF g
  <2> QED BY <1>1, <1>3, <2>1, <2>2 DEF Steps
<1> QED BY <1>4, <1>7

LEMMA EnterOverSteps ==
  ASSUME IInv, Walks, NEW m \in Nodes, EnterOver_clause(m)
  PROVE  \E g : Continue(g) /\ Steps(current, g, m)
<1>1. /\ frames # << >> /\ m = current.next /\ m <= current.walk.last /\ Rule(m) = "over_clause"
  BY DEF EnterOver_clause, Arrives
<1>2. IsFrame(current)
  BY <1>1, CurrentPlaced
<1> DEFINE e == Entered(current, m)
           g == IF current.walk.listener = "windows" THEN [e EXCEPT !.found = Append(@, m)] ELSE e
<1>3. /\ IsFrame(e) /\ e.walk = current.walk /\ e.found = current.found
      /\ e.next = m + 1 /\ e.open = current.open \cup {m}
  BY <1>2, EnteredFields
<1>4. Continue(g)
  BY DEF EnterOver_clause
<1> HIDE DEF e
<1>5. Gathers(current.walk, m) <=> current.walk.listener = "windows"
  BY <1>1 DEF Gathers, RuleFor, Counts
<1>6. Steps(current, g, m)
  <2>1. IsFrame(g) /\ g.walk = e.walk /\ g.next = e.next /\ g.open = e.open
        /\ g.found = IF Gathers(current.walk, m) THEN Append(e.found, m) ELSE e.found
    <3>1. CASE Gathers(current.walk, m)
      <4>1. g = [e EXCEPT !.found = Append(@, m)]
        BY <1>5, <3>1
      <4> HIDE DEF g
      <4>2. PICK x : x = e
        OBVIOUS
      <4>3. IsFrame(x) /\ g = [x EXCEPT !.found = Append(@, m)]
        BY <1>3, <4>1, <4>2
      <4>4. IsFrame(g) /\ g.walk = x.walk /\ g.next = x.next /\ g.open = x.open
            /\ g.found = Append(x.found, m)
        BY <4>3 DEF IsFrame
      <4> QED BY <3>1, <4>2, <4>4
    <3>2. CASE ~Gathers(current.walk, m)
      <4>1. g = e
        BY <1>5, <3>2
      <4> HIDE DEF g
      <4> QED BY <1>3, <3>2, <4>1
    <3> QED BY <3>1, <3>2
  <2> HIDE DEF g
  <2> QED BY <1>1, <1>3, <2>1 DEF Steps
<1> QED BY <1>4, <1>6

LEMMA PlainSteps ==
  ASSUME IInv, Walks, NEW m \in Nodes, Arrives(m), Rule(m) \in Predicates \/ Rule(m) \in WindowParts
  PROVE  Steps(current, Entered(current, m), m)
<1>1. frames # << >> /\ m = current.next /\ m <= current.walk.last
  BY DEF Arrives
<1>2. IsFrame(current)
  BY <1>1, CurrentPlaced
<1>3. ~Gathers(current.walk, m)
  BY DEF Gathers, RuleFor, Predicates, WindowParts
<1> QED BY <1>1, <1>2, <1>3, EnteredFields DEF Steps

(* What EnterPredicate adds: a walk over the predicate. *)
Pushes(m) ==
  /\ frames = <<current>> /\ Len(frames) = 1 /\ Comparing
  /\ \E g : /\ Steps(current, g, m)
            /\ frames' = <<g, Frame(WalkOf("columns", m, "filter"))>>
  /\ IsInner(WalkOf("columns", m, "filter"))

LEMMA EnterSteps ==
  ASSUME IInv, WellFormed, Walks, NEW m \in Nodes,
         \/ EnterColumnref(m) \/ EnterSelect_with_parens(m) \/ EnterOver_clause(m)
         \/ EnterPredicate(m) \/ EnterOther(m)
  PROVE  /\ UNCHANGED <<clause, todo, usages, subqueries>>
         /\ frames # << >>
         /\ \/ \E g : /\ Continue(g) /\ Steps(current, g, m)
                      /\ Comparing /\ current = frames[1] /\ Len(frames) = 1 => \A c : ~IsCompared(m, c)
            \/ Pushes(m)
<1>1. UNCHANGED <<clause, todo, usages, subqueries>> /\ frames # << >> /\ Arrives(m)
  BY DEF EnterColumnref, EnterSelect_with_parens, EnterOver_clause, EnterPredicate, EnterOther, Arrives
<1>2. ASSUME Rule(m) \notin Predicates PROVE \A c : ~IsCompared(m, c)
  BY <1>2 DEF IsCompared
<1>3. CASE EnterColumnref(m)
  BY <1>1, <1>2, <1>3, EnterColumnrefSteps DEF EnterColumnref, Predicates
<1>4. CASE EnterSelect_with_parens(m)
  BY <1>1, <1>2, <1>4, EnterSelectSteps DEF EnterSelect_with_parens, Predicates
<1>5. CASE EnterOver_clause(m)
  BY <1>1, <1>2, <1>5, EnterOverSteps DEF EnterOver_clause, Predicates
<1>6. CASE EnterOther(m)
  <2>1. Rule(m) \in WindowParts /\ Continue(Entered(current, m))
    BY <1>6 DEF EnterOther
  <2>2. Rule(m) \notin Predicates
    BY <2>1 DEF WindowParts, Predicates
  <2> QED BY <1>1, <1>2, <2>1, <2>2, PlainSteps
<1>7. CASE EnterPredicate(m)
  <2>1. Rule(m) \in Predicates
    BY <1>7 DEF EnterPredicate
  <2>2. Steps(current, Entered(current, m), m)
    BY <1>1, <2>1, PlainSteps
  <2>3. CASE Compares /\ OperatorOf(Rule(m), Words(m)) # << >>
    <3>1. current.walk.listener = "comparisons" /\ current.subqueryDepth = 0
      BY <2>3 DEF Compares
    <3>2. frames = <<current>> /\ Len(frames) = 1 /\ IsWalk(current.walk) /\ Placed(current) /\ FrameOK(current)
      <4>1. ~IsInner(current.walk)
        BY <3>1, WalkKinds
      <4> QED BY <1>1, <4>1, CurrentPlaced
    <3>3. current = frames[1] /\ Comparing
      BY <1>1, <3>1, <3>2 DEF current, Comparing
    <3>4. ComparisonWalk(current.walk)
      BY <3>1, <3>2, WalkKinds DEF IsWalk
    <3>5. clause.kind \in Conditions /\ current.walk.first = 1
      BY <3>4, WalkKinds
    <3>6. ~Hidden(1, m)
      BY <1>1, <3>1, <3>2, <3>5, DepthZero DEF Arrives, Counts, IInv
    <3>7. IsInner(WalkOf("columns", m, "filter"))
      BY <2>1, <2>3, <3>5, <3>6 DEF IsInner
    <3>8. frames' = <<Entered(current, m), Frame(WalkOf("columns", m, "filter"))>>
      BY <1>7, <2>3 DEF EnterPredicate
    <3> QED BY <1>1, <2>2, <3>2, <3>3, <3>7, <3>8 DEF Pushes
  <2>4. CASE ~(Compares /\ OperatorOf(Rule(m), Words(m)) # << >>)
    <3>1. Continue(Entered(current, m))
      BY <1>7, <2>4 DEF EnterPredicate
    <3>2. ASSUME Comparing, current = frames[1], Len(frames) = 1, NEW c, IsCompared(m, c) PROVE FALSE
      <4>1. current.walk.listener = "comparisons"
        BY <3>2 DEF Comparing
      <4>2. current.subqueryDepth # 0
        BY <2>4, <3>2, <4>1 DEF Compares, IsCompared
      <4>3. Placed(current) /\ FrameOK(current) /\ IsWalk(current.walk)
        BY <1>1, <3>2, CurrentPlaced
      <4>4. current.walk.first = 1
        BY <4>1, <4>3, WalkKinds DEF IsWalk
      <4>5. Hidden(1, m)
        BY <1>1, <4>1, <4>2, <4>3, <4>4, DepthZero DEF Arrives, Counts, IInv
      <4>6. c \in Below(m) /\ ~Hidden(1, c)
        BY <3>2 DEF IsCompared
      <4> QED BY <4>5, <4>6, HiddenBelow DEF IInv
    <3> QED BY <1>1, <2>2, <3>1, <3>2
  <2> QED BY <2>3, <2>4
<1> QED BY <1>3, <1>4, <1>5, <1>6, <1>7

(* Leaving a node. *)
LEMMA ExitSteps ==
  ASSUME IInv, Walks, NEW m \in Nodes, Exit(m)
  PROVE  /\ UNCHANGED <<clause, todo, usages, subqueries>>
         /\ frames # << >>
         /\ \E g : /\ Continue(g) /\ IsFrame(g) /\ g.walk = current.walk /\ g.next = current.next
                   /\ g.open \subseteq current.open /\ g.found = current.found
<1>1. frames # << >> /\ UNCHANGED <<clause, todo, usages, subqueries>>
  BY DEF Exit
<1>2. IsFrame(current)
  BY <1>1, CurrentPlaced
<1> DEFINE l == [current EXCEPT !.open = @ \ {m}]
           g == IF Rule(m) = "select_with_parens" THEN LessDeep(l) ELSE l
<1>3. IsFrame(l) /\ l.walk = current.walk /\ l.next = current.next /\ l.found = current.found
      /\ l.open \subseteq current.open
  BY <1>2 DEF IsFrame
<1>4. Continue(g)
  BY DEF Exit
<1> HIDE DEF l
<1>5. IsFrame(g) /\ g.walk = l.walk /\ g.next = l.next /\ g.open = l.open /\ g.found = l.found
  BY <1>3, CountFields
<1> HIDE DEF g
<1> QED BY <1>1, <1>3, <1>4, <1>5

(* One number more, greater than those listed. *)
LEMMA EnumeratesMore ==
  ASSUME NEW s, NEW S, Enumerates(s, S), NEW m \in Int, \A x \in S : x \in Int /\ x < m
  PROVE  Enumerates(Append(s, m), S \cup {m})
<1>1. s \in Seq(S \cup {m}) /\ Len(s) \in Nat /\ s \in [1..Len(s) -> S]
  BY DEF Enumerates
<1> DEFINE t == Append(s, m)
<1>2. t \in Seq(S \cup {m}) /\ DOMAIN t = 1..Len(s) + 1 /\ t[Len(s) + 1] = m
      /\ \A i \in 1..Len(s) : t[i] = s[i]
  BY <1>1
<1> HIDE DEF t
<1>3. ASSUME NEW i \in DOMAIN t, NEW j \in DOMAIN t, i < j PROVE t[i] < t[j]
  <2>1. i \in 1..Len(s) /\ (j \in 1..Len(s) \/ j = Len(s) + 1)
    BY <1>1, <1>2, <1>3
  <2>2. CASE j \in 1..Len(s)
    BY <1>1, <1>2, <1>3, <2>1, <2>2 DEF Enumerates
  <2>3. CASE j = Len(s) + 1
    <3>1. s[i] \in S
      BY <1>1, <2>1
    <3> QED BY <1>2, <2>1, <2>3, <3>1
  <2> QED BY <2>1, <2>2, <2>3
<1>4. ASSUME NEW x \in S \cup {m} PROVE \E i \in DOMAIN t : t[i] = x
  <2>1. CASE x = m
    BY <1>1, <1>2, <2>1
  <2>2. CASE x \in S
    <3>1. PICK i \in 1..Len(s) : s[i] = x
      BY <1>1, <2>2 DEF Enumerates
    <3> QED BY <1>1, <1>2, <3>1
  <2> QED BY <2>1, <2>2
<1>5. Enumerates(t, S \cup {m})
  BY <1>2, <1>3, <1>4 DEF Enumerates
<1> QED BY <1>5 DEF t

LEMMA StepCollects ==
  ASSUME Tree, NEW f, Placed(f), NEW g, NEW m, Steps(f, g, m), f.walk.first \in Nat, f.walk.last \in Nat
  PROVE  /\ Placed(g)
         /\ Enumerates(f.found, ToCollect(f.walk, f.next)) => Enumerates(g.found, ToCollect(g.walk, g.next))
         /\ f.found \in Seq(ToCollect(f.walk, f.next)) => g.found \in Seq(ToCollect(g.walk, g.next))
<1>1. /\ m \in Nodes /\ m = f.next /\ m <= f.walk.last /\ g.walk = f.walk /\ g.next = m + 1
      /\ g.open = f.open \cup {m} /\ g.found = IF Gathers(f.walk, m) THEN Append(f.found, m) ELSE f.found
  BY DEF Steps
<1>2. m \in Nat /\ f.walk.first <= m /\ f.open \subseteq f.walk.first..m - 1
  BY <1>1, Numbered DEF Placed
<1> DEFINE w == f.walk
           T == ToCollect(w, m)
           U == ToCollect(w, m + 1)
<1>3. Placed(g)
  <2>1. m + 1 \in f.walk.first..f.walk.last + 1
    BY <1>1, <1>2 DEF Placed
  <2>2. f.open \cup {m} \subseteq f.walk.first..m
    BY <1>2
  <2> QED BY <1>1, <1>2, <2>1, <2>2 DEF Placed
<1>4. \A x \in T : x \in Int /\ x < m
  BY <1>2 DEF ToCollect
<1>5. CASE Gathers(w, m)
  <2>1. U = T \cup {m}
    BY <1>1, <1>2, <1>5 DEF ToCollect
  <2> HIDE DEF T, U
  <2>2. Enumerates(f.found, T) => Enumerates(Append(f.found, m), U)
    BY <1>2, <1>4, <2>1, EnumeratesMore
  <2>3. f.found \in Seq(T) => Append(f.found, m) \in Seq(U)
    <3> SUFFICES ASSUME f.found \in Seq(T) PROVE Append(f.found, m) \in Seq(U)
      OBVIOUS
    <3>1. f.found \in Seq(U) /\ m \in U
      BY <2>1
    <3> QED BY <3>1, AppendProperties
  <2> QED BY <1>1, <1>3, <1>5, <2>2, <2>3 DEF T, U
<1>6. CASE ~Gathers(w, m)
  <2>1. U = T
    BY <1>1, <1>2, <1>6 DEF ToCollect
  <2> HIDE DEF T, U
  <2>2. g.found = f.found
    BY <1>1, <1>6
  <2> QED BY <1>1, <1>3, <2>1, <2>2 DEF T, U
<1> QED BY <1>5, <1>6

-------------------------------------------------------------------------------
(* The current frame replaced. *)
LEMMA ContinueFrames ==
  ASSUME IInv, Walks, frames # << >>, NEW g, Continue(g)
  PROVE  \/ Len(frames) = 1 /\ frames = <<current>> /\ frames' = <<g>>
         \/ Len(frames) = 2 /\ frames = <<frames[1], current>> /\ frames' = <<frames[1], g>>
<1>1. \A a, b : [<<a>> EXCEPT ![1] = b] = <<b>>
  OBVIOUS
<1>2. \A a, b, c : [<<a, b>> EXCEPT ![2] = c] = <<a, c>>
  OBVIOUS
<1>3. frames' = [frames EXCEPT ![Len(frames)] = g]
  BY DEF Continue
<1>4. CASE frames = <<current>> /\ Len(frames) = 1
  <2>1. PICK a : a = current
    OBVIOUS
  <2> QED BY <1>1, <1>3, <1>4, <2>1
<1>5. CASE frames = <<frames[1], current>> /\ Len(frames) = 2
  <2>1. PICK a, b : a = frames[1] /\ b = current
    OBVIOUS
  <2>2. frames = <<a, b>> /\ Len(frames) = 2
    BY <1>5, <2>1
  <2> QED BY <1>2, <1>3, <1>5, <2>1, <2>2
<1> QED BY <1>4, <1>5, CurrentPlaced

LEMMA Tuples ==
  /\ \A a : Len(<<a>>) = 1 /\ DOMAIN <<a>> = {1} /\ <<a>>[1] = a /\ <<a>> # << >>
  /\ \A a, b : /\ Len(<<a, b>>) = 2 /\ DOMAIN <<a, b>> = {1, 2} /\ <<a, b>>[1] = a /\ <<a, b>>[2] = b
               /\ <<a, b>> # << >>
  /\ Len(<< >>) = 0 /\ DOMAIN << >> = {}
OBVIOUS

(* As long as the outer walk is the same, the order of the walks is. *)
LEMMA OuterStays ==
  ASSUME frames # << >>, frames' # << >>, frames'[1].walk = frames[1].walk, UNCHANGED todo
  PROVE  Outer' = Outer /\ Ahead' = Ahead /\ (Ordered => Ordered') /\ (Comparing' <=> Comparing)
<1>1. Outer' = Outer
  BY DEF Outer
<1>2. Ahead' = Ahead
  BY <1>1 DEF Ahead
<1>3. Comparing' <=> Comparing
  BY DEF Comparing
<1> QED BY <1>1, <1>2, <1>3 DEF Ordered

(* Where two frames are, the outer is no walk over a list. *)
LEMMA OneFrame ==
  ASSUME WellFormed, UNCHANGED <<clause, todo>>, Walks, NEW g, frames' = <<g>>, Placed(g), IsWalk(g.walk),
         g.walk.listener \in DOMAIN RuleFor => Enumerates(g.found, ToCollect(g.walk, g.next))
  PROVE  Walks' /\ Collected'
<1>1. frames' # << >> /\ frames'[1] = g /\ Len(frames') = 1 /\ DOMAIN frames' = {1}
  BY Tuples
<1>2. /\ \A f : Placed(f)' <=> Placed(f)
      /\ IsSeq(todo)' <=> IsSeq(todo)
  BY DEF Placed, IsSeq
<1>3. Walks'
  BY <1>1, <1>2, WalksStay DEF Walks
<1>4. Collected'
  BY <1>1, WalksStay DEF Collected
<1> QED BY <1>3, <1>4

LEMMA TwoFrames ==
  ASSUME WellFormed, UNCHANGED <<clause, todo>>, Walks, NEW f, NEW g, frames' = <<f, g>>, Placed(f), Placed(g),
         IsWalk(f.walk), f.walk.listener = "comparisons", IsInner(g.walk), g.walk.first < f.next,
         g.found \in Seq(ToCollect(g.walk, g.next))
  PROVE  Walks' /\ Collected'
<1>1. frames' # << >> /\ frames'[1] = f /\ frames'[2] = g /\ Len(frames') = 2 /\ DOMAIN frames' = {1, 2}
  BY Tuples
<1>2. /\ \A h : Placed(h)' <=> Placed(h)
      /\ IsSeq(todo)' <=> IsSeq(todo)
  BY DEF Placed, IsSeq
<1>3. Walks'
  BY <1>1, <1>2, WalksStay DEF Walks
<1>4. f.walk.listener \notin DOMAIN RuleFor
  BY DEF RuleFor
<1>5. Collected'
  BY <1>1, <1>4, WalksStay DEF Collected
<1> QED BY <1>3, <1>5

LEMMA NoFrames ==
  ASSUME UNCHANGED <<clause, todo>>, Walks, frames' = << >>
  PROVE  Walks' /\ Collected'
<1>1. Len(frames') = 0 /\ DOMAIN frames' = {}
  BY Tuples
<1>2. IsSeq(todo)' <=> IsSeq(todo)
  BY DEF IsSeq
<1>3. Walks'
  BY <1>1, <1>2, WalksStay DEF Walks
<1> QED BY <1>1, <1>3 DEF Collected

(* The current frame replaced by one of the same walk that has collected as much. *)
LEMMA ContinueKeeps ==
  ASSUME IInv, WellFormed, Walks, Ordered, frames # << >>, NEW g, Continue(g), g.walk = current.walk, Placed(g),
         UNCHANGED <<clause, todo>>,
         current.walk.listener \in DOMAIN RuleFor /\ Len(frames) = 1 =>
           Enumerates(g.found, ToCollect(g.walk, g.next)),
         Len(frames) = 2 => g.found \in Seq(ToCollect(g.walk, g.next))
  PROVE  /\ Walks' /\ Collected' /\ Ordered' /\ Ahead' = Ahead /\ (Comparing' <=> Comparing)
         /\ Len(frames') = Len(frames)
<1>1. CASE Len(frames) = 1 /\ frames = <<current>> /\ frames' = <<g>>
  <2>1. IsWalk(g.walk)
    BY <1>1, CurrentPlaced
  <2>2. Walks' /\ Collected'
    BY <1>1, <2>1, OneFrame
  <2>3. frames' # << >> /\ frames'[1].walk = frames[1].walk /\ Len(frames') = Len(frames)
    <3>1. frames'[1] = g /\ frames' # << >> /\ Len(frames') = 1
      BY <1>1, Tuples
    <3>2. frames[1] = current
      BY <1>1 DEF current
    <3> QED BY <1>1, <3>1, <3>2
  <2> QED BY <2>2, <2>3, OuterStays
<1>2. CASE Len(frames) = 2 /\ frames = <<frames[1], current>> /\ frames' = <<frames[1], g>>
  <2> DEFINE f == frames[1]
  <2>1. IsInner(g.walk) /\ IsWalk(f.walk) /\ f.walk.listener = "comparisons" /\ Placed(f)
    BY <1>2, CurrentPlaced
  <2>2. g.walk.first < f.next
    <3>1. frames[2] = current
      BY <1>2 DEF current
    <3> QED BY <1>2, <3>1 DEF Walks
  <2>3. frames' = <<f, g>>
    BY <1>2
  <2>4. frames' # << >> /\ frames'[1].walk = frames[1].walk /\ Len(frames') = Len(frames)
    BY <1>2, <2>3, Tuples
  <2>5. g.found \in Seq(ToCollect(g.walk, g.next))
    BY <1>2
  <2> HIDE DEF f
  <2>6. Walks' /\ Collected'
    BY <2>1, <2>2, <2>3, <2>5, TwoFrames
  <2> QED BY <2>4, <2>6, OuterStays
<1> QED BY <1>1, <1>2, ContinueFrames

(* What the current frame has collected. *)
LEMMA CurrentCollected ==
  ASSUME IInv, WellFormed, Walks, Collected, frames # << >>
  PROVE  /\ current.walk.listener \in DOMAIN RuleFor /\ Len(frames) = 1 =>
              Enumerates(current.found, ToCollect(current.walk, current.next))
         /\ Len(frames) = 2 => current.found \in Seq(ToCollect(current.walk, current.next))
         /\ current.walk.first \in Nat /\ current.walk.last \in Nat /\ current.next \in Nat
<1>1. current.walk.first \in Nat /\ current.walk.last \in Nat
  BY CurrentPlaced, WalkNodes, Numbered DEF IInv
<1>2. current.next \in Nat
  BY <1>1, CurrentPlaced DEF Placed
<1> QED BY <1>1, <1>2 DEF Collected, current

LEMMA EnterKeeps ==
  ASSUME IInv, WellFormed, Walks, Collected, Ordered, NEW m \in Nodes,
         \/ EnterColumnref(m) \/ EnterSelect_with_parens(m) \/ EnterOver_clause(m)
         \/ EnterPredicate(m) \/ EnterOther(m)
  PROVE  Walks' /\ Collected' /\ Ordered' /\ Ahead' = Ahead
<1>1. UNCHANGED <<clause, todo, usages, subqueries>> /\ frames # << >>
  BY EnterSteps
<1>2. /\ current.walk.first \in Nat /\ current.walk.last \in Nat /\ Placed(current)
      /\ current.walk.listener \in DOMAIN RuleFor /\ Len(frames) = 1 =>
           Enumerates(current.found, ToCollect(current.walk, current.next))
      /\ Len(frames) = 2 => current.found \in Seq(ToCollect(current.walk, current.next))
  BY <1>1, CurrentPlaced, CurrentCollected
<1>3. ASSUME NEW g, Continue(g), Steps(current, g, m) PROVE Walks' /\ Collected' /\ Ordered' /\ Ahead' = Ahead
  <2>1. /\ Placed(g) /\ g.walk = current.walk
        /\ Enumerates(current.found, ToCollect(current.walk, current.next)) =>
             Enumerates(g.found, ToCollect(g.walk, g.next))
        /\ current.found \in Seq(ToCollect(current.walk, current.next)) =>
             g.found \in Seq(ToCollect(g.walk, g.next))
    BY <1>2, <1>3, StepCollects DEF IInv, Steps
  <2> QED BY <1>1, <1>2, <1>3, <2>1, ContinueKeeps
<1>4. CASE Pushes(m)
  <2>1. PICK g : Steps(current, g, m) /\ frames' = <<g, Frame(WalkOf("columns", m, "filter"))>>
    BY <1>4 DEF Pushes
  <2> DEFINE f == Frame(WalkOf("columns", m, "filter"))
  <2>2. /\ f.walk = WalkOf("columns", m, "filter") /\ f.next = m /\ f.open = {} /\ f.found = << >>
        /\ f.walk.first = m /\ f.walk.last = clause.last[m]
    BY WalkFields DEF Frame
  <2>3. IsInner(f.walk)
    BY <1>4, <2>2 DEF Pushes
  <2> HIDE DEF f
  <2>4. Placed(f)
    <3>1. m \in Nat /\ clause.last[m] \in Nat /\ m <= clause.last[m]
      BY Numbered, BelowNode DEF IInv
    <3> QED BY <2>2, <3>1 DEF Placed
  <2>5. f.found \in Seq(ToCollect(f.walk, f.next))
    BY <2>2
  <2>6. Placed(g) /\ g.walk = current.walk /\ g.next = m + 1
    BY <1>2, <2>1, StepCollects DEF IInv, Steps
  <2>7. IsWalk(g.walk) /\ g.walk.listener = "comparisons" /\ frames[1] = current
    <3>1. frames = <<current>> /\ Comparing
      BY <1>4 DEF Pushes
    <3>2. frames[1] = current
      BY <3>1, Tuples
    <3> QED BY <1>1, <2>6, <3>1, <3>2 DEF Comparing, Walks
  <2>8. f.walk.first < g.next
    <3>1. m \in Nat
      BY Numbered DEF IInv
    <3> QED BY <2>2, <2>6, <3>1
  <2>9. frames' = <<g, f>>
    BY <2>1 DEF f
  <2>10. Walks' /\ Collected'
    BY <1>1, <2>3, <2>4, <2>5, <2>6, <2>7, <2>8, <2>9, TwoFrames
  <2>11. frames' # << >> /\ frames'[1].walk = frames[1].walk
    BY <2>6, <2>7, <2>9, Tuples
  <2> QED BY <1>1, <2>10, <2>11, OuterStays
<1> QED BY <1>3, <1>4, EnterSteps

LEMMA ExitKeeps ==
  ASSUME IInv, WellFormed, Walks, Collected, Ordered, NEW m \in Nodes, Exit(m)
  PROVE  Walks' /\ Collected' /\ Ordered' /\ Ahead' = Ahead
<1>1. UNCHANGED <<clause, todo, usages, subqueries>> /\ frames # << >>
  BY ExitSteps
<1>2. PICK g : /\ Continue(g) /\ IsFrame(g) /\ g.walk = current.walk /\ g.next = current.next
               /\ g.open \subseteq current.open /\ g.found = current.found
  BY ExitSteps
<1>3. Placed(g)
  BY <1>1, <1>2, CurrentPlaced DEF Placed
<1> QED BY <1>1, <1>2, <1>3, CurrentCollected, ContinueKeeps

(* A walk begun. *)
LEMMA BeginWalkKeeps ==
  ASSUME IInv, WellFormed, Walks, Ordered, BeginWalk
  PROVE  Walks' /\ Collected' /\ Ordered' /\ Ahead' = Ahead
<1> DEFINE w == Head(todo)
           f == Frame(w)
<1>1. frames = << >> /\ todo # << >> /\ frames' = <<f>> /\ todo' = Tail(todo) /\ UNCHANGED clause
  BY DEF BeginWalk
<1>2. PICK S : todo \in Seq(S)
  BY DEF Walks, IsSeq
<1>3. /\ Len(todo) \in Nat /\ 1 \in DOMAIN todo /\ w = todo[1] /\ DOMAIN todo = 1..Len(todo)
      /\ Tail(todo) \in Seq(S) /\ Len(Tail(todo)) = Len(todo) - 1 /\ DOMAIN Tail(todo) = 1..Len(todo) - 1
      /\ \A i \in DOMAIN Tail(todo) : i + 1 \in DOMAIN todo /\ Tail(todo)[i] = todo[i + 1]
  BY <1>1, <1>2
<1>4. f.walk = w /\ f.next = w.first /\ f.open = {} /\ f.found = << >>
  BY DEF Frame
<1>5. IsWalk(w)
  BY <1>3 DEF Walks
<1>6. w.first \in Nat /\ w.last \in Nat /\ w.first <= w.last
  BY <1>5, WalkNodes, Numbered DEF IInv
<1> HIDE DEF f, w
<1>7. Placed(f)
  BY <1>4, <1>6 DEF Placed
<1>8. frames' # << >> /\ frames'[1] = f /\ Len(frames') = 1 /\ DOMAIN frames' = {1}
  BY <1>1, Tuples
<1>9. Walks'
  <2>1. /\ \A h : Placed(h)' <=> Placed(h)
        /\ IsSeq(todo)'
    BY <1>1, <1>3 DEF Placed, IsSeq
  <2> QED BY <1>1, <1>3, <1>4, <1>5, <1>7, <1>8, <2>1, WalksStay DEF Walks
<1>10. Collected'
  <2>1. ToCollect(w, w.first) = {}
    BY <1>6 DEF ToCollect
  <2>2. Enumerates(<< >>, {})
    BY DEF Enumerates
  <2> QED BY <1>1, <1>4, <1>8, <2>1, <2>2, WalksStay DEF Collected
<1>11. Outer = {} /\ Outer' = {w}
  BY <1>1, <1>4, <1>8 DEF Outer
<1>12. Ahead' = Ahead
  <2>1. \A x : (\E i \in DOMAIN todo : x = todo[i]) <=> x = w \/ \E i \in DOMAIN todo' : x = todo'[i]
    <3>1. ASSUME NEW i \in DOMAIN todo, i # 1 PROVE i - 1 \in DOMAIN todo' /\ todo'[i - 1] = todo[i]
      BY <1>1, <1>3, <3>1
    <3> QED BY <1>1, <1>3, <3>1
  <2>2. Ahead = {todo[i] : i \in DOMAIN todo} \cup Outer /\ Ahead' = {todo'[i] : i \in DOMAIN todo'} \cup Outer'
    BY DEF Ahead
  <2> QED BY <1>11, <2>1, <2>2
<1>13. Ordered'
  <2>1. ASSUME NEW i \in DOMAIN todo', NEW j \in DOMAIN todo', i < j PROVE Before(todo'[i], todo'[j])
    <3>1. i + 1 \in DOMAIN todo /\ j + 1 \in DOMAIN todo /\ i + 1 < j + 1
      BY <1>1, <1>3, <2>1
    <3> QED BY <1>1, <1>3, <3>1 DEF Ordered
  <2>2. ASSUME NEW i \in DOMAIN todo' PROVE Before(w, todo'[i])
    <3>1. i + 1 \in DOMAIN todo /\ 1 < i + 1
      BY <1>1, <1>3
    <3> QED BY <1>1, <1>3, <3>1 DEF Ordered
  <2>3. w.listener = "windows" => todo' = << >>
    <3>1. w.listener = "windows" => 1 = Len(todo)
      BY <1>3 DEF Ordered
    <3>2. 1 = Len(todo) => Tail(todo) = << >>
      <4>1. PICK t : t = Tail(todo)
        OBVIOUS
      <4>2. t \in Seq(S) /\ Len(t) = Len(todo) - 1
        BY <1>3, <4>1
      <4>3. Len(t) = 0 => t = << >>
        BY <4>2
      <4> QED BY <1>3, <4>1, <4>2, <4>3
    <3> QED BY <1>1, <3>1, <3>2
  <2>4. ASSUME NEW i \in DOMAIN todo', todo'[i].listener = "windows" PROVE i = Len(todo')
    <3>1. i + 1 \in DOMAIN todo /\ todo[i + 1].listener = "windows"
      BY <1>1, <1>3, <2>4
    <3>2. i + 1 = Len(todo)
      BY <3>1 DEF Ordered
    <3> QED BY <1>1, <1>3, <3>2
  <2>5. (\A v, x \in Ahead : v.listener = "windows" => x.role \notin WindowRoles)'
    BY <1>12 DEF Ordered
  <2>6. \A x, y : Before(x, y)' <=> Before(x, y)
    BY DEF Before
  <2> QED BY <1>11, <2>1, <2>2, <2>3, <2>4, <2>5, <2>6 DEF Ordered
<1> QED BY <1>9, <1>10, <1>12, <1>13

(* What is left of the collected is of it. *)
LEMMA TailFrame ==
  ASSUME NEW f, IsFrame(f), Placed(f), f.found # << >>, NEW g, g = [f EXCEPT !.found = Tail(@)]
  PROVE  /\ Placed(g) /\ g.walk = f.walk /\ g.next = f.next /\ g.found = Tail(f.found)
         /\ \A S : f.found \in Seq(S) => g.found \in Seq(S)
<1>1. g.walk = f.walk /\ g.next = f.next /\ g.open = f.open /\ g.found = Tail(f.found)
  BY DEF IsFrame
<1>2. \A S : f.found \in Seq(S) => Tail(f.found) \in Seq(S)
  OBVIOUS
<1> QED BY <1>1, <1>2 DEF Placed

(* The cases of RecordComparison. *)
Over(frame) == frame.next = frame.walk.last + 1 /\ frame.open = {}

PredicateOf(frame) == frame.walk.first

Seen(frame, column) ==
  \E i \in DOMAIN frames[1].found :
    /\ frames[1].found[i].context = PredicateOf(frame)
    /\ Words(frames[1].found[i].column) = Words(column)

Compared(frame, column) ==
  Usage(column, "filter", PredicateOf(frame),
        OperatorOf(Rule(PredicateOf(frame)), Words(PredicateOf(frame))))

LEMMA RecordComparisonCases ==
  ASSUME IInv, WellFormed, Walks, RecordComparison
  PROVE  /\ UNCHANGED <<clause, todo, usages, subqueries>>
         /\ frames = <<frames[1], current>> /\ Len(frames) = 2 /\ IsInner(current.walk) /\ Over(current)
         /\ IsWalk(frames[1].walk) /\ Comparing
         /\ IsFrame(frames[1]) /\ Placed(frames[1])
         /\ \/ current.found = << >> /\ frames' = <<frames[1]>>
            \/ /\ current.found # << >> /\ Seen(current, Head(current.found))
               /\ \E g : g = [current EXCEPT !.found = Tail(@)] /\ Continue(g)
            \/ /\ current.found # << >>
               /\ \E f, g : /\ f = [frames[1] EXCEPT !.found = Append(@, Compared(current, Head(current.found)))]
                            /\ g = [current EXCEPT !.found = Tail(@)]
                            /\ frames' = <<f, g>>
<1>1. /\ UNCHANGED <<clause, todo, usages, subqueries>> /\ frames # << >> /\ Len(frames) = 2
      /\ current.next > current.walk.last /\ current.open = {}
  BY DEF RecordComparison, Ends
<1>2. /\ frames = <<frames[1], current>> /\ IsInner(current.walk)
      /\ IsWalk(frames[1].walk) /\ frames[1].walk.listener = "comparisons"
      /\ IsFrame(frames[1]) /\ Placed(frames[1]) /\ Placed(current)
  BY <1>1, CurrentPlaced DEF FrameOK
<1>3. Over(current)
  <2>1. current.walk.first \in Nat /\ current.walk.last \in Nat
    BY <1>2, WalkNodes, Numbered DEF IInv
  <2> QED BY <1>1, <1>2, <2>1 DEF Over, Placed
<1>4. Comparing
  BY <1>1, <1>2 DEF Comparing
<1>5. CASE current.found = << >>
  <2>1. frames' = Front(frames)
    BY <1>5 DEF RecordComparison
  <2>2. Front(frames) = <<frames[1]>>
    <3>1. PICK a, b : a = frames[1] /\ b = current
      OBVIOUS
    <3>2. frames = <<a, b>>
      BY <1>2, <3>1
    <3> QED BY <3>1, <3>2, Pairs
  <2> QED BY <1>1, <1>2, <1>3, <1>4, <1>5, <2>1, <2>2
<1>6. CASE current.found # << >> /\ Seen(current, Head(current.found))
  <2>1. Continue([current EXCEPT !.found = Tail(@)])
    BY <1>6 DEF RecordComparison, Seen, PredicateOf, Take
  <2> QED BY <1>1, <1>2, <1>3, <1>4, <1>6, <2>1
<1>7. CASE current.found # << >> /\ ~Seen(current, Head(current.found))
  <2>1. frames' = <<[frames[1] EXCEPT !.found = Append(@, Compared(current, Head(current.found)))],
                    [current EXCEPT !.found = Tail(@)]>>
    BY <1>7 DEF RecordComparison, Seen, PredicateOf, Compared
  <2> QED BY <1>1, <1>2, <1>3, <1>4, <1>7, <2>1
<1> QED BY <1>5, <1>6, <1>7

LEMMA RecordComparisonKeeps ==
  ASSUME IInv, WellFormed, Walks, Collected, Ordered, RecordComparison
  PROVE  Walks' /\ Collected' /\ Ordered' /\ Ahead' = Ahead
<1>1. /\ UNCHANGED <<clause, todo, usages, subqueries>> /\ Len(frames) = 2
      /\ frames = <<frames[1], current>> /\ IsInner(current.walk)
      /\ IsWalk(frames[1].walk) /\ Comparing /\ IsFrame(frames[1]) /\ Placed(frames[1])
  BY RecordComparisonCases
<1>2. frames # << >> /\ frames[1].walk.listener = "comparisons" /\ frames[2] = current
  BY <1>1 DEF Comparing, current
<1>3. IsFrame(current) /\ Placed(current) /\ current.found \in Seq(ToCollect(current.walk, current.next))
  BY <1>1, <1>2, CurrentPlaced, CurrentCollected
<1>4. CASE current.found = << >> /\ frames' = <<frames[1]>>
  <2>1. PICK f : f = frames[1]
    OBVIOUS
  <2>2. frames' = <<f>> /\ Placed(f) /\ IsWalk(f.walk) /\ f.walk.listener \notin DOMAIN RuleFor
    BY <1>1, <1>2, <1>4, <2>1 DEF RuleFor
  <2>3. Walks' /\ Collected'
    BY <1>1, <2>2, OneFrame
  <2>4. frames' # << >> /\ frames'[1].walk = frames[1].walk
    BY <2>1, <2>2, Tuples
  <2> QED BY <1>1, <1>2, <2>3, <2>4, OuterStays
<1>5. ASSUME current.found # << >>, NEW g, g = [current EXCEPT !.found = Tail(@)], Continue(g)
      PROVE  Walks' /\ Collected' /\ Ordered' /\ Ahead' = Ahead
  <2>1. Placed(g) /\ g.walk = current.walk /\ g.next = current.next
        /\ g.found \in Seq(ToCollect(g.walk, g.next))
    BY <1>3, <1>5, TailFrame
  <2>2. Continue(g) /\ Len(frames) # 1
    BY <1>1, <1>5
  <2> QED BY <1>1, <1>2, <2>1, <2>2, ContinueKeeps
<1>6. ASSUME current.found # << >>,
             NEW f, f = [frames[1] EXCEPT !.found = Append(@, Compared(current, Head(current.found)))],
             NEW g, g = [current EXCEPT !.found = Tail(@)], frames' = <<f, g>>
      PROVE  Walks' /\ Collected' /\ Ordered' /\ Ahead' = Ahead
  <2>1. Placed(g) /\ g.walk = current.walk /\ g.next = current.next
        /\ g.found \in Seq(ToCollect(g.walk, g.next))
    BY <1>3, <1>6, TailFrame
  <2>2. f.walk = frames[1].walk /\ f.next = frames[1].next /\ f.open = frames[1].open
    BY <1>1, <1>6 DEF IsFrame
  <2>3. Placed(f)
    BY <1>1, <2>2 DEF Placed
  <2>4. g.walk.first < f.next
    BY <1>1, <1>2, <2>1, <2>2 DEF Walks
  <2>5. Walks' /\ Collected'
    BY <1>1, <1>2, <1>6, <2>1, <2>2, <2>3, <2>4, TwoFrames
  <2>6. frames' # << >> /\ frames'[1].walk = frames[1].walk
    BY <1>6, <2>2, Tuples
  <2> QED BY <1>1, <1>2, <2>5, <2>6, OuterStays
<1> QED BY <1>4, <1>5, <1>6, RecordComparisonCases

(* The outer walk ends. *)
LEMMA EndsOuter ==
  ASSUME IInv, WellFormed, Walks, NEW listener, Ends(listener), listener # "columns" \/ Len(frames) = 1
  PROVE  /\ frames # << >> /\ Len(frames) = 1 /\ frames = <<current>> /\ current = frames[1]
         /\ IsWalk(current.walk) /\ current.walk.listener = listener /\ Over(current)
         /\ IsFrame(current) /\ Placed(current) /\ Front(frames) = << >>
<1>1. frames # << >> /\ current.walk.listener = listener /\ current.next > current.walk.last /\ current.open = {}
  BY DEF Ends
<1>2. ~(IsInner(current.walk) /\ Len(frames) = 2)
  <2>1. IsInner(current.walk) => current.walk.listener = "columns"
    BY WalkKinds
  <2> QED BY <1>1, <2>1
<1>3. frames = <<current>> /\ Len(frames) = 1 /\ IsWalk(current.walk) /\ IsFrame(current) /\ Placed(current)
  BY <1>1, <1>2, CurrentPlaced
<1>4. Over(current)
  <2>1. current.walk.first \in Nat /\ current.walk.last \in Nat
    BY <1>3, WalkNodes, Numbered DEF IInv
  <2> QED BY <1>1, <1>3, <2>1 DEF Over, Placed
<1>5. current = frames[1]
  BY <1>3 DEF current
<1>6. Front(frames) = << >>
  <2>1. PICK a : a = current
    OBVIOUS
  <2> QED BY <1>3, <2>1, Pairs
<1> QED BY <1>1, <1>3, <1>4, <1>5, <1>6

(* The walk that is over is ahead no more. *)
Finishes(w, a, b) == a = b \cup {w} /\ w \notin b /\ \A v \in b : Before(w, v) /\ IsWalk(v)

LEMMA OuterEnds ==
  ASSUME IInv, WellFormed, Walks, Ordered, Len(frames) = 1, frames # << >>, frames' = << >>, UNCHANGED <<clause, todo>>
  PROVE  /\ Walks' /\ Collected' /\ Ordered'
         /\ Finishes(frames[1].walk, Ahead, Ahead')
         /\ frames[1].walk.listener = "windows" => Ahead' = {}
<1> DEFINE w == frames[1].walk
<1>1. Outer = {w} /\ Outer' = {}
  BY DEF Outer
<1>2. Ahead = {todo[i] : i \in DOMAIN todo} \cup {w} /\ Ahead' = {todo[i] : i \in DOMAIN todo}
  BY <1>1 DEF Ahead
<1>3. IsWalk(w) /\ \A i \in DOMAIN todo : IsWalk(todo[i]) /\ Before(w, todo[i])
  BY <1>1 DEF Walks, Ordered
<1>4. ~Before(w, w)
  <2>1. w.first <= w.last /\ w.first \in Nat /\ w.last \in Nat
    BY <1>3, WalkNodes, Numbered DEF IInv
  <2> QED BY <2>1 DEF Before
<1>5. w.listener = "windows" => Ahead' = {}
  <2>1. w.listener = "windows" => todo = << >>
    BY <1>1 DEF Ordered
  <2> QED BY <1>2, <2>1, Tuples
<1>6. Walks' /\ Collected'
  BY NoFrames
<1>7. Ordered'
  <2>1. \A v, x \in Ahead' : v.listener = "windows" => x.role \notin WindowRoles
    BY <1>2 DEF Ordered
  <2>2. \A x, y : Before(x, y)' <=> Before(x, y)
    BY DEF Before
  <2>3. \A i, j \in DOMAIN todo : i < j => Before(todo[i], todo[j])
    BY DEF Ordered
  <2>4. \A i \in DOMAIN todo : todo[i].listener = "windows" => i = Len(todo)
    BY DEF Ordered
  <2> QED BY <1>1, <2>1, <2>2, <2>3, <2>4 DEF Ordered
<1>8. Finishes(w, Ahead, Ahead')
  BY <1>2, <1>3, <1>4 DEF Finishes
<1> QED BY <1>5, <1>6, <1>7, <1>8

LEMMA RecordComparisonsKeeps ==
  ASSUME IInv, WellFormed, Walks, Collected, Ordered, RecordComparisons, current.found # << >>
  PROVE  Walks' /\ Collected' /\ Ordered' /\ Ahead' = Ahead
<1>1. /\ frames # << >> /\ Len(frames) = 1 /\ current.walk.listener = "comparisons"
      /\ IsFrame(current) /\ Placed(current) /\ UNCHANGED <<clause, todo>>
  BY EndsOuter DEF RecordComparisons
<1> DEFINE g == [current EXCEPT !.found = Tail(@)]
<1>2. Continue(g)
  BY DEF RecordComparisons, Take
<1>3. Placed(g) /\ g.walk = current.walk
  BY <1>1, TailFrame
<1> HIDE DEF g
<1>4. current.walk.listener \notin DOMAIN RuleFor
  BY <1>1 DEF RuleFor
<1> QED BY <1>1, <1>2, <1>3, <1>4, ContinueKeeps

(* Two lists of numbers, those of the second greater. *)
LEMMA EnumeratesBoth ==
  ASSUME NEW s, NEW S \in SUBSET Int, Enumerates(s, S), NEW t, NEW T \in SUBSET Int, Enumerates(t, T),
         \A x \in S, y \in T : x < y
  PROVE  Enumerates(s \o t, S \cup T)
<1>1. s \in Seq(S \cup T) /\ t \in Seq(S \cup T) /\ s \in [1..Len(s) -> S] /\ t \in [1..Len(t) -> T]
      /\ DOMAIN s = 1..Len(s) /\ DOMAIN t = 1..Len(t)
  BY DEF Enumerates
<1> DEFINE u == s \o t
<1>2. PICK R : R = S \cup T
  OBVIOUS
<1>3. s \in Seq(R) /\ t \in Seq(R)
  BY <1>1, <1>2
<1>4. /\ u \in Seq(R) /\ Len(u) = Len(s) + Len(t) /\ Len(s) \in Nat /\ Len(t) \in Nat
      /\ \A p \in 1..Len(s) : p \in DOMAIN u /\ u[p] = s[p]
      /\ \A k \in 1..Len(t) : Len(s) + k \in DOMAIN u /\ u[Len(s) + k] = t[k]
      /\ \A p \in DOMAIN u : p \in 1..Len(s) \/ \E k \in 1..Len(t) : p = Len(s) + k
  BY <1>3, ConcatPlaces
<1> HIDE DEF u
<1>5. ASSUME NEW i \in DOMAIN u, NEW j \in DOMAIN u, i < j PROVE u[i] < u[j]
  <2>1. CASE i \in 1..Len(s) /\ j \in 1..Len(s)
    BY <1>1, <1>4, <1>5, <2>1 DEF Enumerates
  <2>2. ASSUME i \in 1..Len(s), NEW k \in 1..Len(t), j = Len(s) + k PROVE u[i] < u[j]
    BY <1>1, <1>4, <2>2
  <2>3. ASSUME NEW h \in 1..Len(t), i = Len(s) + h, NEW k \in 1..Len(t), j = Len(s) + k PROVE u[i] < u[j]
    <3>1. h < k
      BY <1>4, <1>5, <2>3
    <3>2. t[h] < t[k]
      BY <1>1, <2>3, <3>1 DEF Enumerates
    <3>3. u[i] = t[h] /\ u[j] = t[k]
      BY <1>4, <2>3
    <3> QED BY <3>2, <3>3
  <2>4. ASSUME NEW h \in 1..Len(t), i = Len(s) + h, j \in 1..Len(s) PROVE FALSE
    BY <1>4, <1>5, <2>4
  <2> QED BY <1>4, <2>1, <2>2, <2>3, <2>4
<1>6. ASSUME NEW x \in R PROVE \E i \in DOMAIN u : u[i] = x
  <2>1. CASE x \in S
    <3>1. PICK i \in 1..Len(s) : s[i] = x
      BY <1>1, <2>1 DEF Enumerates
    <3> QED BY <1>4, <3>1
  <2>2. CASE x \in T
    <3>1. PICK i \in 1..Len(t) : t[i] = x
      BY <1>1, <2>2 DEF Enumerates
    <3> QED BY <1>4, <3>1
  <2> QED BY <1>2, <2>1, <2>2
<1>7. Enumerates(u, R)
  BY <1>4, <1>5, <1>6 DEF Enumerates
<1> QED BY <1>2, <1>7 DEF u

-------------------------------------------------------------------------------
(* Which nodes are settled depends on the walks for them alone. *)
LEMMA SettledSame ==
  ASSUME NEW l, NEW r, NEW a, NEW b, \A w : w.listener = l /\ w.role = r => (w \in a <=> w \in b)
  PROVE  Settled(l, r, a) = Settled(l, r, b) /\ (SettledFirst(l, r, a) <=> SettledFirst(l, r, b))
<1>1. Settled(l, r, a) = Settled(l, r, b)
  BY DEF Settled
<1> QED BY <1>1 DEF SettledFirst

(* A walk over an expression settles what it has collected. *)
LEMMA SettledMore ==
  ASSUME Tree, WellFormed, NEW l \in {"columns", "subqueries"}, NEW r, r \notin WindowRoles,
         NEW w, w.listener = l, w.role = r, IsTop(w.first), w.last = clause.last[w.first],
         NEW a, NEW b, Finishes(w, a, b), SettledFirst(l, r, a)
  PROVE  /\ Settled(l, r, b) = Settled(l, r, a) \cup ToCollect(w, w.last + 1)
         /\ SettledFirst(l, r, b)
         /\ \A m \in Settled(l, r, a), n \in ToCollect(w, w.last + 1) : m < n
         /\ Settled(l, r, a) \in SUBSET Int /\ ToCollect(w, w.last + 1) \in SUBSET Int
<1> DEFINE T == ToCollect(w, w.last + 1)
           A == Settled(l, r, a)
           B == Settled(l, r, b)
<1>1. a = b \cup {w} /\ \A v \in b : Before(w, v) /\ IsWalk(v)
  BY DEF Finishes
<1>2. w.first \in Nodes /\ w.first \in Nat /\ w.last \in Nat /\ w.last \in Nodes
  BY TopNode, Numbered
<1>3. \A m \in Nodes : m \in Nat
  BY Numbered
<1>4. \A m \in Nodes : m \in w.first..w.last => (Hidden(1, m) <=> Hidden(w.first, m))
  BY <1>2, <1>3, TopNode DEF Below
<1>5. \A m : m \in T <=> m \in Nodes /\ m \in w.first..w.last /\ Rule(m) = RuleFor[l] /\ ~Hidden(1, m)
  <2>1. w.first..w.last + 1 - 1 = w.first..w.last
    BY <1>2
  <2>2. l \in DOMAIN RuleFor /\ Counts(l)
    BY DEF RuleFor, Counts
  <2>3. \A m : Gathers(w, m) <=> Rule(m) = RuleFor[l] /\ ~Hidden(w.first, m)
    BY <2>2 DEF Gathers
  <2>4. \A m : m \in T <=> m \in w.first..w.last /\ m \in Nodes /\ Gathers(w, m)
    BY <1>2, <2>1 DEF ToCollect
  <2> QED BY <1>4, <2>3, <2>4
<1>6. \A m : m \in A <=> /\ m \in Nodes /\ Rule(m) = RuleFor[l] /\ ~Hidden(1, m)
                         /\ \A v \in a : v.listener = l /\ v.role = r => m \notin v.first..v.last
  BY DEF Settled
<1>7. \A m : m \in B <=> /\ m \in Nodes /\ Rule(m) = RuleFor[l] /\ ~Hidden(1, m)
                         /\ \A v \in b : v.listener = l /\ v.role = r => m \notin v.first..v.last
  BY DEF Settled
<1>8. \A v \in b : v.listener = l /\ v.role = r => w.last < v.first /\ v.first \in Nat /\ v.last \in Nat
  <2> SUFFICES ASSUME NEW v \in b, v.listener = l, v.role = r
               PROVE  w.last < v.first /\ v.first \in Nat /\ v.last \in Nat
    OBVIOUS
  <2>1. v.first \in Nodes /\ v.last \in Nodes
    BY <1>1, WalkNodes
  <2> QED BY <1>1, <1>3, <2>1 DEF Before
<1>9. \A m \in A, v \in a : v.listener = l /\ v.role = r => m < v.first
  BY DEF SettledFirst
<1> HIDE DEF T, A, B
<1>10. B = A \cup T
  <2>1. ASSUME NEW m \in B PROVE m \in A \cup T
    BY <1>1, <1>5, <1>6, <1>7, <2>1
  <2>2. ASSUME NEW m \in A PROVE m \in B
    BY <1>1, <1>6, <1>7, <2>2
  <2>3. ASSUME NEW m \in T PROVE m \in B
    <3>1. m \in Nat /\ m <= w.last
      BY <1>2, <1>3, <1>5, <2>3
    <3>2. \A v \in b : v.listener = l /\ v.role = r => m \notin v.first..v.last
      BY <1>2, <1>8, <3>1
    <3> QED BY <1>5, <1>7, <2>3, <3>2
  <2> QED BY <2>1, <2>2, <2>3
<1>11. \A m \in B, v \in b : v.listener = l /\ v.role = r => m < v.first
  <2> SUFFICES ASSUME NEW m \in B, NEW v \in b, v.listener = l, v.role = r PROVE m < v.first
    OBVIOUS
  <2>1. CASE m \in A
    BY <1>1, <1>9, <2>1
  <2>2. CASE m \in T
    BY <1>2, <1>5, <1>8, <2>2
  <2> QED BY <1>10, <2>1, <2>2
<1>12. \A m \in A, n \in T : m < n
  <2> SUFFICES ASSUME NEW m \in A, NEW n \in T PROVE m < n
    OBVIOUS
  <2>1. m < w.first
    BY <1>1, <1>9
  <2>2. m \in Nat /\ n \in Nat /\ w.first <= n
    BY <1>2, <1>3, <1>5, <1>6
  <2> QED BY <1>2, <2>1, <2>2
<1>13. A \in SUBSET Int /\ T \in SUBSET Int
  BY <1>3, <1>5, <1>6
<1> QED BY <1>10, <1>11, <1>12, <1>13 DEF A, B, T, SettledFirst

-------------------------------------------------------------------------------
(* What the outer walk has collected when it is over. *)
LEMMA CollectedAll ==
  ASSUME IInv, WellFormed, Walks, Collected, frames # << >>, Len(frames) = 1, current = frames[1], Over(current),
         current.walk.listener \in DOMAIN RuleFor
  PROVE  Enumerates(current.found, ToCollect(current.walk, current.walk.last + 1))
BY DEF Collected, Over

(* What the other walks of a clause leave as it is. *)
LEMMA OtherSubqueries ==
  ASSUME NEW s, NEW a, NEW b, \A w : w.listener = "subqueries" => (w \in a <=> w \in b), SubqueriesGot(s, a)
  PROVE  SubqueriesGot(s, b)
BY SettledSame DEF SubqueriesGot

LEMMA RecordSubqueriesGot ==
  ASSUME IInv, WellFormed, Walks, Collected, Ordered, SubqueriesGot(subqueries, Ahead), RecordSubqueries
  PROVE  SubqueriesGot(subqueries', Ahead')
<1> DEFINE w == current.walk
           T == ToCollect(w, w.last + 1)
           A == Settled("subqueries", "none", Ahead)
<1>1. /\ frames # << >> /\ Len(frames) = 1 /\ current = frames[1] /\ Over(current)
      /\ IsWalk(w) /\ w.listener = "subqueries" /\ Front(frames) = << >>
  BY EndsOuter DEF RecordSubqueries
<1>2. frames' = << >> /\ subqueries' = subqueries \o current.found /\ UNCHANGED <<clause, todo>>
  BY <1>1 DEF RecordSubqueries
<1>3. Finishes(w, Ahead, Ahead')
  BY <1>1, <1>2, OuterEnds
<1>4. w.role = "none" /\ clause.kind \in Listed /\ IsTop(w.first) /\ w.last = clause.last[w.first]
  BY <1>1, WalkKinds DEF IsWalk
<1>5. Enumerates(current.found, T)
  BY <1>1, CollectedAll DEF RuleFor
<1>6. Enumerates(subqueries, A) /\ SettledFirst("subqueries", "none", Ahead)
  BY <1>4 DEF SubqueriesGot
<1>7. "none" \notin WindowRoles
  BY DEF WindowRoles
<1> HIDE DEF w
<1>8. /\ Settled("subqueries", "none", Ahead') = A \cup T
      /\ SettledFirst("subqueries", "none", Ahead')
      /\ \A m \in A, n \in T : m < n
      /\ A \in SUBSET Int /\ T \in SUBSET Int
  <2> HIDE DEF A, T
  <2>1. "subqueries" \in {"columns", "subqueries"} /\ w.listener = "subqueries"
    BY <1>1
  <2> QED BY <1>3, <1>4, <1>6, <1>7, <2>1, SettledMore DEF A, T, IInv
<1> HIDE DEF A, T
<1>9. Enumerates(subqueries \o current.found, A \cup T)
  BY <1>5, <1>6, <1>8, EnumeratesBoth
<1> QED BY <1>2, <1>8, <1>9 DEF SubqueriesGot

(* Usages added behind those there are. *)
Adds(us, new, found, role, context) ==
  /\ Len(us) \in Nat /\ Len(found) \in Nat /\ DOMAIN us = 1..Len(us) /\ DOMAIN found = 1..Len(found)
  /\ IsSeq(new) /\ Len(new) = Len(us) + Len(found)
  /\ \A i \in DOMAIN us : i \in DOMAIN new /\ new[i] = us[i]
  /\ \A k \in 1..Len(found) :
       /\ Len(us) + k \in DOMAIN new /\ new[Len(us) + k].column = found[k]
       /\ new[Len(us) + k].role = role /\ new[Len(us) + k].context = context
  /\ \A p \in DOMAIN new : p \in DOMAIN us \/ \E k \in 1..Len(found) : p = Len(us) + k

LEMMA Recorded ==
  ASSUME NEW us, IsSeq(us), NEW found, IsSeq(found), NEW role, NEW context
  PROVE  Adds(us, us \o [i \in DOMAIN found |-> Usage(found[i], role, context, << >>)], found, role, context)
<1> DEFINE recorded == [i \in DOMAIN found |-> Usage(found[i], role, context, << >>)]
<1>1. PICK S : us \in Seq(S)
  BY DEF IsSeq
<1>2. PICK T : found \in Seq(T)
  BY DEF IsSeq
<1>3. /\ DOMAIN found = 1..Len(found) /\ Len(found) \in Nat /\ recorded \in Seq({recorded[i] : i \in DOMAIN found})
      /\ Len(recorded) = Len(found)
  BY <1>2
<1>4. \A k \in 1..Len(found) : recorded[k].column = found[k] /\ recorded[k].role = role
                              /\ recorded[k].context = context
  BY <1>3 DEF Usage
<1> HIDE DEF recorded
<1>5. PICK R : R = S \cup {recorded[i] : i \in DOMAIN found}
  OBVIOUS
<1>6. us \in Seq(R) /\ recorded \in Seq(R)
  BY <1>1, <1>3, <1>5
<1> DEFINE new == us \o recorded
<1>7. /\ new \in Seq(R) /\ Len(new) = Len(us) + Len(recorded) /\ Len(us) \in Nat
      /\ \A p \in 1..Len(us) : p \in DOMAIN new /\ new[p] = us[p]
      /\ \A k \in 1..Len(recorded) : Len(us) + k \in DOMAIN new /\ new[Len(us) + k] = recorded[k]
      /\ \A p \in DOMAIN new : p \in 1..Len(us) \/ \E k \in 1..Len(recorded) : p = Len(us) + k
  BY <1>6, ConcatPlaces
<1> HIDE DEF new
<1>8. DOMAIN us = 1..Len(us)
  BY <1>1
<1>9. Adds(us, new, found, role, context)
  BY <1>3, <1>4, <1>7, <1>8 DEF Adds, IsSeq
<1> QED BY <1>9 DEF new, recorded

(* The columns of a walk over an expression behind those before. *)
LEMMA AddsColumns ==
  ASSUME NEW us, NEW new, NEW found, NEW role, NEW context, Adds(us, new, found, role, context),
         NEW A \in SUBSET Int, NEW T \in SUBSET Int, Enumerates(found, T), \A m \in A, n \in T : m < n,
         ColumnsAre(us, role, A)
  PROVE  ColumnsAre(new, role, A \cup T)
<1>1. /\ {us[i].column : i \in PlacesOf(us, role)} = A
      /\ \A i, j \in PlacesOf(us, role) : i < j => us[i].column < us[j].column
  BY DEF ColumnsAre
<1> DEFINE L == Len(us)
<1>2. /\ L \in Nat /\ Len(found) \in Nat /\ DOMAIN us = 1..L /\ DOMAIN found = 1..Len(found)
      /\ \A i \in DOMAIN us : i \in DOMAIN new /\ new[i] = us[i]
      /\ \A k \in 1..Len(found) :
           L + k \in DOMAIN new /\ new[L + k].column = found[k] /\ new[L + k].role = role
      /\ \A p \in DOMAIN new : p \in DOMAIN us \/ \E k \in 1..Len(found) : p = L + k
  BY DEF Adds
<1> HIDE DEF L
<1>3. \A p \in PlacesOf(new, role) : p \in PlacesOf(us, role) \/ \E k \in 1..Len(found) : p = L + k
  BY <1>2 DEF PlacesOf
<1>4. \A p \in PlacesOf(us, role) : p \in 1..L /\ p \in PlacesOf(new, role) /\ new[p] = us[p] /\ us[p].column \in A
  <2>1. \A p \in PlacesOf(us, role) : p \in 1..L /\ p \in PlacesOf(new, role) /\ new[p] = us[p]
    BY <1>2 DEF PlacesOf
  <2> QED BY <1>1, <2>1
<1>5. \A k \in 1..Len(found) : L + k \in PlacesOf(new, role) /\ new[L + k].column = found[k] /\ found[k] \in T
  BY <1>2 DEF PlacesOf, Enumerates
<1>6. \A m \in A : \E p \in PlacesOf(us, role) : us[p].column = m
  BY <1>1
<1>7. \A m \in T : \E k \in 1..Len(found) : found[k] = m
  BY <1>2 DEF Enumerates
<1>8. \A h, k \in 1..Len(found) : h < k => found[h] < found[k]
  BY <1>2 DEF Enumerates
<1>9. {new[i].column : i \in PlacesOf(new, role)} = A \cup T
  <2>1. ASSUME NEW p \in PlacesOf(new, role) PROVE new[p].column \in A \cup T
    BY <1>3, <1>4, <1>5, <2>1
  <2>2. ASSUME NEW m \in A \cup T PROVE \E p \in PlacesOf(new, role) : new[p].column = m
    BY <1>4, <1>5, <1>6, <1>7, <2>2
  <2> QED BY <2>1, <2>2
<1>10. ASSUME NEW i \in PlacesOf(new, role), NEW j \in PlacesOf(new, role), i < j
      PROVE  new[i].column < new[j].column
  <2>1. CASE i \in PlacesOf(us, role) /\ j \in PlacesOf(us, role)
    BY <1>1, <1>4, <1>10, <2>1
  <2>2. ASSUME i \in PlacesOf(us, role), NEW k \in 1..Len(found), j = L + k PROVE new[i].column < new[j].column
    BY <1>4, <1>5, <2>2
  <2>3. ASSUME NEW h \in 1..Len(found), i = L + h, NEW k \in 1..Len(found), j = L + k
        PROVE  new[i].column < new[j].column
    <3>1. h < k
      BY <1>2, <1>10, <2>3
    <3>2. found[h] < found[k]
      BY <1>8, <3>1
    <3> QED BY <1>5, <2>3, <3>2
  <2>4. ASSUME NEW h \in 1..Len(found), i = L + h, j \in PlacesOf(us, role) PROVE FALSE
    <3>1. j \in 1..L
      BY <1>4, <2>4
    <3> QED BY <1>2, <1>10, <2>4, <3>1
  <2> QED BY <1>3, <2>1, <2>2, <2>3, <2>4
<1> QED BY <1>9, <1>10 DEF ColumnsAre

(* What is recorded for another role changes nothing. *)
LEMMA OtherRole ==
  ASSUME NEW us, NEW new, NEW found, NEW role, NEW context, Adds(us, new, found, role, context),
         NEW other, other # role
  PROVE  PlacesOf(new, other) = PlacesOf(us, other) /\ \A i \in PlacesOf(us, other) : new[i] = us[i]
BY DEF Adds, PlacesOf

LEMMA OtherContext ==
  ASSUME NEW us, NEW new, NEW found, NEW role, NEW context, Adds(us, new, found, role, context),
         NEW part, part # context \/ RoleOf(part) # role
  PROVE  /\ PlacesIn(new, part) = PlacesIn(us, part)
         /\ \A b \in Nat : \A s : RunOf(us, part, b, s) => RunOf(new, part, b, s)
<1>1. PlacesIn(new, part) = PlacesIn(us, part)
  BY DEF Adds, PlacesIn
<1>2. ASSUME NEW b \in Nat, NEW s, RunOf(us, part, b, s) PROVE RunOf(new, part, b, s)
  <2>1. Len(s) \in Nat
    BY <1>2 DEF RunOf, Enumerates
  <2>2. Len(us) \in Nat /\ Len(found) \in Nat /\ Len(new) = Len(us) + Len(found) /\ b + Len(s) <= Len(us)
    BY <1>2 DEF RunOf, Adds
  <2>3. \A k \in 1..Len(s) : b + k \in 1..Len(us)
    BY <2>1, <2>2
  <2>4. \A k \in 1..Len(s) : new[b + k] = us[b + k]
    BY <2>3 DEF Adds
  <2>5. b + Len(s) <= Len(new)
    BY <2>1, <2>2
  <2> QED BY <1>1, <1>2, <2>4, <2>5 DEF RunOf
<1> QED BY <1>1, <1>2

(* findAndRecordUsage after a walk over an expression or a window part. *)
LEMMA UsageRecorded ==
  ASSUME IInv, WellFormed, Walks, Collected, Ordered, RecordUsage
  PROVE  /\ UNCHANGED <<clause, todo, subqueries>> /\ frames' = << >>
         /\ Walks' /\ Collected' /\ Ordered'
         /\ Finishes(current.walk, Ahead, Ahead')
         /\ ListWalk(current.walk) \/ PartWalk(current.walk)
         /\ Enumerates(current.found, ToCollect(current.walk, current.walk.last + 1))
         /\ Adds(usages, usages', current.found, current.walk.role, current.walk.first)
<1>1. /\ frames # << >> /\ Len(frames) = 1 /\ current = frames[1] /\ Over(current)
      /\ IsWalk(current.walk) /\ current.walk.listener = "columns" /\ Front(frames) = << >>
  BY EndsOuter DEF RecordUsage
<1>2. /\ frames' = << >> /\ UNCHANGED <<clause, todo, subqueries>>
      /\ usages' = usages \o [i \in DOMAIN current.found |->
                     Usage(current.found[i], current.walk.role, current.walk.first, << >>)]
  BY <1>1 DEF RecordUsage
<1>3. Walks' /\ Collected' /\ Ordered' /\ Finishes(current.walk, Ahead, Ahead')
  BY <1>1, <1>2, OuterEnds
<1>4. ListWalk(current.walk) \/ PartWalk(current.walk)
  BY <1>1, WalkKinds DEF IsWalk
<1>5. Enumerates(current.found, ToCollect(current.walk, current.walk.last + 1))
  BY <1>1, CollectedAll DEF RuleFor
<1>6. IsSeq(current.found) /\ IsSeq(usages)
  BY <1>1, CurrentOK DEF FoundOK, IInv
<1>7. Adds(usages, usages', current.found, current.walk.role, current.walk.first)
  BY <1>2, <1>6, Recorded
<1> QED BY <1>2, <1>3, <1>4, <1>5, <1>7

LEMMA RecordUsageColumns ==
  ASSUME IInv, WellFormed, Walks, Collected, Ordered, ColumnsGot(usages, Ahead), RecordUsage
  PROVE  ColumnsGot(usages', Ahead')
<1> DEFINE w == current.walk
           T == ToCollect(w, w.last + 1)
           role == RoleOfClause[clause.kind]
           A == Settled("columns", role, Ahead)
<1>1. /\ UNCHANGED <<clause, todo, subqueries>> /\ Finishes(w, Ahead, Ahead')
      /\ ListWalk(w) \/ PartWalk(w)
      /\ Enumerates(current.found, T)
      /\ Adds(usages, usages', current.found, w.role, w.first)
  BY UsageRecorded
<1>2. clause.kind \in DOMAIN RoleOfClause
  <2>1. clause.kind \in {"target_list", "group_clause", "order_clause"}
    BY <1>1, WalkKinds
  <2> QED BY <2>1 DEF RoleOfClause
<1>3. /\ ColumnsAre(usages, role, A)
      /\ SettledFirst("columns", role, Ahead)
  BY <1>2 DEF ColumnsGot
<1>4. CASE ListWalk(w)
  <2>1. /\ w.listener = "columns" /\ w.role = role /\ role \in {"projection", "group", "order"}
        /\ IsTop(w.first) /\ w.last = clause.last[w.first]
    BY <1>4, WalkKinds
  <2>2. role \notin WindowRoles /\ "columns" \in {"columns", "subqueries"}
    BY <2>1 DEF WindowRoles
  <2> HIDE DEF role, w
  <2>3. /\ Settled("columns", role, Ahead') = A \cup T
        /\ SettledFirst("columns", role, Ahead')
        /\ \A m \in A, n \in T : m < n
        /\ A \in SUBSET Int /\ T \in SUBSET Int
    BY <1>1, <1>3, <2>1, <2>2, SettledMore DEF IInv
  <2> HIDE DEF A, T
  <2>4. ColumnsAre(usages', role, A \cup T)
    BY <1>1, <1>3, <2>1, <2>3, AddsColumns
  <2> QED BY <2>3, <2>4 DEF ColumnsGot, role
<1>5. CASE PartWalk(w)
  <2>1. w.role \in WindowRoles /\ clause.kind = "target_list"
    BY <1>5, WalkKinds
  <2>2. role # w.role
    BY <2>1 DEF WindowRoles, RoleOfClause
  <2> HIDE DEF role, w
  <2>3. \A v : v.listener = "columns" /\ v.role = role => (v \in Ahead <=> v \in Ahead')
    BY <1>1, <2>2 DEF Finishes
  <2>4. /\ Settled("columns", role, Ahead') = A /\ SettledFirst("columns", role, Ahead')
    BY <1>3, <2>3, SettledSame
  <2> HIDE DEF A
  <2>5. PlacesOf(usages', role) = PlacesOf(usages, role)
        /\ \A i \in PlacesOf(usages, role) : usages'[i] = usages[i]
    BY <1>1, <2>2, OtherRole
  <2>6. ColumnsAre(usages', role, A)
    BY <1>3, <2>5 DEF ColumnsAre
  <2> QED BY <2>4, <2>6 DEF ColumnsGot, role
<1> QED BY <1>1, <1>4, <1>5

(* The columns of a window part, recorded one after another. *)
LEMMA NewRun ==
  ASSUME NEW us, NEW new, NEW found, NEW part, Adds(us, new, found, RoleOf(part), part),
         PlacesIn(us, part) = {}, Enumerates(found, ColumnsOf(part))
  PROVE  RunOf(new, part, Len(us), found)
<1>1. /\ Len(us) \in Nat /\ Len(found) \in Nat /\ DOMAIN us = 1..Len(us) /\ DOMAIN found = 1..Len(found)
      /\ Len(new) = Len(us) + Len(found)
      /\ \A i \in DOMAIN us : i \in DOMAIN new /\ new[i] = us[i]
      /\ \A k \in 1..Len(found) : Len(us) + k \in DOMAIN new /\ new[Len(us) + k].column = found[k]
           /\ new[Len(us) + k].role = RoleOf(part) /\ new[Len(us) + k].context = part
      /\ \A p \in DOMAIN new : p \in DOMAIN us \/ \E k \in 1..Len(found) : p = Len(us) + k
  BY DEF Adds
<1>2. ASSUME NEW p PROVE p \in PlacesIn(new, part) <=> \E k \in 1..Len(found) : p = Len(us) + k
  <2>1. p \in PlacesIn(new, part) => p \notin DOMAIN us
    BY <1>1 DEF PlacesIn
  <2> QED BY <1>1, <2>1 DEF PlacesIn
<1>3. \A p : (\E k \in 1..Len(found) : p = Len(us) + k) <=> p \in Len(us) + 1..Len(us) + Len(found)
  <2>1. ASSUME NEW p \in Len(us) + 1..Len(us) + Len(found) PROVE \E k \in 1..Len(found) : p = Len(us) + k
    <3>1. p - Len(us) \in 1..Len(found) /\ p = Len(us) + (p - Len(us))
      BY <1>1
    <3> QED BY <3>1
  <2> QED BY <1>1, <2>1
<1>4. PlacesIn(new, part) = Len(us) + 1..Len(us) + Len(found)
  BY <1>2, <1>3
<1> QED BY <1>1, <1>4 DEF RunOf

LEMMA RecordUsageWindows ==
  ASSUME IInv, WellFormed, Walks, Collected, Ordered, WindowsGot(usages, Ahead), RecordUsage
  PROVE  WindowsGot(usages', Ahead')
<1> DEFINE w == current.walk
<1>1. /\ UNCHANGED <<clause, todo, subqueries>> /\ Finishes(w, Ahead, Ahead')
      /\ ListWalk(w) \/ PartWalk(w)
      /\ Enumerates(current.found, ToCollect(w, w.last + 1))
      /\ Adds(usages, usages', current.found, w.role, w.first)
  BY UsageRecorded
<1>2. w.listener = "columns"
  BY <1>1, WalkKinds
<1>3. ListWalk(w) => w.role \notin WindowRoles
  BY WalkKinds DEF WindowRoles
<1>4. PartWalk(w) => /\ w.first \in Nodes /\ w = WalkOf("columns", w.first, RoleOf(w.first))
                     /\ w.role = RoleOf(w.first) /\ w.role \in WindowRoles /\ w.last = clause.last[w.first]
  BY WalkKinds
<1>5. (\E v \in Ahead : v.listener = "windows") <=> (\E v \in Ahead' : v.listener = "windows")
  BY <1>1, <1>2 DEF Finishes
<1>6. PartWalk(w) => ~ \E v \in Ahead : v.listener = "windows"
  BY <1>1, <1>4 DEF Ordered, Finishes
<1>7. ASSUME NEW part \in Nodes, Rule(part) \in WindowParts
      PROVE  IF (\E v \in Ahead' : v.listener = "windows") \/ WalkOf("columns", part, RoleOf(part)) \in Ahead'
               THEN PlacesIn(usages', part) = {}
               ELSE \E b \in Nat, s \in Seq(ColumnsOf(part)) : RunOf(usages', part, b, s)
  <2> DEFINE pw == WalkOf("columns", part, RoleOf(part))
             late == \E v \in Ahead : v.listener = "windows"
  <2>1. IF late \/ pw \in Ahead
          THEN PlacesIn(usages, part) = {}
          ELSE \E b \in Nat, s \in Seq(ColumnsOf(part)) : RunOf(usages, part, b, s)
    BY <1>7 DEF WindowsGot
  <2>2. RoleOf(part) \in WindowRoles
    BY DEF RoleOf, WindowRoles
  <2>3. CASE pw = w
    <3>1. PartWalk(w) /\ part = w.first /\ w.role = RoleOf(part)
      <4>1. part = w.first /\ w.role = RoleOf(part)
        BY <2>3, WalkFields
      <4> QED BY <1>1, <1>3, <2>2, <4>1
    <3>2. PlacesIn(usages, part) = {} /\ pw \notin Ahead'
      BY <1>1, <2>1, <2>3 DEF Finishes
    <3>3. ToCollect(w, w.last + 1) = ColumnsOf(part)
      <4>1. Below(part) \subseteq Nodes /\ clause.last[part] \in Nat
        BY BelowNode, Numbered DEF IInv
      <4>2. w.last \in Nat /\ w.first..w.last = Below(part)
        BY <1>4, <3>1, <4>1 DEF Below
      <4>3. \A m : Gathers(w, m) <=> Rule(m) = "columnref" /\ ~Hidden(part, m)
        BY <1>2, <3>1 DEF Gathers, RuleFor, Counts
      <4> HIDE DEF w
      <4>4. \A m : m \in ToCollect(w, w.last + 1) <=> m \in Below(part) /\ m \in Nodes /\ Gathers(w, m)
        <5>1. PICK n : n = w.last + 1
          OBVIOUS
        <5>2. ToCollect(w, n) = {m \in w.first..n - 1 : m \in Nodes /\ Gathers(w, m)}
          BY DEF ToCollect
        <5>3. w.first..n - 1 = Below(part)
          <6>1. n - 1 = w.last
            BY <4>2, <5>1
          <6> QED BY <4>2, <6>1
        <5>4. \A m : m \in ToCollect(w, n) <=> m \in Below(part) /\ m \in Nodes /\ Gathers(w, m)
          BY <5>2, <5>3
        <5> QED BY <5>1, <5>4
      <4> QED BY <4>1, <4>3, <4>4 DEF ColumnsOf
    <3>4. RunOf(usages', part, Len(usages), current.found)
      BY <1>1, <3>1, <3>2, <3>3, NewRun
    <3>5. Len(usages) \in Nat /\ current.found \in Seq(ColumnsOf(part))
      BY <1>1, <3>3 DEF Adds, Enumerates
    <3>6. ~ \E v \in Ahead' : v.listener = "windows"
      BY <1>5, <1>6, <3>1
    <3> HIDE DEF pw, w
    <3> QED BY <3>2, <3>4, <3>5, <3>6 DEF pw
  <2>4. CASE pw # w
    <3>1. part # w.first \/ RoleOf(part) # w.role
      BY <1>1, <1>3, <1>4, <2>2, <2>4
    <3>2. /\ PlacesIn(usages', part) = PlacesIn(usages, part)
          /\ \A b \in Nat : \A s : RunOf(usages, part, b, s) => RunOf(usages', part, b, s)
      BY <1>1, <3>1, OtherContext
    <3>3. pw \in Ahead <=> pw \in Ahead'
      BY <1>1, <2>4 DEF Finishes
    <3> HIDE DEF pw, w, late
    <3>4. CASE late \/ pw \in Ahead
      BY <1>5, <2>1, <3>2, <3>3, <3>4 DEF late, pw
    <3>5. CASE ~(late \/ pw \in Ahead)
      <4>1. PICK b \in Nat, s \in Seq(ColumnsOf(part)) : RunOf(usages, part, b, s)
        BY <2>1, <3>5
      <4>2. RunOf(usages', part, b, s)
        BY <3>2, <4>1
      <4> QED BY <1>5, <3>3, <3>5, <4>2 DEF late, pw
    <3> QED BY <3>4, <3>5
  <2> QED BY <2>3, <2>4
<1> QED BY <1>7 DEF WindowsGot

LEMMA RecordUsageRest ==
  ASSUME IInv, WellFormed, Walks, Collected, Ordered, SubqueriesGot(subqueries, Ahead), NothingElse, RecordUsage
  PROVE  SubqueriesGot(subqueries', Ahead') /\ ComparisonsGot' /\ NothingElse'
<1> DEFINE w == current.walk
<1>1. /\ UNCHANGED <<clause, todo, subqueries>> /\ Finishes(w, Ahead, Ahead')
      /\ ListWalk(w) \/ PartWalk(w)
      /\ Adds(usages, usages', current.found, w.role, w.first)
  BY UsageRecorded
<1>2. w.listener = "columns" /\ clause.kind \in {"target_list", "group_clause", "order_clause"}
      /\ w.role # "filter"
  BY <1>1, WalkKinds DEF WindowRoles
<1> HIDE DEF w
<1>3. SubqueriesGot(subqueries', Ahead')
  <2>1. \A v : v.listener = "subqueries" => (v \in Ahead <=> v \in Ahead')
    BY <1>1, <1>2 DEF Finishes
  <2> QED BY <1>1, <2>1, OtherSubqueries
<1>4. clause.kind \notin Conditions
  BY <1>2 DEF Conditions
<1>5. NothingElse'
  <2>1. \A i \in DOMAIN usages : usages[i].role # "filter"
    BY <1>4 DEF NothingElse
  <2>2. \A p \in DOMAIN usages' : usages'[p].role # "filter"
    BY <1>1, <1>2, <2>1 DEF Adds
  <2> QED BY <1>1, <2>2 DEF NothingElse
<1> QED BY <1>1, <1>3, <1>4, <1>5 DEF ComparisonsGot

(* What a walk of another listener leaves as it is. *)
LEMMA OtherColumns ==
  ASSUME NEW g, NEW a, NEW b, \A w : w.listener = "columns" => (w \in a <=> w \in b), ColumnsGot(g, a)
  PROVE  ColumnsGot(g, b)
<1>1. \A r : Settled("columns", r, a) = Settled("columns", r, b)
             /\ (SettledFirst("columns", r, a) <=> SettledFirst("columns", r, b))
  BY SettledSame
<1> QED BY <1>1 DEF ColumnsGot

LEMMA OtherWindows ==
  ASSUME NEW g, NEW a, NEW b, \A w : w.listener \in {"columns", "windows"} => (w \in a <=> w \in b),
         WindowsGot(g, a)
  PROVE  WindowsGot(g, b)
<1>1. (\E w \in a : w.listener = "windows") <=> (\E w \in b : w.listener = "windows")
  OBVIOUS
<1>2. \A m, r : WalkOf("columns", m, r) \in a <=> WalkOf("columns", m, r) \in b
  BY WalkFields
<1> QED BY <1>1, <1>2 DEF WindowsGot

LEMMA NotComparing ==
  ASSUME ~Comparing, ~Comparing', UNCHANGED <<clause, todo, usages>>, ComparisonsGot
  PROVE  ComparisonsGot'
<1> SUFFICES ASSUME clause.kind \in Conditions PROVE ComparisonsGot'
  BY DEF ComparisonsGot
<1>1. (\A i \in DOMAIN usages : IsComparison(usages[i]))'
  BY ComparisonsStay DEF ComparisonsGot
<1>2. (\A i, j \in DOMAIN usages : ComparisonKey(usages[i]) = ComparisonKey(usages[j]) => i = j)'
  BY ComparisonsStay DEF ComparisonsGot
<1>3. ASSUME NEW p \in Nodes, NEW c \in Nodes, IsCompared(p, c) PROVE Known(p, c)'
  <2>1. Known(p, c)
    BY <1>3 DEF ComparisonsGot
  <2>2. (\E i \in DOMAIN todo : todo[i].listener = "comparisons") \/ HasKey(usages, Comparison(p, c))
    BY <2>1 DEF Known
  <2>3. HasKey(usages, Comparison(p, c))' <=> HasKey(usages, Comparison(p, c))
    BY ComparisonsStay
  <2> QED BY <2>2, <2>3 DEF Known
<1>4. (\A p, c \in Nodes : IsCompared(p, c) => Known(p, c))'
  BY <1>3, ComparisonsStay, WalksStay
<1> QED BY <1>1, <1>2, <1>4 DEF ComparisonsGot

(* extractExpressionSubqueries after a walk over an expression. *)
LEMMA RecordSubqueriesKeeps ==
  ASSUME IInv, JInv, RecordSubqueries
  PROVE  JInv'
<1>1. /\ WellFormed /\ Walks /\ Collected /\ Ordered
      /\ SubqueriesGot(subqueries, Ahead) /\ ColumnsGot(usages, Ahead) /\ WindowsGot(usages, Ahead)
      /\ ComparisonsGot /\ NothingElse
  BY DEF JInv
<1> DEFINE w == current.walk
<1>2. /\ frames # << >> /\ Len(frames) = 1 /\ current = frames[1] /\ Over(current)
      /\ IsWalk(w) /\ w.listener = "subqueries" /\ Front(frames) = << >>
  BY <1>1, EndsOuter DEF RecordSubqueries
<1>3. frames' = << >> /\ UNCHANGED <<clause, todo, usages>>
  BY <1>2 DEF RecordSubqueries
<1>4. Walks' /\ Collected' /\ Ordered' /\ Finishes(w, Ahead, Ahead')
  BY <1>1, <1>2, <1>3, OuterEnds
<1>5. SubqueriesGot(subqueries', Ahead')
  BY <1>1, RecordSubqueriesGot
<1>6. \A v : v.listener # "subqueries" => (v \in Ahead <=> v \in Ahead')
  BY <1>2, <1>4 DEF Finishes
<1>7. ColumnsGot(usages, Ahead')
  BY <1>1, <1>6, OtherColumns
<1>8. WindowsGot(usages, Ahead')
  BY <1>1, <1>6, OtherWindows
<1>9. ComparisonsGot'
  <2>1. ~Comparing /\ ~Comparing'
    BY <1>2, <1>3 DEF Comparing
  <2> QED BY <1>1, <1>3, <2>1, NotComparing
<1>10. NothingElse'
  BY <1>1, <1>3 DEF NothingElse
<1>11. WellFormed' /\ SubqueriesGot(subqueries, Ahead)' /\ ColumnsGot(usages, Ahead)' /\ WindowsGot(usages, Ahead)'
  BY <1>1, <1>3, <1>5, <1>7, <1>8, WalksStay, RecordsStay
<1> QED BY <1>4, <1>9, <1>10, <1>11 DEF JInv

LEMMA RecordUsageKeeps ==
  ASSUME IInv, JInv, RecordUsage
  PROVE  JInv'
<1>1. /\ WellFormed /\ Walks /\ Collected /\ Ordered
      /\ SubqueriesGot(subqueries, Ahead) /\ ColumnsGot(usages, Ahead) /\ WindowsGot(usages, Ahead)
      /\ ComparisonsGot /\ NothingElse
  BY DEF JInv
<1>2. UNCHANGED clause /\ Walks' /\ Collected' /\ Ordered'
  BY <1>1, UsageRecorded
<1>3. SubqueriesGot(subqueries', Ahead') /\ ComparisonsGot' /\ NothingElse'
  BY <1>1, RecordUsageRest
<1>4. ColumnsGot(usages', Ahead') /\ WindowsGot(usages', Ahead')
  BY <1>1, RecordUsageColumns, RecordUsageWindows
<1>5. WellFormed' /\ SubqueriesGot(subqueries, Ahead)' /\ ColumnsGot(usages, Ahead)' /\ WindowsGot(usages, Ahead)'
  BY <1>1, <1>2, <1>3, <1>4, WalksStay, RecordsStay
<1> QED BY <1>2, <1>3, <1>5 DEF JInv

(* The walks over the parts of a window, and over those of all windows. *)
PartWalks(over) ==
  [i \in DOMAIN FromLeast(PartsOf(over)) |->
     WalkOf("columns", FromLeast(PartsOf(over))[i], RoleOf(FromLeast(PartsOf(over))[i]))]

OfPart(w, p) == p \in Nodes /\ Rule(p) \in WindowParts /\ w = WalkOf("columns", p, RoleOf(p))

AllParts(walks) ==
  /\ IsSeq(walks)
  /\ \A q \in DOMAIN walks : \E p : OfPart(walks[q], p)
  /\ \A q, r \in DOMAIN walks : walks[q].first = walks[r].first => q = r
  /\ \A p \in Nodes : Rule(p) \in WindowParts => \E q \in DOMAIN walks : OfPart(walks[q], p)

LEMMA PartWalksOf ==
  ASSUME Tree, WellFormed, NEW over
  PROVE  \E parts : /\ Enumerates(parts, PartsOf(over))
                    /\ DOMAIN PartWalks(over) = DOMAIN parts
                    /\ \A k \in DOMAIN parts : OfPart(PartWalks(over)[k], parts[k])
                    /\ PartWalks(over) \in Seq({WalkOf("columns", p, RoleOf(p)) : p \in Nodes})
<1>1. PartsOf(over) \in SUBSET (1..Len(clause.last)) /\ Len(clause.last) \in Nat
  BY Numbered DEF PartsOf
<1>2. Enumerates(FromLeast(PartsOf(over)), PartsOf(over))
  BY <1>1, Enumeration
<1>3. PICK parts : parts = FromLeast(PartsOf(over))
  OBVIOUS
<1>4. parts \in Seq(PartsOf(over))
  BY <1>2, <1>3 DEF Enumerates
<1>5. PartWalks(over) = [i \in DOMAIN parts |-> WalkOf("columns", parts[i], RoleOf(parts[i]))]
  BY <1>3 DEF PartWalks
<1>6. \A k \in DOMAIN parts : parts[k] \in Nodes /\ Rule(parts[k]) \in WindowParts
  <2>1. \A k \in DOMAIN parts : parts[k] \in PartsOf(over)
    BY <1>4
  <2> QED BY <2>1 DEF PartsOf
<1>7. PartWalks(over) \in Seq({WalkOf("columns", p, RoleOf(p)) : p \in Nodes})
  <2>1. DOMAIN parts = 1..Len(parts) /\ Len(parts) \in Nat
    BY <1>4
  <2>2. \A i \in 1..Len(parts) : WalkOf("columns", parts[i], RoleOf(parts[i]))
                                   \in {WalkOf("columns", p, RoleOf(p)) : p \in Nodes}
    BY <1>6, <2>1
  <2> QED BY <1>5, <2>1, <2>2
<1>8. \A k \in DOMAIN parts : OfPart(PartWalks(over)[k], parts[k])
  BY <1>5, <1>6 DEF OfPart
<1>9. DOMAIN PartWalks(over) = DOMAIN parts
  BY <1>5
<1> QED BY <1>2, <1>3, <1>7, <1>8, <1>9

LEMMA AllPartsListed ==
  ASSUME Tree, WellFormed, NEW found, Enumerates(found, {m \in Nodes : Rule(m) = "over_clause"})
  PROVE  AllParts(FlattenSeq([i \in DOMAIN found |-> PartWalks(found[i])]))
<1> DEFINE seqs == [i \in DOMAIN found |-> PartWalks(found[i])]
           flat == FlattenSeq(seqs)
<1>1. /\ found \in Seq(Nodes) /\ DOMAIN found = 1..Len(found) /\ Len(found) \in Nat
      /\ \A i, j \in DOMAIN found : i < j => found[i] < found[j]
      /\ \A m \in Nodes : Rule(m) = "over_clause" => \E i \in DOMAIN found : found[i] = m
  BY DEF Enumerates
<1>2. PICK E : E = {WalkOf("columns", p, RoleOf(p)) : p \in Nodes}
  OBVIOUS
<1>3. \A over : PartWalks(over) \in Seq(E)
  BY <1>2, PartWalksOf
<1>4. seqs \in Seq(Seq(E)) /\ DOMAIN seqs = DOMAIN found /\ \A i \in DOMAIN found : seqs[i] = PartWalks(found[i])
  BY <1>1, <1>3
<1> HIDE DEF seqs
<1>5. flat \in Seq(E) /\ \E at : ArePlaces(at, seqs, flat)
  BY <1>4, FlattenPlaces
<1> HIDE DEF flat
<1>6. PICK at : ArePlaces(at, seqs, flat)
  BY <1>5
<1>7. /\ \A i \in DOMAIN seqs : \A k \in DOMAIN seqs[i] :
           at[i] + k \in DOMAIN flat /\ flat[at[i] + k] = seqs[i][k]
      /\ \A p \in DOMAIN flat : \E i \in DOMAIN seqs : \E k \in DOMAIN seqs[i] : p = at[i] + k
  BY <1>6 DEF ArePlaces
<1>8. ASSUME NEW q \in DOMAIN flat
      PROVE  \E i \in DOMAIN found : \E k, p :
               /\ k \in DOMAIN seqs[i] /\ p \in PartsOf(found[i])
               /\ q = at[i] + k /\ OfPart(flat[q], p) /\ OfPart(seqs[i][k], p)
  <2>1. PICK i \in DOMAIN seqs : \E k \in DOMAIN seqs[i] : q = at[i] + k
    BY <1>7
  <2>2. PICK k \in DOMAIN seqs[i] : q = at[i] + k
    BY <2>1
  <2>3. i \in DOMAIN found /\ flat[q] = seqs[i][k]
    BY <1>4, <1>7, <2>2
  <2>4. PICK parts : /\ Enumerates(parts, PartsOf(found[i])) /\ DOMAIN PartWalks(found[i]) = DOMAIN parts
                     /\ \A h \in DOMAIN parts : OfPart(PartWalks(found[i])[h], parts[h])
    BY PartWalksOf
  <2>5. k \in DOMAIN parts /\ parts[k] \in PartsOf(found[i])
    BY <1>4, <2>1, <2>4 DEF Enumerates
  <2>6. OfPart(seqs[i][k], parts[k])
    BY <1>4, <2>1, <2>4, <2>5
  <2> QED BY <2>2, <2>5, <2>6, <2>3
<1>9. \A w, p : OfPart(w, p) => w.first = p
  BY WalkFields DEF OfPart
<1>10. ASSUME NEW q \in DOMAIN flat, NEW r \in DOMAIN flat, flat[q].first = flat[r].first PROVE q = r
  <2>1. PICK i, k, p :
          /\ i \in DOMAIN found
          /\ k \in DOMAIN seqs[i] /\ p \in PartsOf(found[i])
          /\ q = at[i] + k /\ OfPart(flat[q], p) /\ OfPart(seqs[i][k], p)
    BY <1>8
  <2>2. PICK j, h, s :
          /\ j \in DOMAIN found
          /\ h \in DOMAIN seqs[j] /\ s \in PartsOf(found[j])
          /\ r = at[j] + h /\ OfPart(flat[r], s) /\ OfPart(seqs[j][h], s)
    BY <1>8
  <2>3. p = s
    BY <1>9, <1>10, <2>1, <2>2
  <2>4. found[i] = found[j]
    BY <2>1, <2>2, <2>3 DEF PartsOf
  <2>5. i = j
    <3>1. \A m \in Nodes : m \in Nat
      BY Numbered
    <3>2. found[i] \in Nat /\ i \in Nat /\ j \in Nat
      <4>1. i \in 1..Len(found) /\ j \in 1..Len(found) /\ found[i] \in Nodes
        BY <1>1, <2>1, <2>2
      <4> QED BY <1>1, <3>1, <4>1
    <3> QED BY <1>1, <2>1, <2>2, <2>4, <3>2
  <2>6. PICK parts : /\ Enumerates(parts, PartsOf(found[i])) /\ DOMAIN PartWalks(found[i]) = DOMAIN parts
                     /\ \A n \in DOMAIN parts : OfPart(PartWalks(found[i])[n], parts[n])
    BY PartWalksOf
  <2>7. k \in DOMAIN parts /\ h \in DOMAIN parts /\ OfPart(seqs[i][k], parts[k]) /\ OfPart(seqs[i][h], parts[h])
    BY <1>4, <2>1, <2>2, <2>5, <2>6
  <2>8. parts[k] = p /\ parts[h] = p
    BY <1>9, <2>1, <2>2, <2>3, <2>5, <2>7
  <2>9. k = h
    <3>1. \A m \in Nodes : m \in Nat
      BY Numbered
    <3>2. p \in Nat
      BY <2>1, <3>1 DEF PartsOf
    <3>3. k \in Nat /\ h \in Nat /\ \A x, y \in DOMAIN parts : x < y => parts[x] < parts[y]
      BY <2>6, <2>7 DEF Enumerates
    <3> QED BY <2>7, <2>8, <3>2, <3>3
  <2> QED BY <2>1, <2>2, <2>5, <2>9
<1>11. ASSUME NEW p \in Nodes, Rule(p) \in WindowParts PROVE \E q \in DOMAIN flat : OfPart(flat[q], p)
  <2> DEFINE over == Parent(clause.last, p)
  <2>1. over \in Nodes /\ Rule(over) = "over_clause" /\ p \in PartsOf(over)
    BY <1>11, PartOfWindow
  <2> HIDE DEF over
  <2>2. PICK i \in DOMAIN found : found[i] = over
    BY <1>1, <2>1
  <2>3. PICK parts : /\ Enumerates(parts, PartsOf(over)) /\ DOMAIN PartWalks(over) = DOMAIN parts
                     /\ \A n \in DOMAIN parts : OfPart(PartWalks(over)[n], parts[n])
    BY PartWalksOf
  <2>4. PICK k \in DOMAIN parts : parts[k] = p
    BY <2>1, <2>3 DEF Enumerates
  <2>5. k \in DOMAIN seqs[i] /\ OfPart(seqs[i][k], p)
    BY <1>4, <2>2, <2>3, <2>4
  <2>6. at[i] + k \in DOMAIN flat /\ flat[at[i] + k] = seqs[i][k]
    BY <1>4, <1>7, <2>2, <2>5
  <2> QED BY <2>5, <2>6
<1>12. \A q \in DOMAIN flat : \E p : OfPart(flat[q], p)
  BY <1>8
<1>13. IsSeq(flat)
  BY <1>5 DEF IsSeq
<1>14. AllParts(flat)
  BY <1>10, <1>11, <1>12, <1>13 DEF AllParts
<1> QED BY <1>14 DEF flat, seqs

(* extractWindowFunctions after the walk for the OVER clauses. *)
LEMMA WindowsRecorded ==
  ASSUME IInv, WellFormed, Walks, Collected, Ordered, RecordWindows
  PROVE  /\ UNCHANGED <<clause, usages, subqueries>> /\ frames' = << >>
         /\ clause.kind = "target_list"
         /\ Ahead = {current.walk} /\ current.walk.listener = "windows" /\ current.walk.role = "none"
         /\ AllParts(todo')
<1> DEFINE w == current.walk
<1>1. /\ frames # << >> /\ Len(frames) = 1 /\ current = frames[1] /\ Over(current)
      /\ IsWalk(w) /\ w.listener = "windows" /\ Front(frames) = << >>
  BY EndsOuter DEF RecordWindows
<1>2. frames' = << >> /\ UNCHANGED <<clause, usages, subqueries>>
  BY <1>1 DEF RecordWindows
<1>3. /\ clause.kind = "target_list" /\ w.role = "none" /\ w.first = 1 /\ w.last = Len(clause.last)
  BY <1>1, WalkKinds DEF IsWalk
<1>4. todo = << >> /\ Ahead = {w}
  <2>1. Outer = {w}
    BY <1>1 DEF Outer
  <2>2. todo = << >>
    BY <1>1, <2>1 DEF Ordered
  <2> QED BY <2>1, <2>2, Tuples DEF Ahead
<1>5. Enumerates(current.found, {m \in Nodes : Rule(m) = "over_clause"})
  <2>1. Enumerates(current.found, ToCollect(w, w.last + 1))
    BY <1>1, CollectedAll DEF RuleFor
  <2>2. Nodes = 1..Len(clause.last) /\ Len(clause.last) \in Nat
    BY Numbered DEF IInv
  <2>3. \A m : Gathers(w, m) <=> Rule(m) = "over_clause"
    BY <1>1 DEF Gathers, RuleFor, Counts
  <2>4. PICK n : n = w.last + 1
    OBVIOUS
  <2>5. w.first..n - 1 = Nodes
    BY <1>3, <2>2, <2>4
  <2> HIDE DEF w
  <2>6. ToCollect(w, n) = {m \in Nodes : Rule(m) = "over_clause"}
    BY <2>3, <2>5 DEF ToCollect
  <2> QED BY <2>1, <2>4, <2>6
<1>6. todo' = FlattenSeq([i \in DOMAIN current.found |-> PartWalks(current.found[i])]) \o todo
  BY DEF RecordWindows, PartWalks
<1>7. AllParts(FlattenSeq([i \in DOMAIN current.found |-> PartWalks(current.found[i])]))
  BY <1>5, AllPartsListed DEF IInv
<1>8. todo' = FlattenSeq([i \in DOMAIN current.found |-> PartWalks(current.found[i])])
  <2>1. PICK f : f = FlattenSeq([i \in DOMAIN current.found |-> PartWalks(current.found[i])])
    OBVIOUS
  <2>2. PICK S : f \in Seq(S)
    BY <1>7, <2>1 DEF AllParts, IsSeq
  <2>3. f \o << >> = f
    BY <2>2
  <2> QED BY <1>4, <1>6, <2>1, <2>3
<1> QED BY <1>1, <1>2, <1>3, <1>4, <1>7, <1>8

LEMMA RecordWindowsKeeps ==
  ASSUME IInv, JInv, RecordWindows
  PROVE  JInv'
<1>1. /\ WellFormed /\ Walks /\ Collected /\ Ordered
      /\ SubqueriesGot(subqueries, Ahead) /\ ColumnsGot(usages, Ahead) /\ WindowsGot(usages, Ahead)
      /\ ComparisonsGot /\ NothingElse
  BY DEF JInv
<1>2. /\ UNCHANGED <<clause, usages, subqueries>> /\ frames' = << >>
      /\ clause.kind = "target_list" /\ AllParts(todo')
      /\ Ahead = {current.walk} /\ current.walk.listener = "windows" /\ current.walk.role = "none"
  BY <1>1, WindowsRecorded
<1>3. WellFormed'
  BY <1>1, <1>2, WalksStay
<1>4. DOMAIN frames' = {} /\ Len(frames') = 0 /\ Outer' = {}
  BY <1>2, Tuples DEF Outer
<1>5. \A q \in DOMAIN todo' : \E p : OfPart(todo'[q], p)
  BY <1>2 DEF AllParts
<1>6. \A w, p : OfPart(w, p) => /\ w.listener = "columns" /\ w.role \in WindowRoles /\ w.first = p /\ PartWalk(w)
                                /\ p \in Nodes
  <2> SUFFICES ASSUME NEW w, NEW p, OfPart(w, p)
               PROVE  /\ w.listener = "columns" /\ w.role \in WindowRoles /\ w.first = p /\ PartWalk(w)
                      /\ p \in Nodes
    OBVIOUS
  <2>1. PartWalk(w)
    BY <1>2 DEF PartWalk, OfPart
  <2> QED BY <1>1, <2>1, WalkKinds, WalkFields DEF OfPart
<1>7. Walks'
  <2>1. \A q \in DOMAIN todo' : IsWalk(todo'[q])
    BY <1>5, <1>6 DEF IsWalk
  <2>2. IsSeq(todo)'
    BY <1>2 DEF AllParts, IsSeq
  <2> QED BY <1>2, <1>4, <2>1, <2>2, WalksStay DEF Walks
<1>8. Collected'
  BY <1>2, <1>4 DEF Collected
<1>9. \A v \in Ahead' : v.listener = "columns" /\ v.role \in WindowRoles
  BY <1>4, <1>5, <1>6 DEF Ahead
<1>10. Ordered'
  <2>1. ASSUME NEW i \in DOMAIN todo', NEW j \in DOMAIN todo', i < j PROVE Before(todo'[i], todo'[j])
    <3>1. todo'[i].role \in WindowRoles
      BY <1>5, <1>6
    <3>2. todo'[i].first # todo'[j].first
      <4>1. i \in Int /\ j \in Int
        BY <1>2 DEF AllParts, IsSeq
      <4>2. i # j
        BY <2>1, <4>1
      <4> QED BY <1>2, <4>2 DEF AllParts
    <3> QED BY <3>1, <3>2 DEF Before
  <2>2. \A i \in DOMAIN todo' : todo'[i].listener # "windows"
    BY <1>5, <1>6
  <2>3. \A x, y : Before(x, y)' <=> Before(x, y)
    BY DEF Before
  <2>4. (\A i, j \in DOMAIN todo : i < j => Before(todo[i], todo[j]))'
    BY <2>1, <2>3
  <2>5. (\A i \in DOMAIN todo : todo[i].listener = "windows" => i = Len(todo))'
    BY <2>2
  <2>6. (\A w, v \in Ahead : w.listener = "windows" => v.role \notin WindowRoles)'
    BY <1>9
  <2>7. (\A w \in Outer : \A i \in DOMAIN todo : Before(w, todo[i]))'
        /\ (\A w \in Outer : w.listener = "windows" => todo = << >>)'
    BY <1>4
  <2> QED BY <2>4, <2>5, <2>6, <2>7 DEF Ordered
<1>11. SubqueriesGot(subqueries, Ahead')
  <2>1. \A v : v.listener = "subqueries" => (v \in Ahead <=> v \in Ahead')
    BY <1>2, <1>9
  <2> QED BY <1>1, <2>1, OtherSubqueries
<1>12. ColumnsGot(usages, Ahead')
  <2> DEFINE role == RoleOfClause[clause.kind]
  <2>1. role \notin WindowRoles
    BY <1>2 DEF RoleOfClause, WindowRoles
  <2>2. \A v : v.listener = "columns" /\ v.role = role => (v \in Ahead <=> v \in Ahead')
    BY <1>2, <1>9, <2>1
  <2> HIDE DEF role
  <2>3. Settled("columns", role, Ahead') = Settled("columns", role, Ahead)
        /\ (SettledFirst("columns", role, Ahead) <=> SettledFirst("columns", role, Ahead'))
    BY <2>2, SettledSame
  <2> QED BY <1>1, <2>3 DEF ColumnsGot, role
<1>13. WindowsGot(usages, Ahead')
  <2> SUFFICES ASSUME NEW part \in Nodes, Rule(part) \in WindowParts
               PROVE  PlacesIn(usages, part) = {} /\ WalkOf("columns", part, RoleOf(part)) \in Ahead'
    BY DEF WindowsGot
  <2>1. PlacesIn(usages, part) = {}
    <3>1. \E v \in Ahead : v.listener = "windows"
      BY <1>2
    <3> QED BY <1>1, <3>1 DEF WindowsGot
  <2>2. PICK q \in DOMAIN todo' : OfPart(todo'[q], part)
    BY <1>2 DEF AllParts
  <2>3. todo'[q] \in Ahead'
    BY DEF Ahead
  <2> QED BY <2>1, <2>2, <2>3 DEF OfPart
<1>14. ComparisonsGot'
  BY <1>2 DEF ComparisonsGot, Conditions
<1>15. NothingElse'
  BY <1>1, <1>2 DEF NothingElse
<1>16. SubqueriesGot(subqueries, Ahead)' /\ ColumnsGot(usages, Ahead)' /\ WindowsGot(usages, Ahead)'
  BY <1>2, <1>11, <1>12, <1>13, RecordsStay
<1> QED BY <1>3, <1>7, <1>8, <1>10, <1>14, <1>15, <1>16 DEF JInv

(* What a comparison needs to be known still. *)
LEMMA KnownStays ==
  ASSUME UNCHANGED <<clause, usages>>, NEW p, NEW c,
         \/ UNCHANGED todo
         \/ ~ \E i \in DOMAIN todo : todo[i].listener = "comparisons",
         Comparing /\ Pursued(frames, p, c) => Comparing' /\ Pursued(frames', p, c)
  PROVE  Known(p, c) => Known(p, c)'
<1>1. /\ \A us, u : HasKey(us, u)' <=> HasKey(us, u)
      /\ Comparison(p, c)' = Comparison(p, c)
  BY ComparisonsStay
<1>2. Pursued(frames, p, c)' <=> Pursued(frames', p, c)
  BY <1>1 DEF Pursued
<1> QED BY <1>1, <1>2 DEF Known

LEMMA ComparisonsKept ==
  ASSUME UNCHANGED <<clause, usages>>, ComparisonsGot,
         clause.kind \in Conditions =>
           /\ Comparing' => \A i \in DOMAIN frames'[1].found : IsComparison(frames'[1].found[i])
           /\ \A p, c \in Nodes : IsCompared(p, c) => (Known(p, c) => Known(p, c)')
  PROVE  ComparisonsGot'
<1> SUFFICES ASSUME clause.kind \in Conditions PROVE ComparisonsGot'
  BY DEF ComparisonsGot
<1>1. (\A i \in DOMAIN usages : IsComparison(usages[i]))'
  BY ComparisonsStay DEF ComparisonsGot
<1>2. (\A i, j \in DOMAIN usages : ComparisonKey(usages[i]) = ComparisonKey(usages[j]) => i = j)'
  BY ComparisonsStay DEF ComparisonsGot
<1>3. (Comparing => \A i \in DOMAIN frames[1].found : IsComparison(frames[1].found[i]))'
  BY ComparisonsStay
<1>4. ASSUME NEW p \in Nodes, NEW c \in Nodes, IsCompared(p, c) PROVE Known(p, c)'
  <2>1. Known(p, c)
    BY <1>4 DEF ComparisonsGot
  <2> QED BY <1>4, <2>1
<1>5. (\A p, c \in Nodes : IsCompared(p, c) => Known(p, c))'
  BY <1>4, ComparisonsStay, WalksStay
<1> QED BY <1>1, <1>2, <1>3, <1>5 DEF ComparisonsGot

(* The walk for comparisons begins before all predicates. *)
LEMMA BeginComparisons ==
  ASSUME IInv, WellFormed, Walks, ComparisonsGot, BeginWalk
  PROVE  ComparisonsGot'
<1> DEFINE w == Head(todo)
           f == Frame(w)
<1>1. frames = << >> /\ todo # << >> /\ frames' = <<f>> /\ todo' = Tail(todo) /\ UNCHANGED <<clause, usages>>
  BY DEF BeginWalk
<1>2. PICK S : todo \in Seq(S)
  BY DEF Walks, IsSeq
<1>3. /\ 1 \in DOMAIN todo /\ w = todo[1]
      /\ \A i \in DOMAIN todo : i # 1 => i - 1 \in DOMAIN todo' /\ todo'[i - 1] = todo[i]
  BY <1>1, <1>2
<1>4. f.walk = w /\ f.next = w.first /\ f.found = << >>
  BY DEF Frame
<1> HIDE DEF f, w
<1>5. frames'[1] = f /\ frames' # << >> /\ DOMAIN f.found = {}
  BY <1>1, <1>4, Tuples
<1>6. w.listener = "comparisons" => w.first = 1
  <2>1. IsWalk(w)
    BY <1>3 DEF Walks
  <2> QED BY <2>1, WalkKinds DEF IsWalk
<1>7. ASSUME NEW p \in Nodes, NEW c \in Nodes, Known(p, c) PROVE Known(p, c)'
  <2>1. HasKey(usages, Comparison(p, c))' <=> HasKey(usages, Comparison(p, c))
    BY <1>1, ComparisonsStay
  <2>2. CASE HasKey(usages, Comparison(p, c))
    BY <2>1, <2>2 DEF Known
  <2>3. ASSUME NEW i \in DOMAIN todo, todo[i].listener = "comparisons" PROVE Known(p, c)'
    <3>1. CASE i = 1
      <4>1. p >= frames'[1].next
        BY <1>3, <1>4, <1>5, <1>6, <2>3, <3>1, Numbered DEF IInv
      <4>2. Comparing'
        BY <1>3, <1>4, <1>5, <2>3, <3>1 DEF Comparing
      <4> QED BY <4>1, <4>2 DEF Known, Pursued
    <3>2. CASE i # 1
      BY <1>3, <2>3, <3>2 DEF Known
    <3> QED BY <3>1, <3>2
  <2>4. ~Comparing
    BY <1>1 DEF Comparing
  <2> QED BY <1>7, <2>2, <2>3, <2>4 DEF Known
<1>8. Comparing' => \A i \in DOMAIN frames'[1].found : IsComparison(frames'[1].found[i])
  BY <1>5
<1> QED BY <1>1, <1>7, <1>8, ComparisonsKept

(* A column that is compared is collected by the walk over its predicate. *)
LEMMA InnerCollects ==
  ASSUME Tree, WellFormed, NEW w, IsInner(w), NEW c
  PROVE  IsCompared(w.first, c) <=> c \in Nodes /\ c \in w.first..w.last /\ Gathers(w, c)
<1>1. /\ w.listener = "columns" /\ w.first \in Nodes /\ w.last = clause.last[w.first]
      /\ Rule(w.first) \in Predicates /\ OperatorOf(Rule(w.first), Words(w.first)) # << >>
      /\ ~Hidden(1, w.first)
  BY WalkKinds
<1>2. Gathers(w, c) <=> Rule(c) = "columnref" /\ ~Hidden(w.first, c)
  BY <1>1 DEF Gathers, RuleFor, Counts
<1>3. c \in Below(w.first) => (Hidden(1, c) <=> Hidden(w.first, c))
  BY <1>1, HiddenBelow
<1>4. Below(w.first) = w.first..w.last
  BY <1>1 DEF Below
<1> QED BY <1>1, <1>2, <1>3, <1>4 DEF IsCompared

LEMMA Appended ==
  ASSUME NEW s, IsSeq(s), NEW e
  PROVE  /\ \E k \in DOMAIN Append(s, e) : Append(s, e)[k] = e
         /\ \A i \in DOMAIN s : i \in DOMAIN Append(s, e) /\ Append(s, e)[i] = s[i]
<1>1. PICK S : s \in Seq(S)
  BY DEF IsSeq
<1>2. PICK R : R = S \cup {e}
  OBVIOUS
<1>3. s \in Seq(R) /\ e \in R /\ Len(s) \in Nat
  BY <1>1, <1>2
<1>4. Len(s) + 1 \in DOMAIN Append(s, e) /\ Append(s, e)[Len(s) + 1] = e
  BY <1>3
<1>5. \A i \in DOMAIN s : i \in DOMAIN Append(s, e) /\ Append(s, e)[i] = s[i]
  BY <1>3
<1> QED BY <1>4, <1>5

(* The current frame replaced by one that pursues as much. *)
LEMMA ContinueComparisons ==
  ASSUME IInv, WellFormed, Walks, Ordered, ComparisonsGot, frames # << >>, NEW g, Continue(g),
         UNCHANGED <<clause, todo, usages>>, g.walk = current.walk,
         Comparing' <=> Comparing,
         Comparing /\ Len(frames) = 1 =>
           /\ g.found = current.found
           /\ \A p, c \in Nodes : IsCompared(p, c) /\ p >= current.next => p >= g.next,
         Comparing /\ Len(frames) = 2 =>
           \A c \in Nodes : IsCompared(g.walk.first, c)
                /\ (c >= current.next \/ \E i \in DOMAIN current.found : current.found[i] = c) =>
             \/ c >= g.next \/ \E i \in DOMAIN g.found : g.found[i] = c
             \/ HasKey(frames[1].found, Comparison(g.walk.first, c))
  PROVE  ComparisonsGot'
<1>1. CASE Len(frames) = 1 /\ frames = <<current>> /\ frames' = <<g>>
  <2>1. frames[1] = current /\ frames'[1] = g /\ Len(frames') = 1
    BY <1>1, Tuples
  <2>2. ASSUME NEW p \in Nodes, NEW c \in Nodes, IsCompared(p, c), Comparing, Pursued(frames, p, c)
        PROVE  Pursued(frames', p, c)
    BY <1>1, <2>1, <2>2 DEF Pursued
  <2>3. \A p, c \in Nodes : IsCompared(p, c) => (Known(p, c) => Known(p, c)')
    BY <2>2, KnownStays
  <2>4. Comparing' /\ clause.kind \in Conditions =>
          \A i \in DOMAIN frames'[1].found : IsComparison(frames'[1].found[i])
    BY <1>1, <2>1 DEF ComparisonsGot
  <2> QED BY <2>3, <2>4, ComparisonsKept
<1>2. CASE Len(frames) = 2 /\ frames = <<frames[1], current>> /\ frames' = <<frames[1], g>>
  <2>1. PICK f : f = frames[1]
    OBVIOUS
  <2>2. frames = <<f, current>> /\ frames' = <<f, g>>
    BY <1>2, <2>1
  <2>3. frames[2] = current /\ frames'[1] = f /\ frames'[2] = g /\ Len(frames') = 2
    BY <2>2, Tuples
  <2>4. ASSUME NEW p \in Nodes, NEW c \in Nodes, IsCompared(p, c), Comparing, Pursued(frames, p, c)
        PROVE  Pursued(frames', p, c)
    <3>1. CASE p >= f.next \/ HasKey(f.found, Comparison(p, c))
      BY <2>3, <3>1 DEF Pursued
    <3>2. CASE current.walk.first = p
                 /\ (c >= current.next \/ \E i \in DOMAIN current.found : current.found[i] = c)
      <4>1. \/ c >= g.next \/ \E i \in DOMAIN g.found : g.found[i] = c
            \/ HasKey(f.found, Comparison(p, c))
        BY <1>2, <2>1, <2>4, <3>2
      <4> QED BY <2>3, <3>2, <4>1 DEF Pursued
    <3> QED BY <2>1, <2>3, <2>4, <3>1, <3>2 DEF Pursued
  <2>5. \A p, c \in Nodes : IsCompared(p, c) => (Known(p, c) => Known(p, c)')
    BY <2>4, KnownStays
  <2>6. Comparing' /\ clause.kind \in Conditions =>
          \A i \in DOMAIN frames'[1].found : IsComparison(frames'[1].found[i])
    BY <2>1, <2>3 DEF ComparisonsGot
  <2> QED BY <2>5, <2>6, ComparisonsKept
<1> QED BY <1>1, <1>2, ContinueFrames

LEMMA ExitComparisons ==
  ASSUME IInv, WellFormed, Walks, Collected, Ordered, ComparisonsGot, NEW m \in Nodes, Exit(m)
  PROVE  ComparisonsGot'
<1>1. UNCHANGED <<clause, todo, usages, subqueries>> /\ frames # << >>
  BY ExitSteps
<1>2. PICK g : /\ Continue(g) /\ IsFrame(g) /\ g.walk = current.walk /\ g.next = current.next
               /\ g.open \subseteq current.open /\ g.found = current.found
  BY ExitSteps
<1>3. Placed(g)
  BY <1>1, <1>2, CurrentPlaced DEF Placed
<1>4. Comparing' <=> Comparing
  BY <1>1, <1>2, <1>3, CurrentCollected, ContinueKeeps
<1> QED BY <1>1, <1>2, <1>4, ContinueComparisons

LEMMA EnterComparisons ==
  ASSUME IInv, WellFormed, Walks, Collected, Ordered, ComparisonsGot, NEW m \in Nodes,
         \/ EnterColumnref(m) \/ EnterSelect_with_parens(m) \/ EnterOver_clause(m)
         \/ EnterPredicate(m) \/ EnterOther(m)
  PROVE  ComparisonsGot'
<1>1. UNCHANGED <<clause, todo, usages, subqueries>> /\ frames # << >>
  BY EnterSteps
<1>2. /\ current.walk.first \in Nat /\ current.walk.last \in Nat /\ Placed(current)
      /\ current.walk.listener \in DOMAIN RuleFor /\ Len(frames) = 1 =>
           Enumerates(current.found, ToCollect(current.walk, current.next))
      /\ Len(frames) = 2 => current.found \in Seq(ToCollect(current.walk, current.next))
  BY <1>1, CurrentPlaced, CurrentCollected
<1>3. ASSUME NEW p \in Nodes PROVE p \in Nat
  BY Numbered DEF IInv
<1>4. ASSUME NEW g, Continue(g), Steps(current, g, m),
             Comparing /\ current = frames[1] /\ Len(frames) = 1 => \A c : ~IsCompared(m, c)
      PROVE  ComparisonsGot'
  <2>1. /\ Placed(g) /\ g.walk = current.walk /\ g.next = m + 1 /\ m = current.next
        /\ m <= current.walk.last
        /\ Enumerates(current.found, ToCollect(current.walk, current.next)) =>
             Enumerates(g.found, ToCollect(g.walk, g.next))
        /\ current.found \in Seq(ToCollect(current.walk, current.next)) =>
             g.found \in Seq(ToCollect(g.walk, g.next))
        /\ g.found = IF Gathers(current.walk, m) THEN Append(current.found, m) ELSE current.found
    BY <1>2, <1>4, StepCollects DEF IInv, Steps
  <2>2. Comparing' <=> Comparing
    BY <1>1, <1>2, <1>4, <2>1, ContinueKeeps
  <2>3. ASSUME Comparing, Len(frames) = 1
        PROVE  /\ g.found = current.found
               /\ \A p, c \in Nodes : IsCompared(p, c) /\ p >= current.next => p >= g.next
    <3>1. current = frames[1]
      BY <2>3 DEF current
    <3>2. ~Gathers(current.walk, m)
      BY <2>3, <3>1 DEF Comparing, Gathers, RuleFor
    <3>3. ASSUME NEW p \in Nodes, NEW c \in Nodes, IsCompared(p, c), p >= current.next PROVE p >= g.next
      <4>1. p # m
        BY <1>4, <2>3, <3>1, <3>3
      <4> QED BY <1>3, <2>1, <3>3, <4>1
    <3> QED BY <2>1, <3>2, <3>3
  <2>4. ASSUME Comparing, Len(frames) = 2, NEW c \in Nodes, IsCompared(g.walk.first, c),
               c >= current.next \/ \E i \in DOMAIN current.found : current.found[i] = c
        PROVE  c >= g.next \/ \E i \in DOMAIN g.found : g.found[i] = c
    <3>1. IsInner(current.walk)
      BY <1>1, <2>4, CurrentPlaced
    <3>2. Gathers(current.walk, c)
      BY <2>1, <2>4, <3>1, InnerCollects DEF IInv
    <3>3. IsSeq(current.found)
      BY <1>2, <2>4 DEF IsSeq
    <3>4. CASE c = m
      <4>1. g.found = Append(current.found, m)
        BY <2>1, <3>2, <3>4
      <4>2. \E k \in DOMAIN Append(current.found, m) : Append(current.found, m)[k] = m
        BY <3>3, Appended
      <4> QED BY <3>4, <4>1, <4>2
    <3>5. CASE c # m /\ c >= current.next
      BY <1>3, <2>1, <3>5
    <3>6. ASSUME NEW i \in DOMAIN current.found, current.found[i] = c PROVE \E j \in DOMAIN g.found : g.found[j] = c
      <4>1. i \in DOMAIN Append(current.found, m) /\ Append(current.found, m)[i] = c
        BY <3>3, <3>6, Appended
      <4> QED BY <2>1, <3>6, <4>1
    <3> QED BY <2>4, <3>4, <3>5, <3>6
  <2> QED BY <1>1, <1>4, <2>1, <2>2, <2>3, <2>4, ContinueComparisons
<1>5. CASE Pushes(m)
  <2>1. PICK g : Steps(current, g, m) /\ frames' = <<g, Frame(WalkOf("columns", m, "filter"))>>
    BY <1>5 DEF Pushes
  <2> DEFINE f == Frame(WalkOf("columns", m, "filter"))
  <2>2. f.next = m /\ f.walk.first = m
    BY WalkFields DEF Frame
  <2> HIDE DEF f
  <2>3. frames' = <<g, f>>
    BY <2>1 DEF f
  <2>4. frames = <<current>> /\ Comparing
    BY <1>5 DEF Pushes
  <2>5. /\ frames[1] = current /\ Len(frames) = 1 /\ frames'[1] = g /\ frames'[2] = f /\ Len(frames') = 2
        /\ frames' # << >>
    BY <2>3, <2>4, Tuples
  <2>6. g.walk = current.walk /\ g.next = m + 1 /\ m = current.next /\ g.found = current.found
    <3>1. ~Gathers(current.walk, m)
      BY <2>4, <2>5 DEF Comparing, Gathers, RuleFor
    <3> QED BY <2>1, <3>1 DEF Steps
  <2>7. Comparing'
    BY <2>4, <2>5, <2>6 DEF Comparing
  <2>8. ASSUME NEW p \in Nodes, NEW c \in Nodes, IsCompared(p, c), Pursued(frames, p, c)
        PROVE  Pursued(frames', p, c)
    <3>1. CASE p >= m /\ p # m
      <4>1. p >= g.next
        BY <1>3, <2>6, <3>1
      <4> QED BY <2>5, <4>1 DEF Pursued
    <3>2. CASE p = m
      <4>1. c >= f.next
        BY <2>2, <2>8, <3>2, BelowNode DEF IInv, IsCompared
      <4> QED BY <2>2, <2>5, <3>2, <4>1 DEF Pursued
    <3>3. CASE HasKey(current.found, Comparison(p, c))
      BY <2>5, <2>6, <3>3 DEF Pursued
    <3> QED BY <2>5, <2>6, <2>8, <3>1, <3>2, <3>3 DEF Pursued
  <2>9. \A p, c \in Nodes : IsCompared(p, c) => (Known(p, c) => Known(p, c)')
    BY <1>1, <2>7, <2>8, KnownStays
  <2>10. clause.kind \in Conditions => \A i \in DOMAIN frames'[1].found : IsComparison(frames'[1].found[i])
    BY <2>4, <2>5, <2>6 DEF ComparisonsGot
  <2> QED BY <1>1, <2>9, <2>10, ComparisonsKept
<1> QED BY <1>4, <1>5, EnterSteps

(* The comparisons of a predicate that the walk over it is done with. *)
LEMMA HeadOrTail ==
  ASSUME NEW s, IsSeq(s), s # << >>, NEW i \in DOMAIN s
  PROVE  s[i] = Head(s) \/ \E j \in DOMAIN Tail(s) : Tail(s)[j] = s[i]
<1>1. PICK S : s \in Seq(S)
  BY DEF IsSeq
<1>2. i # 1 => i - 1 \in DOMAIN Tail(s) /\ Tail(s)[i - 1] = s[i]
  BY <1>1
<1>3. s[1] = Head(s)
  BY <1>1
<1> QED BY <1>2, <1>3

LEMMA RecordComparisonGot ==
  ASSUME IInv, WellFormed, Walks, Collected, Ordered, ComparisonsGot, RecordComparison
  PROVE  ComparisonsGot'
<1> DEFINE p0 == current.walk.first
           h  == Head(current.found)
<1>1. /\ UNCHANGED <<clause, todo, usages, subqueries>> /\ Len(frames) = 2
      /\ frames = <<frames[1], current>> /\ IsInner(current.walk) /\ Over(current)
      /\ IsWalk(frames[1].walk) /\ Comparing /\ IsFrame(frames[1]) /\ Placed(frames[1])
  BY RecordComparisonCases
<1>2. frames # << >> /\ frames[1].walk.listener = "comparisons" /\ frames[2] = current
      /\ clause.kind \in Conditions
  <2>1. clause.kind \in Conditions
    BY <1>1, WalkKinds
  <2> QED BY <1>1, <2>1 DEF Comparing, current
<1>3. /\ IsFrame(current) /\ Placed(current) /\ current.found \in Seq(ToCollect(current.walk, current.next))
      /\ current.walk.first \in Nat /\ current.walk.last \in Nat
  BY <1>1, <1>2, CurrentPlaced, CurrentCollected
<1>4. IsSeq(current.found) /\ IsSeq(frames[1].found)
  <2>1. FoundOK(frames[1])
    BY <1>1, <1>2, CurrentPlaced
  <2> QED BY <1>3, <2>1 DEF IsSeq, FoundOK
<1>5. \A c \in Nodes : IsCompared(p0, c) => ~(c >= current.next)
  <2> SUFFICES ASSUME NEW c \in Nodes, IsCompared(p0, c) PROVE ~(c >= current.next)
    OBVIOUS
  <2>1. c \in current.walk.first..current.walk.last
    BY <1>1, InnerCollects DEF IInv
  <2> QED BY <1>1, <1>3, <2>1 DEF Over
<1>6. \A i \in DOMAIN frames[1].found : IsComparison(frames[1].found[i])
  BY <1>1, <1>2 DEF ComparisonsGot
<1>7. CASE current.found = << >> /\ frames' = <<frames[1]>>
  <2>1. PICK f : f = frames[1]
    OBVIOUS
  <2>2. frames' = <<f>> /\ frames'[1] = f /\ Len(frames') = 1 /\ frames' # << >>
    BY <1>7, <2>1, Tuples
  <2>3. Comparing'
    BY <1>2, <2>1, <2>2 DEF Comparing
  <2>4. ASSUME NEW p \in Nodes, NEW c \in Nodes, IsCompared(p, c), Pursued(frames, p, c)
        PROVE  Pursued(frames', p, c)
    <3>1. ~(Len(frames) = 2 /\ frames[2].walk.first = p
            /\ (c >= frames[2].next \/ \E i \in DOMAIN frames[2].found : frames[2].found[i] = c))
      BY <1>2, <1>5, <1>7, <2>4, Tuples
    <3> QED BY <2>1, <2>2, <2>4, <3>1 DEF Pursued
  <2>5. \A p, c \in Nodes : IsCompared(p, c) => (Known(p, c) => Known(p, c)')
    BY <1>1, <2>3, <2>4, KnownStays
  <2>6. \A i \in DOMAIN frames'[1].found : IsComparison(frames'[1].found[i])
    BY <1>6, <2>1, <2>2
  <2> QED BY <1>1, <2>5, <2>6, ComparisonsKept
<1>8. ASSUME current.found # << >>, Seen(current, h), NEW g, g = [current EXCEPT !.found = Tail(@)], Continue(g)
      PROVE  ComparisonsGot'
  <2>1. Placed(g) /\ g.walk = current.walk /\ g.next = current.next /\ g.found = Tail(current.found)
        /\ g.found \in Seq(ToCollect(g.walk, g.next))
    BY <1>3, <1>8, TailFrame
  <2>2. Continue(g) /\ Len(frames) # 1
    BY <1>1, <1>8
  <2>3. Comparing' <=> Comparing
    BY <1>1, <1>2, <2>1, <2>2, ContinueKeeps
  <2>4. PICK i \in DOMAIN frames[1].found :
          frames[1].found[i].context = p0 /\ Words(frames[1].found[i].column) = Words(h)
    BY <1>8 DEF Seen, PredicateOf
  <2>5. PICK p, c : frames[1].found[i] = Comparison(p, c)
    BY <1>6 DEF IsComparison
  <2>6. p = p0 /\ Words(c) = Words(h)
    BY <2>4, <2>5 DEF Comparison, Usage
  <2>7. ComparisonKey(frames[1].found[i]) = ComparisonKey(Comparison(p0, h))
    BY <2>5, <2>6 DEF ComparisonKey, Comparison, Usage
  <2>8. HasKey(frames[1].found, Comparison(p0, h))
    BY <2>7 DEF HasKey
  <2>9. ASSUME NEW c1 \in Nodes, IsCompared(p0, c1),
               c1 >= current.next \/ \E j \in DOMAIN current.found : current.found[j] = c1
        PROVE  HasKey(frames[1].found, Comparison(p0, c1)) \/ \E j \in DOMAIN g.found : g.found[j] = c1
    <3>1. PICK j \in DOMAIN current.found : current.found[j] = c1
      BY <1>5, <2>9
    <3>2. c1 = h \/ \E k \in DOMAIN g.found : g.found[k] = c1
      BY <1>4, <1>8, <2>1, <3>1, HeadOrTail
    <3> QED BY <2>8, <3>2
  <2> QED BY <1>1, <1>2, <2>1, <2>2, <2>3, <2>9, ContinueComparisons
<1>9. ASSUME current.found # << >>, NEW f, f = [frames[1] EXCEPT !.found = Append(@, Compared(current, h))],
             NEW g, g = [current EXCEPT !.found = Tail(@)], frames' = <<f, g>>
      PROVE  ComparisonsGot'
  <2>1. g.walk = current.walk /\ g.next = current.next /\ g.found = Tail(current.found)
    BY <1>3, <1>9, TailFrame
  <2>2. Compared(current, h) = Comparison(p0, h)
    BY DEF Compared, PredicateOf, Comparison
  <2>3. f.walk = frames[1].walk /\ f.next = frames[1].next
        /\ f.found = Append(frames[1].found, Comparison(p0, h))
    BY <1>1, <1>9, <2>2 DEF IsFrame
  <2>4. IsCompared(p0, h) /\ h \in Nodes /\ p0 \in Nodes
    <3>1. h \in ToCollect(current.walk, current.next)
      BY <1>3, <1>9
    <3>2. h \in Nodes /\ Gathers(current.walk, h) /\ h \in current.walk.first..current.next - 1
      BY <3>1 DEF ToCollect
    <3>3. h \in current.walk.first..current.walk.last
      BY <1>1, <1>3, <3>2 DEF Over
    <3> QED BY <1>1, <3>2, <3>3, InnerCollects DEF IInv, IsCompared
  <2>5. IsComparison(Comparison(p0, h))
    BY <2>4 DEF IsComparison
  <2>6. frames'[1] = f /\ frames'[2] = g /\ Len(frames') = 2 /\ frames' # << >>
    BY <1>9, Tuples
  <2>7. Comparing'
    BY <1>2, <2>3, <2>6 DEF Comparing
  <2>8. /\ \E k \in DOMAIN f.found : f.found[k] = Comparison(p0, h)
        /\ \A i \in DOMAIN frames[1].found : i \in DOMAIN f.found /\ f.found[i] = frames[1].found[i]
    BY <1>4, <2>3, Appended
  <2>9. ASSUME NEW p \in Nodes, NEW c \in Nodes, IsCompared(p, c), Pursued(frames, p, c)
        PROVE  Pursued(frames', p, c)
    <3>1. CASE p >= frames[1].next
      BY <2>3, <2>6, <3>1 DEF Pursued
    <3>2. CASE HasKey(frames[1].found, Comparison(p, c))
      <4>1. HasKey(f.found, Comparison(p, c))
        BY <2>8, <3>2 DEF HasKey
      <4> QED BY <2>6, <4>1 DEF Pursued
    <3>3. CASE current.walk.first = p /\ c >= current.next
      BY <1>5, <2>9, <3>3
    <3>4. ASSUME current.walk.first = p, NEW j \in DOMAIN current.found, current.found[j] = c
          PROVE  Pursued(frames', p, c)
      <4>1. c = h \/ \E k \in DOMAIN g.found : g.found[k] = c
        BY <1>4, <1>9, <2>1, <3>4, HeadOrTail
      <4>2. CASE c = h
        <5>1. HasKey(f.found, Comparison(p, c))
          BY <2>8, <3>4, <4>2 DEF HasKey
        <5> QED BY <2>6, <5>1 DEF Pursued
      <4>3. CASE \E k \in DOMAIN g.found : g.found[k] = c
        BY <2>1, <2>6, <3>4, <4>3 DEF Pursued
      <4> QED BY <4>1, <4>2, <4>3
    <3> QED BY <1>2, <2>9, <3>1, <3>2, <3>3, <3>4 DEF Pursued
  <2>10. \A p, c \in Nodes : IsCompared(p, c) => (Known(p, c) => Known(p, c)')
    BY <1>1, <2>7, <2>9, KnownStays
  <2>11. \A i \in DOMAIN frames'[1].found : IsComparison(frames'[1].found[i])
    BY <1>4, <1>6, <2>3, <2>5, <2>6, AppendAll
  <2> QED BY <1>1, <2>10, <2>11, ComparisonsKept
<1> QED BY <1>7, <1>8, <1>9, RecordComparisonCases

(* What has been compared is recorded. *)
LEMMA RecordComparisonsGot ==
  ASSUME IInv, WellFormed, Walks, Collected, Ordered, ComparisonsGot, RecordComparisons
  PROVE  ComparisonsGot'
<1>1. /\ frames # << >> /\ Len(frames) = 1 /\ frames = <<current>> /\ current = frames[1]
      /\ IsWalk(current.walk) /\ current.walk.listener = "comparisons" /\ Over(current)
      /\ IsFrame(current) /\ Placed(current) /\ Front(frames) = << >> /\ UNCHANGED <<clause, todo>>
  BY EndsOuter DEF RecordComparisons
<1>2. Comparing /\ clause.kind \in Conditions /\ current.walk.first = 1 /\ current.walk.last = clause.last[1]
  BY <1>1, WalkKinds DEF IsWalk, Comparing
<1>3. IsSeq(current.found) /\ IsSeq(usages)
  BY <1>1, CurrentPlaced DEF FoundOK, IInv
<1>4. \A p \in Nodes : ~(p >= current.next)
  <2>1. clause.last[1] = Len(clause.last)
    BY <1>2 DEF WellFormed, IsClause, Conditions
  <2>2. Nodes = 1..Len(clause.last) /\ Len(clause.last) \in Nat
    BY Numbered DEF IInv
  <2> QED BY <1>1, <1>2, <2>1, <2>2 DEF Over
<1>5. \A p, c : Pursued(frames, p, c) => p >= current.next \/ HasKey(current.found, Comparison(p, c))
  BY <1>1 DEF Pursued
<1>6. \A i \in DOMAIN current.found : IsComparison(current.found[i])
  BY <1>1, <1>2 DEF ComparisonsGot
<1>7. CASE current.found = << >>
  <2>1. frames' = << >> /\ usages' = usages
    BY <1>1, <1>7 DEF RecordComparisons
  <2>2. ~Comparing'
    BY <2>1 DEF Comparing
  <2>3. \A p, c \in Nodes : ~Pursued(frames, p, c)
    <3>1. \A p, c : ~HasKey(current.found, Comparison(p, c))
      BY <1>7, Tuples DEF HasKey
    <3> QED BY <1>4, <1>5, <3>1
  <2>4. \A p, c \in Nodes : IsCompared(p, c) => (Known(p, c) => Known(p, c)')
    BY <1>1, <2>1, <2>3, KnownStays
  <2> QED BY <1>1, <2>1, <2>2, <2>4, ComparisonsKept
<1>8. CASE current.found # << >>
  <2>1. PICK g : g = [current EXCEPT !.found = Tail(@)]
    OBVIOUS
  <2>2. PICK h : h = Head(current.found)
    OBVIOUS
  <2>3. Continue(g) /\ usages' = IF HasKey(usages, h) THEN usages ELSE Append(usages, h)
    BY <1>8, <2>1, <2>2 DEF RecordComparisons, Take, HasKey
  <2>4. g.walk = current.walk /\ g.next = current.next /\ g.found = Tail(current.found)
    BY <1>1, <1>8, <2>1, TailFrame
  <2>5. frames' = <<g>>
    BY <1>1, <2>3, ContinueFrames
  <2>6. frames'[1] = g /\ frames' # << >> /\ Len(frames') = 1
    BY <2>5, Tuples
  <2>7. Comparing'
    BY <1>1, <2>4, <2>6 DEF Comparing
  <2>8. IsComparison(h)
    BY <1>3, <1>6, <1>8, <2>2, TailAll
  <2>9. (\A i \in DOMAIN usages' : IsComparison(usages'[i]))
        /\ (\A i, j \in DOMAIN usages' : ComparisonKey(usages'[i]) = ComparisonKey(usages'[j]) => i = j)
        /\ HasKey(usages', h) /\ \A u : HasKey(usages, u) => HasKey(usages', u)
    <3>1. /\ \A i \in DOMAIN usages : IsComparison(usages[i])
          /\ \A i, j \in DOMAIN usages : ComparisonKey(usages[i]) = ComparisonKey(usages[j]) => i = j
      BY <1>2 DEF ComparisonsGot
    <3>2. CASE HasKey(usages, h)
      BY <2>3, <3>1, <3>2
    <3>3. CASE ~HasKey(usages, h)
      <4>1. usages' = Append(usages, h)
        BY <2>3, <3>3
      <4>2. /\ \A i \in DOMAIN usages' : (i \in DOMAIN usages /\ usages'[i] = usages[i]) \/ usages'[i] = h
            /\ \A i \in DOMAIN usages : i \in DOMAIN usages' /\ usages'[i] = usages[i]
            /\ \E i \in DOMAIN usages' : usages'[i] = h
        BY <1>3, <4>1, AppendAll, Appended
      <4>3. \A i, j \in DOMAIN usages' : i \notin DOMAIN usages /\ j \notin DOMAIN usages => i = j
        <5>1. PICK S : usages \in Seq(S)
          BY <1>3 DEF IsSeq
        <5>2. PICK R : R = S \cup {h}
          OBVIOUS
        <5>3. usages \in Seq(R) /\ h \in R
          BY <5>1, <5>2
        <5>4. DOMAIN usages = 1..Len(usages) /\ DOMAIN usages' = 1..Len(usages) + 1 /\ Len(usages) \in Nat
          BY <4>1, <5>3
        <5> QED BY <5>4
      <4>4. \A i \in DOMAIN usages : ComparisonKey(usages[i]) # ComparisonKey(h)
        BY <3>3 DEF HasKey
      <4>5. \A i \in DOMAIN usages' : i \notin DOMAIN usages => usages'[i] = h
        BY <4>2
      <4>6. ASSUME NEW i \in DOMAIN usages', NEW j \in DOMAIN usages',
                   ComparisonKey(usages'[i]) = ComparisonKey(usages'[j])
            PROVE  i = j
        BY <3>1, <4>2, <4>3, <4>4, <4>5, <4>6
      <4>7. \A i \in DOMAIN usages' : IsComparison(usages'[i])
        BY <2>8, <3>1, <4>2
      <4>8. HasKey(usages', h) /\ \A u : HasKey(usages, u) => HasKey(usages', u)
        BY <4>2 DEF HasKey
      <4> QED BY <4>6, <4>7, <4>8
    <3> QED BY <3>2, <3>3
  <2>10. /\ (\A i \in DOMAIN usages : IsComparison(usages[i]))'
        /\ (\A i, j \in DOMAIN usages : ComparisonKey(usages[i]) = ComparisonKey(usages[j]) => i = j)'
    BY <1>1, <2>9, ComparisonsStay
  <2>11. \A i \in DOMAIN g.found : IsComparison(g.found[i])
    BY <1>3, <1>6, <1>8, <2>4, TailAll
  <2>12. (Comparing => \A i \in DOMAIN frames[1].found : IsComparison(frames[1].found[i]))'
    BY <1>1, <2>6, <2>11, ComparisonsStay
  <2>13. ASSUME NEW p \in Nodes, NEW c \in Nodes, Known(p, c) PROVE Known(p, c)'
    <3>1. PICK u : u = Comparison(p, c)
      OBVIOUS
    <3>2. u = Comparison(p, c)' /\ (HasKey(usages, u)' <=> HasKey(usages', u))
      BY <1>1, <3>1, ComparisonsStay
    <3>3. CASE \E i \in DOMAIN todo : todo[i].listener = "comparisons"
      BY <1>1, <3>3 DEF Known
    <3>4. CASE HasKey(usages, u)
      <4>1. HasKey(usages', u)
        BY <2>9, <3>4
      <4> QED BY <3>2, <4>1 DEF Known
    <3>5. ASSUME NEW i \in DOMAIN current.found, ComparisonKey(current.found[i]) = ComparisonKey(u)
          PROVE  Known(p, c)'
      <4>1. current.found[i] = h \/ \E j \in DOMAIN g.found : g.found[j] = current.found[i]
        BY <1>3, <1>8, <2>2, <2>4, HeadOrTail
      <4>2. CASE current.found[i] = h
        <5>1. HasKey(usages', u)
          BY <2>9, <3>5, <4>2 DEF HasKey
        <5> QED BY <3>2, <5>1 DEF Known
      <4>3. CASE \E j \in DOMAIN g.found : g.found[j] = current.found[i]
        <5>1. HasKey(g.found, u)
          BY <3>5, <4>3 DEF HasKey
        <5>2. HasKey(g.found, u)' /\ frames'[1] = g
          BY <1>1, <2>6, <5>1, ComparisonsStay
        <5> QED BY <2>7, <3>2, <5>2 DEF Known, Pursued
      <4> QED BY <4>1, <4>2, <4>3
    <3> QED BY <1>4, <1>5, <2>13, <3>1, <3>3, <3>4, <3>5 DEF Known, HasKey
  <2>14. (\A p, c \in Nodes : IsCompared(p, c) => Known(p, c))'
    BY <1>1, <1>2, <2>13, ComparisonsStay, WalksStay DEF ComparisonsGot
  <2> QED BY <2>10, <2>12, <2>14 DEF ComparisonsGot
<1> QED BY <1>7, <1>8

(* What the other steps leave as it is. *)
LEMMA NothingRecorded ==
  ASSUME JInv, UNCHANGED <<clause, usages, subqueries>>, Walks', Collected', Ordered', Ahead' = Ahead,
         ComparisonsGot'
  PROVE  JInv'
<1>1. WellFormed' /\ SubqueriesGot(subqueries, Ahead)' /\ ColumnsGot(usages, Ahead)' /\ WindowsGot(usages, Ahead)'
  BY WalksStay, RecordsStay DEF JInv
<1>2. NothingElse'
  BY DEF JInv, NothingElse
<1> QED BY <1>1, <1>2 DEF JInv

LEMMA RecordComparisonsStays ==
  ASSUME IInv, JInv, RecordComparisons
  PROVE  JInv'
<1>1. /\ WellFormed /\ Walks /\ Collected /\ Ordered
      /\ SubqueriesGot(subqueries, Ahead) /\ ColumnsGot(usages, Ahead) /\ WindowsGot(usages, Ahead)
      /\ ComparisonsGot /\ NothingElse
  BY DEF JInv
<1>2. /\ frames # << >> /\ Len(frames) = 1 /\ current = frames[1]
      /\ IsWalk(current.walk) /\ current.walk.listener = "comparisons"
      /\ Front(frames) = << >> /\ UNCHANGED <<clause, todo, subqueries>>
  BY <1>1, EndsOuter DEF RecordComparisons
<1>3. clause.kind \in Conditions
  BY <1>1, <1>2, WalkKinds DEF IsWalk
<1>4. ComparisonsGot'
  BY <1>1, RecordComparisonsGot
<1>5. Walks' /\ Collected' /\ Ordered' /\ \A v : v.listener = "subqueries" => (v \in Ahead <=> v \in Ahead')
  <2>1. CASE current.found = << >>
    <3>1. frames' = << >>
      BY <1>2, <2>1 DEF RecordComparisons
    <3>2. Walks' /\ Collected' /\ Ordered' /\ Finishes(current.walk, Ahead, Ahead')
      BY <1>1, <1>2, <3>1, OuterEnds
    <3> QED BY <1>2, <3>2 DEF Finishes
  <2>2. CASE current.found # << >>
    BY <1>1, <2>2, RecordComparisonsKeeps
  <2> QED BY <2>1, <2>2
<1>6. SubqueriesGot(subqueries, Ahead')
  BY <1>1, <1>5, OtherSubqueries
<1>7. ColumnsGot(usages', Ahead')
  BY <1>3 DEF ColumnsGot, Conditions, RoleOfClause
<1>8. WindowsGot(usages', Ahead')
  <2>1. \A m \in Nodes : Rule(m) \notin WindowParts
    BY <1>1, <1>3, PartOfWindow DEF Conditions, IInv
  <2> QED BY <2>1 DEF WindowsGot
<1>9. WellFormed' /\ SubqueriesGot(subqueries, Ahead)' /\ ColumnsGot(usages, Ahead)' /\ WindowsGot(usages, Ahead)'
  BY <1>1, <1>2, <1>6, <1>7, <1>8, WalksStay, RecordsStay
<1>10. NothingElse'
  BY <1>2, <1>3 DEF NothingElse
<1> QED BY <1>4, <1>5, <1>9, <1>10 DEF JInv

LEMMA StillRecorded ==
  ASSUME IInv, JInv, [Next]_vars
  PROVE  JInv'
<1>1. WellFormed /\ Walks /\ Collected /\ Ordered /\ ComparisonsGot
  BY DEF JInv
<1>2. CASE BeginWalk
  <2>1. UNCHANGED <<clause, usages, subqueries>>
    BY <1>2 DEF BeginWalk
  <2>2. Walks' /\ Collected' /\ Ordered' /\ Ahead' = Ahead
    BY <1>1, <1>2, BeginWalkKeeps
  <2>3. ComparisonsGot'
    BY <1>1, <1>2, BeginComparisons
  <2> QED BY <2>1, <2>2, <2>3, NothingRecorded
<1>3. CASE Enter
  <2>1. PICK m \in Nodes :
          \/ EnterColumnref(m) \/ EnterSelect_with_parens(m) \/ EnterOver_clause(m)
          \/ EnterPredicate(m) \/ EnterOther(m)
    BY <1>3 DEF Enter
  <2>2. UNCHANGED <<clause, usages, subqueries>>
    BY <1>1, <2>1, EnterSteps
  <2>3. Walks' /\ Collected' /\ Ordered' /\ Ahead' = Ahead
    BY <1>1, <2>1, EnterKeeps
  <2>4. ComparisonsGot'
    BY <1>1, <2>1, EnterComparisons
  <2> QED BY <2>2, <2>3, <2>4, NothingRecorded
<1>4. ASSUME NEW m \in Nodes, Exit(m) PROVE JInv'
  <2>1. UNCHANGED <<clause, usages, subqueries>>
    BY <1>4 DEF Exit
  <2>2. Walks' /\ Collected' /\ Ordered' /\ Ahead' = Ahead
    BY <1>1, <1>4, ExitKeeps
  <2>3. ComparisonsGot'
    BY <1>1, <1>4, ExitComparisons
  <2> QED BY <2>1, <2>2, <2>3, NothingRecorded
<1>5. CASE RecordComparison
  <2>1. UNCHANGED <<clause, usages, subqueries>>
    BY <1>5 DEF RecordComparison
  <2>2. Walks' /\ Collected' /\ Ordered' /\ Ahead' = Ahead
    BY <1>1, <1>5, RecordComparisonKeeps
  <2>3. ComparisonsGot'
    BY <1>1, <1>5, RecordComparisonGot
  <2> QED BY <2>1, <2>2, <2>3, NothingRecorded
<1>6. CASE UNCHANGED vars
  <2>1. UNCHANGED <<clause, todo, frames, usages, subqueries>>
    BY <1>6 DEF vars
  <2>2. current' = current /\ Outer' = Outer /\ Ahead' = Ahead /\ (Comparing' <=> Comparing)
    BY <2>1 DEF current, Outer, Ahead, Comparing
  <2>3. Walks'
    <3>1. /\ \A f : Placed(f)' <=> Placed(f)
          /\ IsSeq(todo)' <=> IsSeq(todo)
      BY <2>1 DEF Placed, IsSeq
    <3> QED BY <1>1, <2>1, <3>1, WalksStay DEF Walks
  <2>4. Collected'
    BY <1>1, <2>1, WalksStay DEF Collected
  <2>5. Ordered'
    <3>1. \A x, y : Before(x, y)' <=> Before(x, y)
      BY DEF Before
    <3> QED BY <1>1, <2>1, <2>2, <3>1 DEF Ordered
  <2>6. ComparisonsGot'
    <3>1. \A p, c \in Nodes : IsCompared(p, c) => (Known(p, c) => Known(p, c)')
      BY <2>1, <2>2, KnownStays
    <3>2. clause.kind \in Conditions =>
            (Comparing' => \A i \in DOMAIN frames'[1].found : IsComparison(frames'[1].found[i]))
      BY <1>1, <2>1, <2>2 DEF ComparisonsGot
    <3> QED BY <1>1, <2>1, <3>1, <3>2, ComparisonsKept
  <2> QED BY <2>1, <2>2, <2>3, <2>4, <2>5, <2>6, NothingRecorded
<1> QED BY <1>2, <1>3, <1>4, <1>5, <1>6, RecordUsageKeeps, RecordComparisonsStays, RecordSubqueriesKeeps,
           RecordWindowsKeeps DEF Next

(* The walks a clause starts with: every expression has those of its clause. *)
Complete(walks) ==
  /\ IsSeq(walks)
  /\ \A i \in DOMAIN walks : IsWalk(walks[i]) /\ walks[i].role \notin WindowRoles
  /\ \A i, j \in DOMAIN walks : i < j => Before(walks[i], walks[j])
  /\ \A i \in DOMAIN walks : walks[i].listener = "windows" => i = Len(walks)
  /\ clause.kind \in Listed =>
       \A p : IsTop(p) => \E i \in DOMAIN walks : walks[i] = WalkOf("subqueries", p, "none")
  /\ clause.kind \in DOMAIN RoleOfClause =>
       \A p : IsTop(p) => \E i \in DOMAIN walks : walks[i] = WalkOf("columns", p, RoleOfClause[clause.kind])
  /\ clause.kind = "target_list" => \E i \in DOMAIN walks : walks[i].listener = "windows"
  /\ clause.kind \in Conditions => \E i \in DOMAIN walks : walks[i].listener = "comparisons"

LEMMA NoneSettled ==
  ASSUME Tree, WellFormed, NEW l, NEW r, NEW a, \A p : IsTop(p) => WalkOf(l, p, r) \in a
  PROVE  Settled(l, r, a) = {} /\ SettledFirst(l, r, a)
<1>1. ASSUME NEW m \in Settled(l, r, a) PROVE FALSE
  <2>1. m \in Nodes /\ \A w \in a : w.listener = l /\ w.role = r => m \notin w.first..w.last
    BY DEF Settled
  <2>2. PICK p \in Nodes : IsTop(p) /\ m \in Below(p)
    BY <2>1, UnderTop
  <2>3. PICK w : w = WalkOf(l, p, r)
    OBVIOUS
  <2>4. w \in a /\ w.listener = l /\ w.role = r /\ w.first = p /\ w.last = clause.last[p]
    BY <2>2, <2>3, WalkFields
  <2> QED BY <2>1, <2>2, <2>4 DEF Below
<1> QED BY <1>1 DEF SettledFirst

LEMMA Fresh ==
  ASSUME Tree, WellFormed, Complete(todo), frames = << >>, usages = << >>, subqueries = << >>
  PROVE  JInv
<1>1. Len(frames) = 0 /\ DOMAIN frames = {} /\ DOMAIN usages = {} /\ Outer = {}
  BY Tuples DEF Outer
<1>2. Ahead = {todo[i] : i \in DOMAIN todo}
  BY <1>1 DEF Ahead
<1>3. Walks /\ Collected
  BY <1>1 DEF Walks, Collected, Complete
<1>4. Ordered
  BY <1>1, <1>2 DEF Ordered, Complete
<1>5. SubqueriesGot(subqueries, Ahead)
  <2> SUFFICES ASSUME clause.kind \in Listed PROVE SubqueriesGot(subqueries, Ahead)
    BY DEF SubqueriesGot
  <2>1. \A p : IsTop(p) => WalkOf("subqueries", p, "none") \in Ahead
    BY <1>2 DEF Complete
  <2>2. Settled("subqueries", "none", Ahead) = {} /\ SettledFirst("subqueries", "none", Ahead)
    BY <2>1, NoneSettled
  <2>3. Enumerates(<< >>, {})
    BY DEF Enumerates
  <2> QED BY <2>2, <2>3 DEF SubqueriesGot
<1>6. ColumnsGot(usages, Ahead)
  <2> SUFFICES ASSUME clause.kind \in DOMAIN RoleOfClause PROVE ColumnsGot(usages, Ahead)
    BY DEF ColumnsGot
  <2>1. PICK role : role = RoleOfClause[clause.kind]
    OBVIOUS
  <2>2. \A p : IsTop(p) => WalkOf("columns", p, role) \in Ahead
    BY <1>2, <2>1 DEF Complete
  <2>3. Settled("columns", role, Ahead) = {} /\ SettledFirst("columns", role, Ahead)
    BY <2>2, NoneSettled
  <2>4. PlacesOf(usages, role) = {}
    BY <1>1 DEF PlacesOf
  <2> QED BY <2>1, <2>3, <2>4 DEF ColumnsGot, ColumnsAre
<1>7. WindowsGot(usages, Ahead)
  <2> SUFFICES ASSUME NEW part \in Nodes, Rule(part) \in WindowParts
               PROVE  PlacesIn(usages, part) = {} /\ \E w \in Ahead : w.listener = "windows"
    BY DEF WindowsGot
  <2>1. clause.kind = "target_list"
    BY PartOfWindow
  <2> QED BY <1>1, <1>2, <2>1 DEF PlacesIn, Complete
<1>8. ComparisonsGot
  <2>1. ~Comparing
    BY DEF Comparing
  <2>2. clause.kind \in Conditions => \A p, c : Known(p, c)
    BY DEF Known, Complete
  <2> QED BY <1>1, <2>1, <2>2 DEF ComparisonsGot
<1>9. NothingElse
  BY <1>1 DEF NothingElse
<1> QED BY <1>3, <1>4, <1>5, <1>6, <1>7, <1>8, <1>9 DEF JInv

-------------------------------------------------------------------------------
LEMMA ItemsInOrder ==
  ASSUME Tree, WellFormed, NEW items, items = Items
  PROVE  /\ DOMAIN items = 1..Len(items) /\ Len(items) \in Nat
         /\ \A i \in DOMAIN items : IsTop(items[i])
         /\ \A i, j \in DOMAIN items : i < j => clause.last[items[i]] < items[j]
         /\ \A p : IsTop(p) => \E i \in DOMAIN items : items[i] = p
<1> DEFINE T == {m \in Nodes : Above(clause.last, m) = {}}
<1>1. T \in SUBSET (1..Len(clause.last)) /\ Len(clause.last) \in Nat
  BY Numbered
<1>2. \A p : p \in T <=> IsTop(p)
  BY DEF IsTop
<1>3. items = FromLeast(T)
  BY DEF Items
<1> HIDE DEF T
<1>4. Enumerates(items, T)
  BY <1>1, <1>3, Enumeration
<1>5. /\ DOMAIN items = 1..Len(items) /\ Len(items) \in Nat
      /\ \A i \in DOMAIN items : items[i] \in T
      /\ \A i, j \in DOMAIN items : i < j => items[i] < items[j]
      /\ \A p \in T : \E i \in DOMAIN items : items[i] = p
  BY <1>4 DEF Enumerates
<1>6. ASSUME NEW i \in DOMAIN items, NEW j \in DOMAIN items, i < j PROVE clause.last[items[i]] < items[j]
  BY <1>2, <1>5, <1>6, TopsApart
<1> QED BY <1>2, <1>5, <1>6

LEMMA ListsComplete ==
  ASSUME Tree, WellFormed, clause.kind \in {"group_clause", "order_clause"},
         NEW role, role = RoleOfClause[clause.kind]
  PROVE  Complete(ListWalks(Items, role))
<1>1. PICK items : items = Items
  OBVIOUS
<1>2. /\ DOMAIN items = 1..Len(items) /\ Len(items) \in Nat
      /\ \A i \in DOMAIN items : IsTop(items[i])
      /\ \A i, j \in DOMAIN items : i < j => clause.last[items[i]] < items[j]
      /\ \A p : IsTop(p) => \E i \in DOMAIN items : items[i] = p
  BY <1>1, ItemsInOrder
<1>3. PICK walks : walks = ListWalks(Items, role)
  OBVIOUS
<1>4. walks = [i \in 1..Len(items) |-> WalkOf("columns", items[i], role)]
  BY <1>1, <1>2, <1>3 DEF ListWalks
<1>5. DOMAIN walks = DOMAIN items /\ \A i \in DOMAIN items : walks[i] = WalkOf("columns", items[i], role)
  BY <1>2, <1>4
<1>6. IsSeq(walks)
  <2>1. walks \in Seq({walks[i] : i \in 1..Len(items)})
    BY <1>2, <1>4
  <2> QED BY <2>1 DEF IsSeq
<1>7. clause.kind \in DOMAIN RoleOfClause /\ role \in {"group", "order"} /\ clause.kind \notin Listed
      /\ clause.kind \notin Conditions
  BY DEF RoleOfClause, Listed, Conditions
<1>8. ASSUME NEW i \in DOMAIN walks
      PROVE  /\ IsWalk(walks[i]) /\ walks[i].role = role /\ walks[i].listener = "columns"
             /\ walks[i].first = items[i] /\ walks[i].last = clause.last[items[i]]
  <2>1. ListWalk(walks[i])
    BY <1>2, <1>5, <1>7 DEF ListWalk
  <2>2. walks[i] = WalkOf("columns", items[i], role)
    BY <1>5
  <2> QED BY <2>1, <2>2, WalkFields DEF IsWalk
<1>9. \A i, j \in DOMAIN walks : i < j => Before(walks[i], walks[j])
  BY <1>2, <1>5, <1>7, <1>8 DEF Before, WindowRoles
<1>10. \A p : IsTop(p) => \E i \in DOMAIN walks : walks[i] = WalkOf("columns", p, role)
  BY <1>2, <1>5
<1>11. Complete(walks)
  BY <1>6, <1>7, <1>8, <1>9, <1>10 DEF Complete, WindowRoles
<1> QED BY <1>3, <1>11

LEMMA ConditionsComplete ==
  ASSUME Tree, WellFormed, clause.kind \in Conditions
  PROVE  Complete(ConditionWalks)
<1>1. PICK v, w : v = WalkOf("subqueries", 1, "none") /\ w = WalkOf("comparisons", 1, "filter")
  OBVIOUS
<1>2. ConditionWalks = <<v, w>>
  BY <1>1 DEF ConditionWalks
<1>3. /\ v.listener = "subqueries" /\ v.role = "none" /\ w.listener = "comparisons" /\ w.role = "filter"
  BY <1>1, WalkFields
<1>4. IsTop(1) /\ \A p : IsTop(p) => p = 1
  <2>1. Nodes = 1..Len(clause.last) /\ Len(clause.last) \in Nat /\ 1 \in Nodes
    BY Numbered DEF WellFormed
  <2>2. clause.last[1] = Len(clause.last)
    BY DEF WellFormed, IsClause, Conditions
  <2>3. IsTop(1)
    BY <2>1 DEF IsTop, Above
  <2>4. ASSUME NEW p, IsTop(p), p # 1 PROVE FALSE
    <3>1. p \in Nodes /\ Above(clause.last, p) = {}
      BY <2>4 DEF IsTop
    <3>2. 1 \in 1..p - 1 /\ clause.last[1] >= p
      BY <2>1, <2>2, <2>4, <3>1
    <3> QED BY <3>1, <3>2 DEF Above
  <2> QED BY <2>3, <2>4
<1>5. SubqueryWalk(v) /\ ComparisonWalk(w)
  <2>1. clause.kind \in Listed
    BY DEF Conditions, Listed
  <2> QED BY <1>1, <1>4, <2>1 DEF SubqueryWalk, ComparisonWalk
<1>6. <<v, w>> \in Seq({v, w}) /\ Len(<<v, w>>) = 2 /\ DOMAIN <<v, w>> = {1, 2}
      /\ <<v, w>>[1] = v /\ <<v, w>>[2] = w
  OBVIOUS
<1>7. Before(v, w)
  BY <1>3 DEF Before
<1>8. clause.kind \notin DOMAIN RoleOfClause /\ clause.kind # "target_list"
  BY DEF Conditions, RoleOfClause
<1>9. PICK walks : walks = <<v, w>>
  OBVIOUS
<1>10. IsSeq(walks) /\ DOMAIN walks = {1, 2} /\ walks[1] = v /\ walks[2] = w
  BY <1>6, <1>9 DEF IsSeq
<1>11. \A i \in DOMAIN walks : /\ IsWalk(walks[i]) /\ walks[i].role \notin WindowRoles
                               /\ walks[i].listener # "windows"
  BY <1>3, <1>5, <1>10 DEF IsWalk, WindowRoles
<1>12. \A i, j \in DOMAIN walks : i < j => Before(walks[i], walks[j])
  <2>1. \A i, j \in {1, 2} : i < j => i = 1 /\ j = 2
    OBVIOUS
  <2> QED BY <1>7, <1>10, <2>1
<1>13. \A p : IsTop(p) => \E i \in DOMAIN walks : walks[i] = WalkOf("subqueries", p, "none")
  BY <1>1, <1>4, <1>10
<1>14. Complete(walks)
  BY <1>3, <1>8, <1>10, <1>11, <1>12, <1>13 DEF Complete
<1> QED BY <1>2, <1>9, <1>14

(* The walks over the expressions of a select list, two for each. *)
ItemWalks(p) == <<WalkOf("columns", p, "projection"), WalkOf("subqueries", p, "none")>>

LEMMA ItemWalksOf ==
  ASSUME NEW p
  PROVE  /\ DOMAIN ItemWalks(p) = {1, 2} /\ Len(ItemWalks(p)) = 2
         /\ ItemWalks(p)[1] = WalkOf("columns", p, "projection")
         /\ ItemWalks(p)[2] = WalkOf("subqueries", p, "none")
         /\ \A k \in {1, 2} : /\ ItemWalks(p)[k].first = p /\ ItemWalks(p)[k].last = clause.last[p]
                              /\ ItemWalks(p)[k].listener = IF k = 1 THEN "columns" ELSE "subqueries"
                              /\ ItemWalks(p)[k].role \notin WindowRoles
<1>1. PICK v, w : v = WalkOf("columns", p, "projection") /\ w = WalkOf("subqueries", p, "none")
  OBVIOUS
<1>2. /\ v.listener = "columns" /\ v.role = "projection" /\ v.first = p /\ v.last = clause.last[p]
      /\ w.listener = "subqueries" /\ w.role = "none" /\ w.first = p /\ w.last = clause.last[p]
  BY <1>1, WalkFields
<1>3. PICK s : s = ItemWalks(p)
  OBVIOUS
<1>4. s = <<v, w>>
  BY <1>1, <1>3 DEF ItemWalks
<1>5. DOMAIN s = {1, 2} /\ Len(s) = 2 /\ s[1] = v /\ s[2] = w
  BY <1>4
<1>6. \A k \in {1, 2} : /\ s[k].first = p /\ s[k].last = clause.last[p]
                        /\ s[k].listener = IF k = 1 THEN "columns" ELSE "subqueries"
                        /\ s[k].role \notin WindowRoles
  BY <1>2, <1>5 DEF WindowRoles
<1> QED BY <1>1, <1>3, <1>5, <1>6

(* The walks over the expressions come in the order of these. *)
LEMMA ItemsComplete ==
  ASSUME Tree, WellFormed, clause.kind = "target_list", NEW items, items = Items,
         NEW flat, flat = FlattenSeq([i \in DOMAIN items |-> ItemWalks(items[i])])
  PROVE  /\ IsSeq(flat)
         /\ \A q \in DOMAIN flat : /\ IsWalk(flat[q]) /\ flat[q].role \notin WindowRoles
                                   /\ flat[q].listener # "windows"
         /\ \A q, r \in DOMAIN flat : q < r => Before(flat[q], flat[r])
         /\ \A p : IsTop(p) => \E q \in DOMAIN flat : flat[q] = WalkOf("subqueries", p, "none")
         /\ \A p : IsTop(p) => \E q \in DOMAIN flat : flat[q] = WalkOf("columns", p, "projection")
<1>1. /\ DOMAIN items = 1..Len(items) /\ Len(items) \in Nat
      /\ \A i \in DOMAIN items : IsTop(items[i])
      /\ \A i, j \in DOMAIN items : i < j => clause.last[items[i]] < items[j]
      /\ \A p : IsTop(p) => \E i \in DOMAIN items : items[i] = p
  BY ItemsInOrder
<1>2. PICK E : E = {WalkOf("columns", p, "projection") : p \in {items[i] : i \in DOMAIN items}}
                   \cup {WalkOf("subqueries", p, "none") : p \in {items[i] : i \in DOMAIN items}}
  OBVIOUS
<1>3. ASSUME NEW i \in DOMAIN items PROVE ItemWalks(items[i]) \in Seq(E)
  <2>1. PICK v, w : v = WalkOf("columns", items[i], "projection") /\ w = WalkOf("subqueries", items[i], "none")
    OBVIOUS
  <2>2. v \in E /\ w \in E
    BY <1>2, <2>1
  <2>3. ItemWalks(items[i]) = <<v, w>>
    BY <2>1 DEF ItemWalks
  <2> QED BY <2>2, <2>3
<1>4. PICK seqs : seqs = [i \in DOMAIN items |-> ItemWalks(items[i])]
  OBVIOUS
<1>5. seqs \in Seq(Seq(E)) /\ DOMAIN seqs = DOMAIN items /\ \A i \in DOMAIN items : seqs[i] = ItemWalks(items[i])
  BY <1>1, <1>3, <1>4
<1>6. flat \in Seq(E) /\ \E at : ArePlaces(at, seqs, flat)
  BY <1>4, <1>5, FlattenPlaces
<1>7. PICK at : ArePlaces(at, seqs, flat)
  BY <1>6
<1>8. /\ \A i \in DOMAIN items : at[i] \in Nat
      /\ \A i \in DOMAIN items : \A k \in {1, 2} :
           at[i] + k \in DOMAIN flat /\ flat[at[i] + k] = ItemWalks(items[i])[k]
      /\ \A q \in DOMAIN flat : \E i \in DOMAIN items : \E k \in {1, 2} : q = at[i] + k
      /\ \A i, j \in DOMAIN items : i < j => at[i] + 2 <= at[j]
  <2>1. \A i \in DOMAIN items : DOMAIN seqs[i] = {1, 2} /\ Len(seqs[i]) = 2
    BY <1>5, ItemWalksOf
  <2>2. \A i \in DOMAIN items : at[i] \in Nat
    BY <1>5, <1>7 DEF ArePlaces
  <2>3. \A i \in DOMAIN items : \A k \in {1, 2} :
          at[i] + k \in DOMAIN flat /\ flat[at[i] + k] = ItemWalks(items[i])[k]
    BY <1>5, <1>7, <2>1 DEF ArePlaces
  <2>4. ASSUME NEW q \in DOMAIN flat PROVE \E i \in DOMAIN items : \E k \in {1, 2} : q = at[i] + k
    <3>1. PICK i \in DOMAIN seqs : \E k \in DOMAIN seqs[i] : q = at[i] + k
      BY <1>7 DEF ArePlaces
    <3> QED BY <1>5, <2>1, <3>1
  <2>5. \A i, j \in DOMAIN items : i < j => at[i] + 2 <= at[j]
    BY <1>5, <1>7, <2>1 DEF ArePlaces
  <2> QED BY <2>2, <2>3, <2>4, <2>5
<1>9. ASSUME NEW i \in DOMAIN items, NEW k \in {1, 2}
      PROVE  /\ IsWalk(ItemWalks(items[i])[k]) /\ ItemWalks(items[i])[k].role \notin WindowRoles
             /\ ItemWalks(items[i])[k].listener # "windows"
  <2>1. clause.kind \in Listed /\ clause.kind \in DOMAIN RoleOfClause /\ RoleOfClause[clause.kind] = "projection"
    BY DEF Listed, RoleOfClause
  <2>2. ListWalk(WalkOf("columns", items[i], "projection"))
    BY <1>1, <2>1 DEF ListWalk
  <2>3. SubqueryWalk(WalkOf("subqueries", items[i], "none"))
    BY <1>1, <2>1 DEF SubqueryWalk
  <2>4. IsWalk(ItemWalks(items[i])[1]) /\ IsWalk(ItemWalks(items[i])[2])
    BY <2>2, <2>3, ItemWalksOf DEF IsWalk
  <2> QED BY <2>4, ItemWalksOf
<1>10. ASSUME NEW q \in DOMAIN flat
       PROVE  IsWalk(flat[q]) /\ flat[q].role \notin WindowRoles /\ flat[q].listener # "windows"
  <2>1. PICK i \in DOMAIN items : \E k \in {1, 2} : q = at[i] + k
    BY <1>8
  <2>2. PICK k \in {1, 2} : q = at[i] + k
    BY <2>1
  <2> QED BY <1>8, <1>9, <2>2
<1>11. ASSUME NEW q \in DOMAIN flat, NEW r \in DOMAIN flat, q < r PROVE Before(flat[q], flat[r])
  <2>1. PICK i \in DOMAIN items : \E k \in {1, 2} : q = at[i] + k
    BY <1>8
  <2>2. PICK k \in {1, 2} : q = at[i] + k
    BY <2>1
  <2>3. PICK j \in DOMAIN items : \E h \in {1, 2} : r = at[j] + h
    BY <1>8
  <2>4. PICK h \in {1, 2} : r = at[j] + h
    BY <2>3
  <2>5. /\ flat[q].first = items[i] /\ flat[q].last = clause.last[items[i]] /\ flat[q].role \notin WindowRoles
        /\ flat[q].listener = IF k = 1 THEN "columns" ELSE "subqueries"
        /\ flat[r].first = items[j]
        /\ flat[r].listener = IF h = 1 THEN "columns" ELSE "subqueries"
    <3>1. PICK s, t : s = ItemWalks(items[i]) /\ t = ItemWalks(items[j])
      OBVIOUS
    <3>2. /\ s[k].first = items[i] /\ s[k].last = clause.last[items[i]] /\ s[k].role \notin WindowRoles
          /\ s[k].listener = IF k = 1 THEN "columns" ELSE "subqueries"
      BY <3>1, ItemWalksOf
    <3>3. t[h].first = items[j] /\ t[h].listener = IF h = 1 THEN "columns" ELSE "subqueries"
      BY <3>1, ItemWalksOf
    <3>4. flat[q] = s[k] /\ flat[r] = t[h]
      BY <1>8, <2>2, <2>4, <3>1
    <3> QED BY <3>2, <3>3, <3>4
  <2>6. ASSUME k = h PROVE i < j
    <3>1. at[i] < at[j] /\ at[i] \in Nat /\ at[j] \in Nat /\ i \in Nat /\ j \in Nat
      BY <1>1, <1>8, <1>11, <2>2, <2>4, <2>6
    <3>2. j < i => at[j] + 2 <= at[i]
      BY <1>8
    <3>3. i # j
      BY <3>1
    <3> QED BY <3>1, <3>2, <3>3
  <2>7. k = h => clause.last[items[i]] < items[j]
    BY <1>1, <2>6
  <2> QED BY <2>5, <2>7 DEF Before
<1>12. ASSUME NEW p, IsTop(p)
       PROVE  /\ \E q \in DOMAIN flat : flat[q] = WalkOf("subqueries", p, "none")
              /\ \E q \in DOMAIN flat : flat[q] = WalkOf("columns", p, "projection")
  <2>1. PICK i \in DOMAIN items : items[i] = p
    BY <1>1, <1>12
  <2>2. /\ at[i] + 1 \in DOMAIN flat /\ flat[at[i] + 1] = ItemWalks(p)[1]
        /\ at[i] + 2 \in DOMAIN flat /\ flat[at[i] + 2] = ItemWalks(p)[2]
    BY <1>8, <2>1
  <2>3. PICK s : s = ItemWalks(p)
    OBVIOUS
  <2>4. s[1] = WalkOf("columns", p, "projection") /\ s[2] = WalkOf("subqueries", p, "none")
    BY <2>3, ItemWalksOf
  <2>5. flat[at[i] + 1] = s[1] /\ flat[at[i] + 2] = s[2]
    BY <2>2, <2>3
  <2> QED BY <2>2, <2>4, <2>5
<1>13. IsSeq(flat)
  BY <1>6 DEF IsSeq
<1> QED BY <1>10, <1>11, <1>12, <1>13

LEMMA ProjectionComplete ==
  ASSUME Tree, WellFormed, clause.kind = "target_list"
  PROVE  Complete(ProjectionWalks(Items))
<1>1. PICK items, flat : items = Items /\ flat = FlattenSeq([i \in DOMAIN items |-> ItemWalks(items[i])])
  OBVIOUS
<1>2. PICK over : over = Walk("windows", 1, Len(clause.last), "none")
  OBVIOUS
<1>3. ProjectionWalks(Items) = Append(flat, over)
  BY <1>1, <1>2 DEF ProjectionWalks, ItemWalks
<1>4. /\ IsSeq(flat)
      /\ \A q \in DOMAIN flat : IsWalk(flat[q]) /\ flat[q].role \notin WindowRoles /\ flat[q].listener # "windows"
      /\ \A q, r \in DOMAIN flat : q < r => Before(flat[q], flat[r])
      /\ \A p : IsTop(p) => \E q \in DOMAIN flat : flat[q] = WalkOf("subqueries", p, "none")
      /\ \A p : IsTop(p) => \E q \in DOMAIN flat : flat[q] = WalkOf("columns", p, "projection")
  BY <1>1, ItemsComplete
<1>5. over.listener = "windows" /\ over.role = "none" /\ IsWalk(over)
  <2>1. OverWalk(over)
    BY <1>2 DEF OverWalk
  <2> QED BY <1>2, <2>1, WalkFields DEF IsWalk
<1>6. PICK walks : walks = Append(flat, over)
  OBVIOUS
<1>7. /\ IsSeq(walks) /\ Len(flat) \in Nat /\ DOMAIN flat = 1..Len(flat)
      /\ DOMAIN walks = 1..Len(flat) + 1 /\ Len(walks) = Len(flat) + 1
      /\ walks[Len(flat) + 1] = over /\ \A q \in DOMAIN flat : q \in DOMAIN walks /\ walks[q] = flat[q]
  <2>1. PICK S : flat \in Seq(S)
    BY <1>4 DEF IsSeq
  <2>2. PICK R : R = S \cup {over}
    OBVIOUS
  <2>3. flat \in Seq(R) /\ over \in R
    BY <2>1, <2>2
  <2>4. walks \in Seq(R)
    BY <1>6, <2>3
  <2> QED BY <1>6, <2>3, <2>4 DEF IsSeq
<1>8. \A q \in DOMAIN walks : q \in DOMAIN flat \/ q = Len(flat) + 1
  BY <1>7
<1>9. ASSUME NEW q \in DOMAIN walks, NEW r \in DOMAIN walks, q < r PROVE Before(walks[q], walks[r])
  <2>1. q \in DOMAIN flat
    BY <1>7, <1>9
  <2>2. CASE r \in DOMAIN flat
    BY <1>4, <1>7, <1>9, <2>1, <2>2
  <2>3. CASE r = Len(flat) + 1
    BY <1>4, <1>5, <1>7, <2>1, <2>3 DEF Before
  <2> QED BY <1>8, <2>2, <2>3
<1>10. \A q \in DOMAIN walks : /\ IsWalk(walks[q]) /\ walks[q].role \notin WindowRoles
                               /\ (walks[q].listener = "windows" => q = Len(walks))
  BY <1>4, <1>5, <1>7, <1>8 DEF WindowRoles
<1>11. /\ \A p : IsTop(p) => \E q \in DOMAIN walks : walks[q] = WalkOf("subqueries", p, "none")
       /\ \A p : IsTop(p) => \E q \in DOMAIN walks : walks[q] = WalkOf("columns", p, "projection")
       /\ \E q \in DOMAIN walks : walks[q].listener = "windows"
  <2>1. Len(flat) + 1 \in DOMAIN walks
    BY <1>7
  <2> QED BY <1>4, <1>5, <1>7, <2>1
<1>12. RoleOfClause[clause.kind] = "projection" /\ clause.kind \notin Conditions
  BY DEF RoleOfClause, Conditions
<1>13. Complete(walks)
  BY <1>7, <1>9, <1>10, <1>11, <1>12 DEF Complete
<1> QED BY <1>3, <1>6, <1>13

-------------------------------------------------------------------------------
LEMMA StartsFormed ==
  ASSUME Init
  PROVE  WellFormed /\ todo = WalksOf(clause.kind, Items)
<1>1. PICK input \in Inputs : \E n \in 1..input.maxNodes :
        \E last \in [1..n -> 1..n], label \in [1..n -> input.labels] :
          /\ IsClause(input.kind, last, label)
          /\ clause = [kind |-> input.kind, last |-> last, label |-> label]
          /\ todo = WalksOf(input.kind, Items)
  BY DEF Init
<1>2. PICK n \in 1..input.maxNodes : \E last \in [1..n -> 1..n], label \in [1..n -> input.labels] :
        /\ IsClause(input.kind, last, label)
        /\ clause = [kind |-> input.kind, last |-> last, label |-> label]
        /\ todo = WalksOf(input.kind, Items)
  BY <1>1
<1>3. PICK last \in [1..n -> 1..n], label \in [1..n -> input.labels] :
        /\ IsClause(input.kind, last, label)
        /\ clause = [kind |-> input.kind, last |-> last, label |-> label]
        /\ todo = WalksOf(input.kind, Items)
  BY <1>2
<1>4. /\ input.kind \in ClauseKinds /\ input.maxNodes \in Nat
      /\ \A l \in input.labels : /\ l.rule \in RulesIn(input.kind)
                                 /\ l.rule = "a_expr_qual_op" => 1 \in DOMAIN l.words /\ ~Negated(l.words)
  BY InputsAssumption
<1>5. clause.kind = input.kind /\ clause.last = last /\ clause.label = label
  BY <1>3
<1>6. Nodes = 1..n /\ 1 \in Nodes
  BY <1>4, <1>5 DEF Nodes
<1>7. \A m \in Nodes : clause.label[m] \in input.labels
  BY <1>5, <1>6
<1>8. /\ \A m \in Nodes : Rule(m) \in RulesIn(clause.kind)
      /\ \A m \in Nodes : Rule(m) = "a_expr_qual_op" => 1 \in DOMAIN Words(m) /\ ~Negated(Words(m))
  BY <1>4, <1>5, <1>7 DEF Rule, Words
<1>9. IsClause(clause.kind, clause.last, clause.label)
  BY <1>3, <1>5
<1> QED BY <1>3, <1>4, <1>5, <1>6, <1>8, <1>9 DEF WellFormed

LEMMA StartsRecorded ==
  ASSUME Init
  PROVE  JInv
<1>1. Tree /\ frames = << >> /\ usages = << >> /\ subqueries = << >>
  BY Start DEF IInv, Init
<1>2. WellFormed /\ todo = WalksOf(clause.kind, Items)
  BY StartsFormed
<1>3. CASE clause.kind = "target_list"
  <2>1. todo = ProjectionWalks(Items)
    BY <1>2, <1>3 DEF WalksOf
  <2> QED BY <1>1, <1>2, <1>3, <2>1, ProjectionComplete, Fresh
<1>4. CASE clause.kind = "group_clause"
  <2>1. todo = ListWalks(Items, "group") /\ "group" = RoleOfClause[clause.kind]
    BY <1>2, <1>4 DEF WalksOf, RoleOfClause
  <2> QED BY <1>1, <1>2, <1>4, <2>1, ListsComplete, Fresh
<1>5. CASE clause.kind = "order_clause"
  <2>1. todo = ListWalks(Items, "order") /\ "order" = RoleOfClause[clause.kind]
    BY <1>2, <1>5 DEF WalksOf, RoleOfClause
  <2> QED BY <1>1, <1>2, <1>5, <2>1, ListsComplete, Fresh
<1>6. CASE clause.kind \in Conditions
  <2>1. todo = ConditionWalks
    BY <1>2, <1>6 DEF WalksOf, Conditions
  <2> QED BY <1>1, <1>2, <1>6, <2>1, ConditionsComplete, Fresh
<1> QED BY <1>2, <1>3, <1>4, <1>5, <1>6 DEF WellFormed, ClauseKinds, Conditions

-------------------------------------------------------------------------------
(* What there is when every walk is over. *)
Apparent(rule) == {m \in Nodes : Rule(m) = rule /\ ~Hidden(1, m)}

LEMMA AllSettled ==
  ASSUME Tree, Done
  PROVE  /\ Ahead = {} /\ frames = << >> /\ todo = << >> /\ Nodes \subseteq Int
         /\ \A l, r : Settled(l, r, Ahead) = Apparent(RuleFor[l])
<1>1. DOMAIN todo = {} /\ Outer = {} /\ frames = << >> /\ todo = << >>
  BY DEF Done, Outer
<1>2. Ahead = {}
  BY <1>1 DEF Ahead
<1>3. Nodes \subseteq Int
  BY Numbered
<1> QED BY <1>1, <1>2, <1>3 DEF Settled, Apparent

LEMMA SubqueriesAreDirect ==
  ASSUME IInv, JInv
  PROVE  DirectSubqueriesOnce
<1> SUFFICES ASSUME Done, clause.kind \in {"target_list", "where_clause", "having_clause"}
             PROVE  subqueries = FromLeast(Apparent("select_with_parens"))
  BY DEF DirectSubqueriesOnce, Apparent
<1>1. Settled("subqueries", "none", Ahead) = Apparent(RuleFor["subqueries"]) /\ Nodes \subseteq Int
  BY AllSettled DEF IInv
<1>2. Enumerates(subqueries, Settled("subqueries", "none", Ahead))
  BY DEF JInv, SubqueriesGot, Listed
<1>3. RuleFor["subqueries"] = "select_with_parens"
  BY DEF RuleFor
<1>4. Apparent("select_with_parens") \in SUBSET Int
  BY <1>1 DEF Apparent
<1> QED BY <1>1, <1>2, <1>3, <1>4, OnlyEnumeration

-------------------------------------------------------------------------------
(* The columns at some places, one after the other. *)
LEMMA ColumnsInOrder ==
  ASSUME NEW n \in Nat, NEW P \in SUBSET (1..n), P \subseteq DOMAIN usages, NEW S \in SUBSET Int,
         {usages[i].column : i \in P} = S,
         \A i, j \in P : i < j => usages[i].column < usages[j].column
  PROVE  ColumnsAt(P) = FromLeast(S)
<1>1. PICK at : at = FromLeast(P)
  OBVIOUS
<1>2. Enumerates(at, P)
  BY <1>1, Enumeration
<1>3. at \in Seq(P) /\ DOMAIN at = 1..Len(at) /\ Len(at) \in Nat /\ \A k \in 1..Len(at) : at[k] \in P
  BY <1>2 DEF Enumerates
<1>4. PICK got : got = [k \in DOMAIN at |-> usages[at[k]].column]
  OBVIOUS
<1>5. /\ DOMAIN got = 1..Len(at) /\ got \in Seq(S)
      /\ \A k \in 1..Len(at) : got[k] = usages[at[k]].column
  <2>1. DOMAIN got = 1..Len(at) /\ \A k \in 1..Len(at) : got[k] = usages[at[k]].column
    BY <1>3, <1>4
  <2>2. \A i \in P : usages[i].column \in S
    OBVIOUS
  <2>3. got \in [1..Len(at) -> S]
    BY <1>3, <1>4, <2>1, <2>2
  <2> QED BY <1>3, <2>1, <2>3
<1>6. ASSUME NEW k \in DOMAIN got, NEW h \in DOMAIN got, k < h PROVE got[k] < got[h]
  <2>1. at[k] < at[h] /\ at[k] \in P /\ at[h] \in P
    BY <1>2, <1>3, <1>5, <1>6 DEF Enumerates
  <2> QED BY <1>5, <2>1
<1>7. ASSUME NEW x \in S PROVE \E k \in DOMAIN got : got[k] = x
  <2>1. PICK i \in P : usages[i].column = x
    OBVIOUS
  <2>2. PICK k \in DOMAIN at : at[k] = i
    BY <1>2 DEF Enumerates
  <2> QED BY <1>3, <1>5, <2>1, <2>2
<1>8. Enumerates(got, S)
  BY <1>5, <1>6, <1>7 DEF Enumerates
<1>9. got = FromLeast(S)
  BY <1>8, OnlyEnumeration
<1> QED BY <1>1, <1>4, <1>9 DEF ColumnsAt

LEMMA UsagesNumbered ==
  ASSUME IInv
  PROVE  Len(usages) \in Nat /\ DOMAIN usages = 1..Len(usages)
<1>1. PICK S : usages \in Seq(S)
  BY DEF IInv, IsSeq
<1> QED BY <1>1

LEMMA ColumnsOfLists ==
  ASSUME IInv, JInv
  PROVE  ListColumns
<1> SUFFICES ASSUME Done, clause.kind \in DOMAIN RoleOfClause
             PROVE  ColumnsAt(PlacesOf(usages, RoleOfClause[clause.kind])) = FromLeast(Apparent("columnref"))
  BY DEF ListColumns, PlacesOf, Apparent
<1>1. PICK role : role = RoleOfClause[clause.kind]
  OBVIOUS
<1>2. Settled("columns", role, Ahead) = Apparent(RuleFor["columns"]) /\ Nodes \subseteq Int
  BY AllSettled DEF IInv
<1>3. RuleFor["columns"] = "columnref"
  BY DEF RuleFor
<1>4. ColumnsAre(usages, role, Settled("columns", role, Ahead))
  BY <1>1 DEF JInv, ColumnsGot
<1>5. PICK P, S : P = PlacesOf(usages, role) /\ S = Apparent("columnref")
  OBVIOUS
<1>6. /\ P \in SUBSET (1..Len(usages)) /\ P \subseteq DOMAIN usages /\ Len(usages) \in Nat
      /\ S \in SUBSET Int
  BY <1>2, <1>5, UsagesNumbered DEF PlacesOf, Apparent
<1>7. {usages[i].column : i \in P} = S /\ \A i, j \in P : i < j => usages[i].column < usages[j].column
  BY <1>2, <1>3, <1>4, <1>5 DEF ColumnsAre
<1>8. ColumnsAt(P) = FromLeast(S)
  BY <1>6, <1>7, ColumnsInOrder
<1> QED BY <1>1, <1>5, <1>8

LEMMA ColumnsOfWindows ==
  ASSUME IInv, JInv
  PROVE  WindowColumns
<1> SUFFICES ASSUME Done, NEW part \in Nodes, Rule(part) \in WindowParts
             PROVE  ColumnsAt(PlacesIn(usages, part)) = FromLeast(ColumnsOf(part))
  BY DEF WindowColumns, PlacesIn
<1>1. Ahead = {} /\ Nodes \subseteq Int
  BY AllSettled DEF IInv
<1>2. \E b \in Nat, s \in Seq(ColumnsOf(part)) : RunOf(usages, part, b, s)
  BY <1>1 DEF JInv, WindowsGot
<1>3. PICK b \in Nat, s \in Seq(ColumnsOf(part)) : RunOf(usages, part, b, s)
  BY <1>2
<1>4. PICK P, S : P = PlacesIn(usages, part) /\ S = ColumnsOf(part)
  OBVIOUS
<1>5. /\ P \in SUBSET (1..Len(usages)) /\ P \subseteq DOMAIN usages /\ Len(usages) \in Nat
      /\ S \in SUBSET Int
  <2>1. Below(part) \subseteq Nodes
    BY BelowNode DEF IInv, JInv
  <2> QED BY <1>1, <1>4, <2>1, UsagesNumbered DEF PlacesIn, ColumnsOf
<1>6. /\ Enumerates(s, S) /\ P = b + 1..b + Len(s) /\ Len(s) \in Nat /\ DOMAIN s = 1..Len(s)
      /\ \A k \in 1..Len(s) : usages[b + k].column = s[k] /\ s[k] \in S
  BY <1>3, <1>4 DEF RunOf
<1>7. \A i \in P : i - b \in 1..Len(s) /\ usages[i].column = s[i - b]
  <2> SUFFICES ASSUME NEW i \in P PROVE i - b \in 1..Len(s) /\ usages[i].column = s[i - b]
    OBVIOUS
  <2>1. i \in Int /\ i - b \in 1..Len(s) /\ b + (i - b) = i
    BY <1>6
  <2> QED BY <1>6, <2>1
<1>8. \A k \in 1..Len(s) : b + k \in P
  BY <1>6
<1>9. {usages[i].column : i \in P} = S
  <2>1. ASSUME NEW x \in S PROVE \E i \in P : usages[i].column = x
    <3>1. PICK k \in 1..Len(s) : s[k] = x
      BY <1>6 DEF Enumerates
    <3> QED BY <1>6, <1>8, <3>1
  <2> QED BY <1>6, <1>7, <2>1
<1>10. \A i, j \in P : i < j => usages[i].column < usages[j].column
  <2> SUFFICES ASSUME NEW i \in P, NEW j \in P, i < j PROVE usages[i].column < usages[j].column
    OBVIOUS
  <2>1. i \in Int /\ j \in Int /\ i - b < j - b
    BY <1>6
  <2>2. s[i - b] < s[j - b]
    BY <1>6, <1>7, <2>1 DEF Enumerates
  <2> QED BY <1>7, <2>2
<1>11. ColumnsAt(P) = FromLeast(S)
  BY <1>5, <1>9, <1>10, ColumnsInOrder
<1> QED BY <1>4, <1>11

-------------------------------------------------------------------------------
(* The operator of a comparison negates if its predicate does. *)
LEMMA OperatorNegates ==
  ASSUME WellFormed, NEW p \in Nodes, OperatorOf(Rule(p), Words(p)) # << >>, Rule(p) \in Predicates
  PROVE  Negated(OperatorOf(Rule(p), Words(p))) <=> Negated(Words(p))
<1>1. PICK words : words = Words(p)
  OBVIOUS
<1>2. CASE Rule(p) = "a_expr_qual_op"
  <2>1. ~Negated(words) /\ 1 \in DOMAIN words
    BY <1>1, <1>2 DEF WellFormed
  <2>2. OperatorOf(Rule(p), words) = <<words[1]>>
    BY <1>2 DEF OperatorOf
  <2>3. ~Negated(<<words[1]>>)
    BY <2>1 DEF Negated
  <2> QED BY <1>1, <2>1, <2>2, <2>3
<1>3. CASE Rule(p) = "a_expr_isnull"
  <2>1. OperatorOf(Rule(p), words) = NullTest(words)
    BY <1>3 DEF OperatorOf
  <2>2. /\ ~Negated(<<"ISNULL">>) /\ ~Negated(<<"IS", "NULL">>) /\ ~Negated(<<"IS">>)
    BY DEF Negated
  <2>3. Negated(<<"NOTNULL">>)
    <3>1. PICK s : s = <<"NOTNULL">>
      OBVIOUS
    <3>2. 1 \in DOMAIN s /\ s[1] = "NOTNULL"
      BY <3>1
    <3> QED BY <3>1, <3>2 DEF Negated
  <2>4. Negated(<<"IS", "NOT", "NULL">>)
    <3>1. PICK s : s = <<"IS", "NOT", "NULL">>
      OBVIOUS
    <3>2. 2 \in DOMAIN s /\ s[2] = "NOT"
      BY <3>1
    <3> QED BY <3>1, <3>2 DEF Negated
  <2>5. words \in {<<"ISNULL">>, <<"NOTNULL">>, <<"IS", "NULL">>}
    BY <1>1, <2>1 DEF NullTest
  <2>6. CASE words = <<"ISNULL">>
    BY <1>1, <2>1, <2>2, <2>6 DEF NullTest
  <2>7. CASE words = <<"NOTNULL">>
    <3>1. NullTest(words) = <<"IS", "NOT", "NULL">>
      BY <2>7 DEF NullTest
    <3> QED BY <1>1, <2>1, <2>3, <2>4, <2>7, <3>1
  <2>8. CASE words = <<"IS", "NULL">>
    <3>1. NullTest(words) = <<"IS">>
      BY <2>8 DEF NullTest
    <3> QED BY <1>1, <2>1, <2>2, <2>8, <3>1
  <2> QED BY <2>5, <2>6, <2>7, <2>8
<1>4. CASE Rule(p) \notin {"a_expr_qual_op", "a_expr_isnull"}
  <2>1. OperatorOf(Rule(p), words) \in {words, << >>}
    BY <1>4 DEF OperatorOf, CompareTest, IsNotTest
  <2> QED BY <1>1, <2>1
<1> QED BY <1>2, <1>3, <1>4

LEMMA NegationsKept ==
  ASSUME IInv, JInv
  PROVE  NegationKept
<1> SUFFICES ASSUME NEW i \in DOMAIN usages, usages[i].role = "filter"
             PROVE  Negated(usages[i].operator) <=> Negated(Words(usages[i].context))
  BY DEF NegationKept
<1>1. clause.kind \in Conditions
  BY DEF JInv, NothingElse
<1>2. IsComparison(usages[i])
  BY <1>1 DEF JInv, ComparisonsGot
<1>3. PICK p \in Nodes : \E c \in Nodes : IsCompared(p, c) /\ usages[i] = Comparison(p, c)
  BY <1>2 DEF IsComparison
<1>4. PICK c \in Nodes : IsCompared(p, c) /\ usages[i] = Comparison(p, c)
  BY <1>3
<1>5. usages[i].operator = OperatorOf(Rule(p), Words(p)) /\ usages[i].context = p
  BY <1>4 DEF Comparison, Usage
<1>6. Rule(p) \in Predicates /\ OperatorOf(Rule(p), Words(p)) # << >>
  BY <1>4 DEF IsCompared
<1> QED BY <1>5, <1>6, OperatorNegates DEF JInv

LEMMA ComparisonsKnown ==
  ASSUME IInv, JInv
  PROVE  EachComparisonOnce
<1> DEFINE pairs == {pc \in Nodes \X Nodes : IsCompared(pc[1], pc[2])}
           compared == {Comparison(pc[1], pc[2]) : pc \in pairs}
           keys == {ComparisonKey(u) : u \in compared}
<1> SUFFICES ASSUME Done, clause.kind \in Conditions
             PROVE  {ComparisonKey(usages[i]) : i \in DOMAIN usages} = keys /\ Cardinality(keys) = Len(usages)
  BY DEF EachComparisonOnce, Conditions, IsCompared, Comparison, ComparisonKey
<1>1. /\ \A i \in DOMAIN usages : IsComparison(usages[i])
      /\ \A i, j \in DOMAIN usages : ComparisonKey(usages[i]) = ComparisonKey(usages[j]) => i = j
      /\ \A p, c \in Nodes : IsCompared(p, c) => Known(p, c)
  BY DEF JInv, ComparisonsGot
<1>2. DOMAIN todo = {} /\ ~Comparing
  BY DEF Done, Comparing
<1>3. ASSUME NEW i \in DOMAIN usages PROVE ComparisonKey(usages[i]) \in keys
  <2>1. PICK p \in Nodes : \E c \in Nodes : IsCompared(p, c) /\ usages[i] = Comparison(p, c)
    BY <1>1 DEF IsComparison
  <2>2. PICK c \in Nodes : IsCompared(p, c) /\ usages[i] = Comparison(p, c)
    BY <2>1
  <2>3. <<p, c>> \in pairs /\ <<p, c>>[1] = p /\ <<p, c>>[2] = c
    BY <2>2
  <2>4. usages[i] \in compared
    BY <2>2, <2>3
  <2> QED BY <2>4
<1>4. ASSUME NEW k \in keys PROVE \E i \in DOMAIN usages : ComparisonKey(usages[i]) = k
  <2>1. PICK pc \in pairs : k = ComparisonKey(Comparison(pc[1], pc[2]))
    OBVIOUS
  <2>2. pc[1] \in Nodes /\ pc[2] \in Nodes /\ IsCompared(pc[1], pc[2])
    BY <2>1
  <2>3. HasKey(usages, Comparison(pc[1], pc[2]))
    BY <1>1, <1>2, <2>2 DEF Known
  <2> QED BY <2>1, <2>3 DEF HasKey
<1> HIDE DEF keys
<1>5. PICK f : f = [i \in DOMAIN usages |-> ComparisonKey(usages[i])]
  OBVIOUS
<1>6. /\ f \in [DOMAIN usages -> keys]
      /\ \A i, j \in DOMAIN usages : f[i] = f[j] => i = j
      /\ \A k \in keys : \E i \in DOMAIN usages : f[i] = k
  BY <1>1, <1>3, <1>4, <1>5
<1>7. f \in Bijection(DOMAIN usages, keys)
  BY <1>6 DEF Bijection, Injection, Surjection, IsInjective
<1>8. IsFiniteSet(DOMAIN usages) /\ Cardinality(DOMAIN usages) = Len(usages)
  <2>1. Len(usages) \in Nat /\ DOMAIN usages = 1..Len(usages)
    BY UsagesNumbered
  <2>2. PICK n \in Nat : n = Len(usages)
    BY <2>1
  <2>3. IsFiniteSet(1..n) /\ Cardinality(1..n) = n
    BY FS_Interval
  <2> QED BY <2>1, <2>2, <2>3
<1>9. Cardinality(keys) = Len(usages)
  BY <1>7, <1>8, FS_Bijection DEF ExistsBijection
<1> QED BY <1>3, <1>4, <1>9

-------------------------------------------------------------------------------
(* The walks of a clause and what they have recorded (helpers.go:88-199,  *)
(* helpers_comparison.go:348-446), in clauses of any size and depth.       *)
LEMMA Records == Spec => [](IInv /\ JInv)
<1>1. Init => IInv /\ JInv
  BY Start, StartsRecorded
<1>2. IInv /\ JInv /\ [Next]_vars => IInv' /\ JInv'
  BY Inductive, StillRecorded
<1> QED BY <1>1, <1>2, PTL DEF Spec

(* "records only direct subqueries for the current expression scope"       *)
(* (helpers.go:61): the subqueries of a clause of any size and depth are   *)
(* those in no other, each once and in the order of the source.            *)
THEOREM SubqueriesOnce == Spec => []DirectSubqueriesOnce
<1>1. IInv /\ JInv => DirectSubqueriesOnce
  BY SubqueriesAreDirect
<1> QED BY <1>1, Records, PTL

(* Every column of a list, and every one of a window, is recorded for its  *)
(* role exactly once and in the order of the source, where list and window *)
(* are in no inner SELECT (helpers.go:88-186).                             *)
THEOREM ColumnsInRoles == Spec => []EveryColumnInItsRole
<1>1. IInv /\ JInv => EveryColumnInItsRole
  BY ColumnsOfLists, ColumnsOfWindows DEF EveryColumnInItsRole
<1> QED BY <1>1, Records, PTL

(* A condition of any size yields one usage for every different column,    *)
(* operator and text of a comparison outside of inner SELECTs, with the    *)
(* negation it has in the source (helpers_comparison.go:84-446).           *)
THEOREM ComparedOnce == Spec => []ComparisonsOnce
<1>1. IInv /\ JInv => ComparisonsOnce
  BY ComparisonsKnown, NegationsKept DEF ComparisonsOnce
<1> QED BY <1>1, Records, PTL
==============================================================================
