----------------------------- MODULE EditProofs -----------------------------
(***************************************************************************)
(* Proofs about EditCommand: the commands and recipes that edit what a     *)
(* selector finds, for any texts, selectors and recipes.                   *)
(*                                                                         *)
(* A recipe's step has the score of its trial, if the trial has not failed *)
(* on the file and nobody else writes the file between the two (TrialInv), *)
(* and a command transforms what others left in the file (SourceInv).      *)
(*                                                                         *)
(* An edit does what was meant (EditExact).  What Transform does is a      *)
(* fold: it sorts the targets by where they begin, the last first, and     *)
(* splices each into the text.  What was meant is a text made from its end *)
(* (Inserted, Replaced).  The two agree because                            *)
(*   - the targets are nodes of the text, none twice (FindTyped), which    *)
(*     needs that the parser returns a query (ParseTyped); and those of    *)
(*     a replacement overlap nowhere (Kept);                               *)
(*   - any keys can be put in order (CanSort), so that Sorted, a CHOOSE,   *)
(*     chooses something;                                                  *)
(*   - a splice leaves the text before it as it is, so that splices from   *)
(*     the last to the first are all made in the first text (SpliceAllIs), *)
(*     and the text they make is a chain from its end (ChainType);         *)
(*   - what is in the file is a text at every step (TextInv).              *)
(*                                                                         *)
(* A selector finds what its grammar says (SelectorsMean).  Both sides are *)
(* said without recursion first:                                           *)
(*   - what a query selects is known from what its parts select            *)
(*     (SelectsBy), and so is what it is when a child is attached          *)
(*     (AttachBy);                                                         *)
(*   - what a selector means is known from what the two sides of an        *)
(*     operator mean, whichever of its outermost operators it is           *)
(*     (MeansSplit), although Means takes the first.                       *)
(* The parser takes operands from the left and Means from the right, and   *)
(* the two agree since operands associate (CombineAssociates); so what is  *)
(* kept, while a level takes operands, is that the query will select what  *)
(* is meant with whatever operand comes next (Continues).  In a chain this *)
(* needs that the child reaches every part of the parent (Plain), which is *)
(* what Supported asks for.                                                *)
(*                                                                         *)
(* Recursion is over what gets lower: the parser takes tokens or goes to a *)
(* lower level, the search goes to the parts of a query.  It is justified  *)
(* once (RecursionDefines, RecursionTypes; RankedDefines, where no bound   *)
(* is common, as for all selectors) by WFDefOnThm, and induction is        *)
(* over the set of numbers that a statement holds of (Induct).             *)
(***************************************************************************)
EXTENDS EditCommand, SequenceTheorems, FiniteSetTheorems,
        WellFoundedInduction, TLAPS

-----------------------------------------------------------------------------
(* Scores *)

\* A score is between 0 and 100, whatever was added to it.
LEMMA ClampRange ==
  ASSUME NEW n \in Int
  PROVE  /\ Clamp(n) \in 0 .. 100
         /\ n <= 60 => Clamp(n) <= 60
BY DEF Clamp

LEMMA CalculatedScore ==
  ASSUME NEW method, NEW targets, NEW wild
  PROVE  CalculateConfidence(method, targets, wild) \in 0 .. 100
<1> DEFINE many == IF Len(targets) = 1 THEN 10 ELSE IF Len(targets) > 5 THEN -30 ELSE 0
           exported == targets[1].name = "a"
           kind == IF method = "delete" THEN (IF exported THEN -40 ELSE -10)
                   ELSE IF method = "replace" /\ exported THEN -20 ELSE 0
           star == IF wild THEN -15 ELSE 0
<1>1. many \in Int
  OBVIOUS
<1>2. kind \in Int
  OBVIOUS
<1>3. star \in Int
  OBVIOUS
<1>4. CalculateConfidence(method, targets, wild) = Clamp(100 + many + kind + star)
  BY DEF CalculateConfidence
<1>5. 100 + many + kind + star \in Int
  <2> HIDE DEF many, kind, star
  <2>1. QED  BY <1>1, <1>2, <1>3
<1>6. QED  BY <1>4, <1>5, ClampRange

\* A text with an error node costs 40.
LEMMA AdjustedScore ==
  ASSUME NEW score \in 0 .. 100, NEW text, NEW out, NEW targets
  PROVE  /\ AdjustConfidence(score, text, out, targets) \in 0 .. 100
         /\ ~Valid(out) => AdjustConfidence(score, text, out, targets) <= 60
<1> DEFINE delta == IF Len(out) > Len(text) THEN Len(out) - Len(text) ELSE Len(text) - Len(out)
           broken == IF Valid(out) THEN 0 ELSE -40
           many == IF Len(targets) > 3 THEN -10 ELSE 0
           big == IF out # <<>> /\ text # <<>> /\ 10 * delta > 3 * Len(text) THEN -10 ELSE 0
<1>1. broken \in {0, -40} /\ (~Valid(out) => broken = -40)
  OBVIOUS
<1>2. many \in {0, -10}
  OBVIOUS
<1>3. big \in {0, -10}
  OBVIOUS
<1>4. AdjustConfidence(score, text, out, targets) = Clamp(score + broken + many + big)
  BY DEF AdjustConfidence
<1>5. /\ score + broken + many + big \in Int
      /\ ~Valid(out) => score + broken + many + big <= 60
  <2> HIDE DEF broken, many, big
  <2>1. QED  BY <1>1, <1>2, <1>3
<1>6. PICK n \in Int : n = score + broken + many + big
  BY <1>5
<1>7. QED  BY <1>4, <1>5, <1>6, ClampRange

\* What is left with an error node has a low score.
LEMMA TransformScore ==
  ASSUME NEW text, NEW query, NEW method, NEW new,
         NEW r, r = Transform(text, query, method, new)
  PROVE  /\ r.score \in 0 .. 100
         /\ (r.ok /\ (method = "append" => r.targets # <<>>) /\ ~Valid(r.out)) => r.score <= 60
<1>1. CASE method = "append" /\ (query = <<>> \/ query[1].sel.kind = "")
  <2>1. r = [ok |-> TRUE, out |-> DoAppend(text, Len(text), new), targets |-> <<>>, score |-> 100]
    BY <1>1 DEF Transform
  <2>2. r.score = 100 /\ r.targets = <<>>
    BY <2>1
  <2>3. method = "append"
    BY <1>1
  <2>4. r.score \in 0 .. 100 /\ ~(method = "append" => r.targets # <<>>)
    BY <2>2, <2>3
  <2>5. QED  BY <2>4
<1>2. CASE ~(method = "append" /\ (query = <<>> \/ query[1].sel.kind = ""))
  <2>1. PICK targets, out, score :
          /\ targets = FindTargets(text, Nodes(text), query[1])
          /\ out = Edited(text, targets, method, new)
          /\ score = CalculateConfidence(method, targets, query[1].sel.name = "*")
    OBVIOUS
  <2>2. r = IF targets = <<>> THEN NoResult
            ELSE [ok |-> TRUE, out |-> out, targets |-> targets,
                  score |-> AdjustConfidence(score, text, out, targets)]
    BY <1>2, <2>1 DEF Transform
  <2>3. score \in 0 .. 100
    BY <2>1, CalculatedScore
  <2>4. PICK adjusted \in 0 .. 100 :
          /\ adjusted = AdjustConfidence(score, text, out, targets)
          /\ ~Valid(out) => adjusted <= 60
    BY <2>3, AdjustedScore
  <2>5. CASE targets = <<>>
    <3>1. r.score = 0 /\ r.ok = FALSE
      BY <2>2, <2>5 DEF NoResult
    <3>2. QED  BY <3>1
  <2>6. CASE targets # <<>>
    <3>1. r.score = adjusted /\ r.out = out
      BY <2>2, <2>4, <2>6
    <3>2. QED  BY <2>4, <3>1
  <2>7. QED  BY <2>5, <2>6
<1>3. QED  BY <1>1, <1>2

LEMMA OverallScore ==
  ASSUME NEW text, NEW r, r.score \in 0 .. 100
  PROVE  OverallConfidence(text, r) \in 0 .. 100
<1>1. PICK n \in Int : n = IF r.score < 70 THEN r.score - 10 ELSE r.score
  OBVIOUS
<1>2. OverallConfidence(text, r) = IF r.out = text THEN 0 ELSE Clamp(n)
  BY <1>1 DEF OverallConfidence
<1>3. QED  BY <1>2, ClampRange

-----------------------------------------------------------------------------
(* Folds: what a computation along a list or a set of numbers goes through *)

\* Induction over the natural numbers: what holds of 0, and of the number
\* after any it holds of, holds of all.
LEMMA Induct ==
  ASSUME NEW S, 0 \in S, \A n \in Nat : n \in S => n + 1 \in S
  PROVE  Nat \subseteq S
<1>1. PICK R : R = {p \in Nat \X Nat : p[1] < p[2]}
  OBVIOUS
<1>2. IsWellFoundedOn(R, Nat)
  <2>1. OpToRel(<, Nat) = R
    BY <1>1 DEF OpToRel
  <2>2. QED  BY <2>1, NatLessThanWellFounded
<1>3. PICK T : T = Nat \ S
  OBVIOUS
<1>4. SUFFICES ASSUME T # {} PROVE FALSE
  BY <1>3
<1>5. PICK x \in T : \A y \in T : ~(<<y, x>> \in R)
  BY <1>2, <1>3, <1>4, WFMin
<1>6. x \in Nat \ {0} /\ x - 1 \in Nat
  BY <1>3
<1>7. x - 1 \in S
  <2>1. <<x - 1, x>> \in R
    <3>1. PICK y \in Nat : y = x - 1 /\ y < x
      BY <1>6
    <3>2. <<y, x>> \in R
      BY <1>1, <1>6, <3>1
    <3>3. QED  BY <3>1, <3>2
  <2>2. x - 1 \notin T
    BY <1>5, <2>1
  <2>3. QED  BY <1>3, <1>6, <2>2
<1>8. QED  BY <1>3, <1>6, <1>7

\* The greatest of the first numbers.
LEMMA MaxOf ==
  ASSUME NEW n \in Nat, NEW T \in SUBSET (1 .. n + 1), n + 1 \in T
  PROVE  Max(T) = n + 1
<1>1. \A y \in T : n + 1 >= y
  OBVIOUS
<1>2. \E x \in T : \A y \in T : x >= y
  BY <1>1
<1>3. PICK x : x = Max(T)
  OBVIOUS
<1>4. x \in T /\ \A y \in T : x >= y
  BY <1>2, <1>3 DEF Max
<1>5. QED  BY <1>3, <1>4

\* Numbers that are bounded have a greatest one.
LEMMA LastOf ==
  ASSUME NEW n \in Nat, NEW T \in SUBSET (1 .. n), T # {}
  PROVE  Max(T) \in T
<1> DEFINE S == {k \in Nat : \A U \in SUBSET (1 .. k) : U # {} => Max(U) \in U}
<1>1. 0 \in S
  <2>1. \A U \in SUBSET (1 .. 0) : U = {}
    OBVIOUS
  <2>2. QED  BY <2>1
<1>2. ASSUME NEW k \in Nat, k \in S
      PROVE  k + 1 \in S
  <2>1. SUFFICES ASSUME NEW U \in SUBSET (1 .. k + 1), U # {}
                 PROVE  Max(U) \in U
    OBVIOUS
  <2>2. CASE k + 1 \in U
    BY <2>2, MaxOf
  <2>3. CASE k + 1 \notin U
    <3>1. U \in SUBSET (1 .. k)
      BY <2>3
    <3>2. QED  BY <1>2, <2>1, <3>1
  <2>4. QED  BY <2>2, <2>3
<1>3. Nat \subseteq S
  <2> HIDE DEF S
  <2>1. QED  BY <1>1, <1>2, Induct
<1>4. QED  BY <1>3

\* What a fold over the first n places of a sequence computes: a set of
\* places gives the value of what it leaves after its last place, and that.
Iterates(f, n, base, G) ==
  f = [T \in SUBSET (1 .. n) |-> IF T = {} THEN base ELSE G[Max(T)][f[T \ {Max(T)}]]]

\* The function a fold is computed by exists.
LEMMA FoldRun ==
  ASSUME NEW G, NEW base, NEW n \in Nat
  PROVE  \E f : Iterates(f, n, base, G)
<1> DEFINE S == {k \in Nat : \E f : Iterates(f, k, base, G)}
<1>1. 0 \in S
  <2>1. PICK f : f = [T \in SUBSET (1 .. 0) |-> base]
    OBVIOUS
  <2>2. \A T \in SUBSET (1 .. 0) : T = {}
    OBVIOUS
  <2>3. Iterates(f, 0, base, G)
    BY <2>1, <2>2 DEF Iterates
  <2>4. QED  BY <2>3
<1>2. ASSUME NEW k \in Nat, k \in S
      PROVE  k + 1 \in S
  <2>1. PICK f : Iterates(f, k, base, G)
    BY <1>2
  <2>2. PICK g : g = [T \in SUBSET (1 .. k + 1) |->
                        IF k + 1 \in T THEN G[k + 1][f[T \ {k + 1}]] ELSE f[T]]
    OBVIOUS
  <2>3. \A T \in SUBSET (1 .. k) : k + 1 \notin T /\ T \in SUBSET (1 .. k + 1) /\ g[T] = f[T]
    BY <2>2
  <2>4. ASSUME NEW T \in SUBSET (1 .. k + 1)
        PROVE  g[T] = IF T = {} THEN base ELSE G[Max(T)][g[T \ {Max(T)}]]
    <3>1. CASE k + 1 \in T
      <4>1. Max(T) = k + 1
        BY <3>1, MaxOf
      <4>2. T \ {k + 1} \in SUBSET (1 .. k)
        OBVIOUS
      <4>3. g[T] = G[k + 1][f[T \ {k + 1}]]
        BY <2>2, <3>1
      <4>4. g[T \ {k + 1}] = f[T \ {k + 1}]
        BY <2>3, <4>2
      <4>5. QED  BY <3>1, <4>1, <4>3, <4>4
    <3>2. CASE k + 1 \notin T
      <4>1. T \in SUBSET (1 .. k)
        BY <3>2
      <4>2. g[T] = f[T] /\ T \ {Max(T)} \in SUBSET (1 .. k)
        BY <2>3, <4>1
      <4>3. g[T \ {Max(T)}] = f[T \ {Max(T)}]
        BY <2>3, <4>2
      <4>4. f[T] = IF T = {} THEN base ELSE G[Max(T)][f[T \ {Max(T)}]]
        BY <2>1, <4>1 DEF Iterates
      <4>5. QED  BY <4>2, <4>3, <4>4
    <3>3. QED  BY <3>1, <3>2
  <2>5. Iterates(g, k + 1, base, G)
    BY <2>2, <2>4 DEF Iterates
  <2>6. QED  BY <2>5
<1>3. Nat \subseteq S
  <2> HIDE DEF S
  <2>1. QED  BY <1>1, <1>2, Induct
<1>4. QED  BY <1>3

\* Each step of a fold stays in X.  The values a fold goes through.
Keeping(G, n, X) == \A i \in 1 .. n : \A r \in X : G[i][r] \in X
Traces(r, f, n, base, G, X) ==
  /\ r \in [0 .. n -> X] /\ r[0] = base /\ r[n] = f[1 .. n]
  /\ \A k \in 1 .. n : r[k] = G[k][r[k - 1]]

\* A fold whose steps stay in X goes through values in X.
LEMMA FoldSteps ==
  ASSUME NEW G, NEW base, NEW n \in Nat, NEW X, base \in X,
         Keeping(G, n, X), NEW f, Iterates(f, n, base, G)
  PROVE  /\ f \in [SUBSET (1 .. n) -> X]
         /\ \E r : Traces(r, f, n, base, G, X)
<1>1. \A T \in SUBSET (1 .. n) : f[T] = IF T = {} THEN base ELSE G[Max(T)][f[T \ {Max(T)}]]
  BY DEF Iterates
<1> DEFINE S == {k \in Nat : k <= n => \A T \in SUBSET (1 .. k) : f[T] \in X}
<1>2. 0 \in S
  <2>1. \A T \in SUBSET (1 .. 0) : T = {} /\ T \in SUBSET (1 .. n)
    OBVIOUS
  <2>2. QED  BY <1>1, <2>1
<1>3. ASSUME NEW k \in Nat, k \in S
      PROVE  k + 1 \in S
  <2>1. SUFFICES ASSUME k + 1 <= n, NEW T \in SUBSET (1 .. k + 1)
                 PROVE  f[T] \in X
    OBVIOUS
  <2>2. \A U \in SUBSET (1 .. k) : f[U] \in X
    BY <1>3, <2>1
  <2>3. CASE k + 1 \in T
    <3>1. Max(T) = k + 1
      BY <2>3, MaxOf
    <3>2. f[T \ {k + 1}] \in X
      BY <2>2
    <3>3. T \in SUBSET (1 .. n) /\ T # {}
      BY <2>1, <2>3
    <3>4. f[T] = G[k + 1][f[T \ {k + 1}]]
      BY <1>1, <3>1, <3>3
    <3>5. QED  BY <2>1, <3>2, <3>4 DEF Keeping
  <2>4. CASE k + 1 \notin T
    <3>1. T \in SUBSET (1 .. k)
      BY <2>4
    <3>2. QED  BY <2>2, <3>1
  <2>5. QED  BY <2>3, <2>4
<1>4. Nat \subseteq S
  <2> HIDE DEF S
  <2>1. QED  BY <1>2, <1>3, Induct
<1>5. \A T \in SUBSET (1 .. n) : f[T] \in X
  BY <1>4
<1>6. f[1 .. 0] = base
  <2>1. 1 .. 0 = {} /\ 1 .. 0 \in SUBSET (1 .. n)
    OBVIOUS
  <2>2. QED  BY <1>1, <2>1
<1>7. ASSUME NEW k \in 1 .. n
      PROVE  f[1 .. k] = G[k][f[1 .. k - 1]]
  <2>1. PICK j \in Nat : k = j + 1
    OBVIOUS
  <2>2. PICK T : T = 1 .. k
    OBVIOUS
  <2>3. T \in SUBSET (1 .. n) /\ T # {} /\ T \in SUBSET (1 .. j + 1) /\ j + 1 \in T
    <3>1. k \in T
      BY <2>2
    <3>2. \A x \in T : x \in 1 .. n /\ x \in 1 .. j + 1
      BY <2>1, <2>2
    <3>3. QED  BY <2>1, <3>1, <3>2
  <2>4. Max(T) = k
    BY <2>1, <2>3, MaxOf
  <2>5. T \ {k} = 1 .. k - 1
    BY <2>2
  <2>6. QED  BY <1>1, <2>2, <2>3, <2>4, <2>5
<1>8. PICK r : r = [k \in 0 .. n |-> f[1 .. k]]
  OBVIOUS
<1>9. r \in [0 .. n -> X] /\ r[0] = base /\ r[n] = f[1 .. n]
  <2>1. \A k \in 0 .. n : 1 .. k \in SUBSET (1 .. n)
    OBVIOUS
  <2>2. QED  BY <1>5, <1>6, <1>8, <2>1
<1>10. ASSUME NEW k \in 1 .. n
       PROVE  r[k] = G[k][r[k - 1]]
  BY <1>7, <1>8
<1>11. f \in [SUBSET (1 .. n) -> X]
  BY <1>5 DEF Iterates
<1>12. Traces(r, f, n, base, G, X)
  BY <1>9, <1>10 DEF Traces
<1>13. QED  BY <1>11, <1>12

\* A splice of texts is a text, if the span lies in the first.
LEMMA SpliceType ==
  ASSUME NEW C, NEW r \in Seq(C), NEW new \in Seq(C), NEW from \in Nat, NEW to \in Nat,
         from <= to, to <= Len(r)
  PROVE  /\ Splice(r, from, to, new) \in Seq(C)
         /\ Len(Splice(r, from, to, new)) = from + Len(new) + (Len(r) - to)
<1>1. Len(r) \in Nat /\ Len(new) \in Nat /\ \A i \in 1 .. Len(r) : r[i] \in C
  BY LenProperties, ElementOfSeq
<1>2. SubSeq(r, 1, from) \in Seq(C) /\ Len(SubSeq(r, 1, from)) = from
  <2>1. \A i \in 1 .. from : r[i] \in C
    BY <1>1
  <2>2. 1 \in Int /\ from \in Int
    OBVIOUS
  <2>3. QED  BY <2>1, <2>2, SubSeqProperties
<1>3. SubSeq(r, to + 1, Len(r)) \in Seq(C) /\ Len(SubSeq(r, to + 1, Len(r))) = Len(r) - to
  <2>1. \A i \in to + 1 .. Len(r) : r[i] \in C
    BY <1>1
  <2>2. to + 1 \in Int /\ Len(r) \in Int
    BY <1>1
  <2>3. /\ SubSeq(r, to + 1, Len(r)) \in Seq(C)
        /\ Len(SubSeq(r, to + 1, Len(r))) = IF to + 1 <= Len(r) THEN Len(r) - (to + 1) + 1 ELSE 0
    BY <2>1, <2>2, SubSeqProperties
  <2>4. QED  BY <1>1, <2>3
<1>4. /\ SubSeq(r, 1, from) \o new \in Seq(C)
      /\ Len(SubSeq(r, 1, from) \o new) = from + Len(new)
  BY <1>2, ConcatProperties
<1>5. PICK left, right : /\ left = SubSeq(r, 1, from) \o new
                          /\ right = SubSeq(r, to + 1, Len(r))
  OBVIOUS
<1>6. left \in Seq(C) /\ right \in Seq(C)
  BY <1>3, <1>4, <1>5
<1>7. left \o right \in Seq(C) /\ Len(left \o right) = Len(left) + Len(right)
  BY <1>6, ConcatProperties
<1>8. Splice(r, from, to, new) = left \o right
  BY <1>5 DEF Splice
<1>9. Len(left) = from + Len(new) /\ Len(right) = Len(r) - to
  BY <1>3, <1>4, <1>5
<1>10. QED  BY <1>1, <1>7, <1>8, <1>9

\* What a fold that adds targets, that keeps targets, that unites, that splices
\* does step by step.
Adds(r, n) == IF ElementOf(n, r) THEN r ELSE Append(r, n)
IsUnion(f, s, t) ==
  f = [T \in SUBSET DOMAIN t |-> IF T = {} THEN s ELSE Adds(f[T \ {Max(T)}], t[Max(T)])]

\* The values the union of two lists goes through.
LEMMA UnionRun ==
  ASSUME NEW N, NEW s \in Seq(N), NEW t \in Seq(N)
  PROVE  \E r \in [0 .. Len(t) -> Seq(N)] :
           /\ r[0] = s
           /\ \A k \in 1 .. Len(t) : r[k] = Adds(r[k - 1], t[k])
           /\ UnionOf(s, t) = r[Len(t)]
<1>1. PICK len \in Nat : len = Len(t) /\ DOMAIN t = 1 .. len
  BY LenProperties
<1>2. \A i \in 1 .. len : \A r \in Seq(N) : Adds(r, t[i]) \in Seq(N)
  BY <1>1, ElementOfSeq, AppendProperties DEF Adds
<1>3. PICK G : G = [i \in 1 .. len |-> [r \in Seq(N) |-> Adds(r, t[i])]]
  OBVIOUS
<1>4. \A i \in 1 .. len : \A r \in Seq(N) : G[i][r] = Adds(r, t[i])
  BY <1>3
<1>5. Keeping(G, len, Seq(N))
  BY <1>2, <1>4 DEF Keeping
<1>6. PICK f : Iterates(f, len, s, G)
  BY FoldRun
<1>7. s \in Seq(N)
  OBVIOUS
<1>8. f \in [SUBSET (1 .. len) -> Seq(N)]
  BY <1>5, <1>6, <1>7, FoldSteps
<1>9. ASSUME NEW T \in SUBSET (1 .. len), T # {}
      PROVE  Max(T) \in 1 .. len /\ T \ {Max(T)} \in SUBSET (1 .. len)
  <2>1. Max(T) \in T
    BY <1>9, LastOf
  <2>2. QED  BY <2>1
<1>10. IsUnion(f, s, t)
  BY <1>1, <1>4, <1>6, <1>8, <1>9 DEF IsUnion, Iterates
<1>11. PICK g : IsUnion(g, s, t) /\ UnionOf(s, t) = g[DOMAIN t]
  <2>1. \E g : IsUnion(g, s, t)
    BY <1>10
  <2>2. QED  BY <2>1 DEF IsUnion, Adds, UnionOf, FoldLeft, MapThenFoldSet
<1>12. PICK Y : Y = Seq(N) \union {g[T] : T \in SUBSET (1 .. len)}
  OBVIOUS
<1>13. PICK H : H = [i \in 1 .. len |-> [r \in Y |-> Adds(r, t[i])]]
  OBVIOUS
<1>14. Iterates(g, len, s, H)
  BY <1>1, <1>9, <1>11, <1>12, <1>13 DEF IsUnion, Iterates
<1>15. \A i \in 1 .. len : \A r \in Seq(N) : H[i][r] = Adds(r, t[i])
  BY <1>12, <1>13
<1>16. Keeping(H, len, Seq(N))
  BY <1>2, <1>15 DEF Keeping
<1>17. PICK r : Traces(r, g, len, s, H, Seq(N))
  BY <1>7, <1>14, <1>16, FoldSteps
<1>18. ASSUME NEW k \in 1 .. len
       PROVE  r[k] = Adds(r[k - 1], t[k])
  <2>1. k - 1 \in 0 .. len
    OBVIOUS
  <2>2. r[k - 1] \in Seq(N) /\ r[k] = H[k][r[k - 1]]
    BY <1>17, <2>1 DEF Traces
  <2>3. QED  BY <1>15, <2>2
<1>19. UnionOf(s, t) = r[len]
  BY <1>1, <1>11, <1>17 DEF Traces
<1>20. QED  BY <1>1, <1>17, <1>18, <1>19 DEF Traces

\* The part of a list that is in S, element by element.
Keeps(r, n, S) == IF n \in S THEN Append(r, n) ELSE r
IsKept(f, s, S) ==
  f = [T \in SUBSET DOMAIN s |-> IF T = {} THEN <<>> ELSE Keeps(f[T \ {Max(T)}], s[Max(T)], S)]

\* The values it goes through.
LEMMA KeptRun ==
  ASSUME NEW N, NEW s \in Seq(N), NEW S
  PROVE  \E r \in [0 .. Len(s) -> Seq(N)] :
           /\ r[0] = <<>>
           /\ \A k \in 1 .. Len(s) : r[k] = Keeps(r[k - 1], s[k], S)
           /\ Kept(s, S) = r[Len(s)]
<1>1. PICK len \in Nat : len = Len(s) /\ DOMAIN s = 1 .. len
  BY LenProperties
<1>2. \A i \in 1 .. len : \A r \in Seq(N) : Keeps(r, s[i], S) \in Seq(N)
  BY <1>1, ElementOfSeq, AppendProperties DEF Keeps
<1>3. PICK G : G = [i \in 1 .. len |-> [r \in Seq(N) |-> Keeps(r, s[i], S)]]
  OBVIOUS
<1>4. \A i \in 1 .. len : \A r \in Seq(N) : G[i][r] = Keeps(r, s[i], S)
  BY <1>3
<1>5. Keeping(G, len, Seq(N))
  BY <1>2, <1>4 DEF Keeping
<1>6. PICK f : Iterates(f, len, <<>>, G)
  BY FoldRun
<1>7. <<>> \in Seq(N)
  BY EmptySeq
<1>8. f \in [SUBSET (1 .. len) -> Seq(N)]
  BY <1>5, <1>6, <1>7, FoldSteps
<1>9. ASSUME NEW T \in SUBSET (1 .. len), T # {}
      PROVE  Max(T) \in 1 .. len /\ T \ {Max(T)} \in SUBSET (1 .. len)
  <2>1. Max(T) \in T
    BY <1>9, LastOf
  <2>2. QED  BY <2>1
<1>10. IsKept(f, s, S)
  BY <1>1, <1>4, <1>6, <1>8, <1>9 DEF IsKept, Iterates
<1>11. PICK g : IsKept(g, s, S) /\ Kept(s, S) = g[DOMAIN s]
  <2>1. \E g : IsKept(g, s, S)
    BY <1>10
  <2>2. QED  BY <2>1 DEF IsKept, Keeps, Kept, FoldLeft, MapThenFoldSet
<1>12. PICK Y : Y = Seq(N) \union {g[T] : T \in SUBSET (1 .. len)}
  OBVIOUS
<1>13. PICK H : H = [i \in 1 .. len |-> [r \in Y |-> Keeps(r, s[i], S)]]
  OBVIOUS
<1>14. Iterates(g, len, <<>>, H)
  BY <1>1, <1>9, <1>11, <1>12, <1>13 DEF IsKept, Iterates
<1>15. \A i \in 1 .. len : \A r \in Seq(N) : H[i][r] = Keeps(r, s[i], S)
  BY <1>12, <1>13
<1>16. Keeping(H, len, Seq(N))
  BY <1>2, <1>15 DEF Keeping
<1>17. PICK r : Traces(r, g, len, <<>>, H, Seq(N))
  BY <1>7, <1>14, <1>16, FoldSteps
<1>18. ASSUME NEW k \in 1 .. len
       PROVE  r[k] = Keeps(r[k - 1], s[k], S)
  <2>1. k - 1 \in 0 .. len
    OBVIOUS
  <2>2. r[k - 1] \in Seq(N) /\ r[k] = H[k][r[k - 1]]
    BY <1>17, <2>1 DEF Traces
  <2>3. QED  BY <1>15, <2>2
<1>19. Kept(s, S) = r[len]
  BY <1>1, <1>11, <1>17 DEF Traces
<1>20. QED  BY <1>1, <1>17, <1>18, <1>19 DEF Traces

\* The union of many lists, list by list.
Unions(us) == FoldLeft(UnionOf, <<>>, us)
IsUnions(f, us) ==
  f = [T \in SUBSET DOMAIN us |-> IF T = {} THEN <<>> ELSE UnionOf(f[T \ {Max(T)}], us[Max(T)])]

\* The values it goes through.
LEMMA UnionsRun ==
  ASSUME NEW N, NEW us \in Seq(Seq(N))
  PROVE  \E r \in [0 .. Len(us) -> Seq(N)] :
           /\ r[0] = <<>>
           /\ \A k \in 1 .. Len(us) : r[k] = UnionOf(r[k - 1], us[k])
           /\ Unions(us) = r[Len(us)]
<1>1. PICK len \in Nat : len = Len(us) /\ DOMAIN us = 1 .. len
  BY LenProperties
<1>2. \A i \in 1 .. len : \A r \in Seq(N) : UnionOf(r, us[i]) \in Seq(N)
  <2>1. \A i \in 1 .. len : us[i] \in Seq(N)
    BY <1>1, ElementOfSeq
  <2>2. ASSUME NEW r \in Seq(N), NEW u \in Seq(N)
        PROVE  UnionOf(r, u) \in Seq(N)
    <3>1. PICK g \in [0 .. Len(u) -> Seq(N)] : UnionOf(r, u) = g[Len(u)]
      BY UnionRun
    <3>2. Len(u) \in 0 .. Len(u)
      BY LenProperties
    <3>3. QED  BY <3>1, <3>2
  <2>3. QED  BY <2>1, <2>2
<1>3. PICK G : G = [i \in 1 .. len |-> [r \in Seq(N) |-> UnionOf(r, us[i])]]
  OBVIOUS
<1>4. \A i \in 1 .. len : \A r \in Seq(N) : G[i][r] = UnionOf(r, us[i])
  BY <1>3
<1>5. Keeping(G, len, Seq(N))
  BY <1>2, <1>4 DEF Keeping
<1>6. PICK f : Iterates(f, len, <<>>, G)
  BY FoldRun
<1>7. <<>> \in Seq(N)
  BY EmptySeq
<1>8. f \in [SUBSET (1 .. len) -> Seq(N)]
  BY <1>5, <1>6, <1>7, FoldSteps
<1>9. ASSUME NEW T \in SUBSET (1 .. len), T # {}
      PROVE  Max(T) \in 1 .. len /\ T \ {Max(T)} \in SUBSET (1 .. len)
  <2>1. Max(T) \in T
    BY <1>9, LastOf
  <2>2. QED  BY <2>1
<1>10. IsUnions(f, us)
  BY <1>1, <1>4, <1>6, <1>8, <1>9 DEF IsUnions, Iterates
<1>11. PICK g : IsUnions(g, us) /\ Unions(us) = g[DOMAIN us]
  <2>1. \E g : IsUnions(g, us)
    BY <1>10
  <2>2. QED  BY <2>1 DEF IsUnions, Unions, FoldLeft, MapThenFoldSet
<1>12. PICK Y : Y = Seq(N) \union {g[T] : T \in SUBSET (1 .. len)}
  OBVIOUS
<1>13. PICK H : H = [i \in 1 .. len |-> [r \in Y |-> UnionOf(r, us[i])]]
  OBVIOUS
<1>14. Iterates(g, len, <<>>, H)
  BY <1>1, <1>9, <1>11, <1>12, <1>13 DEF IsUnions, Iterates
<1>15. \A i \in 1 .. len : \A r \in Seq(N) : H[i][r] = UnionOf(r, us[i])
  BY <1>12, <1>13
<1>16. Keeping(H, len, Seq(N))
  BY <1>2, <1>15 DEF Keeping
<1>17. PICK r : Traces(r, g, len, <<>>, H, Seq(N))
  BY <1>7, <1>14, <1>16, FoldSteps
<1>18. ASSUME NEW k \in 1 .. len
       PROVE  r[k] = UnionOf(r[k - 1], us[k])
  <2>1. k - 1 \in 0 .. len
    OBVIOUS
  <2>2. r[k - 1] \in Seq(N) /\ r[k] = H[k][r[k - 1]]
    BY <1>17, <2>1 DEF Traces
  <2>3. QED  BY <1>15, <2>2
<1>19. Unions(us) = r[len]
  BY <1>1, <1>11, <1>17 DEF Traces
<1>20. QED  BY <1>1, <1>17, <1>18, <1>19 DEF Traces

\* A splice of one span; the text left over by all of them, span by span.
Splices(r, s, new) == IF s.to > Len(r) THEN r ELSE Splice(r, s.from, s.to, new)
Spanning(P) == \A p \in P : p.from \in Nat /\ p.to \in Nat /\ p.from <= p.to
IsSpliced(f, text, spans, new) ==
  f = [T \in SUBSET DOMAIN spans |-> IF T = {} THEN text ELSE Splices(f[T \ {Max(T)}], spans[Max(T)], new)]

SplicesThrough(r, C, text, spans, new) ==
  /\ r \in [0 .. Len(spans) -> Seq(C)]
  /\ r[0] = text
  /\ \A k \in 1 .. Len(spans) : r[k] = Splices(r[k - 1], spans[k], new)
  /\ SpliceAll(text, spans, new) = r[Len(spans)]

\* The texts that splicing all spans goes through, none of them no text.
LEMMA SpliceRun ==
  ASSUME NEW C, NEW text \in Seq(C), NEW new \in Seq(C), NEW P, NEW spans \in Seq(P),
         Spanning(P)
  PROVE  \E r : SplicesThrough(r, C, text, spans, new)
<1>1. PICK len \in Nat : len = Len(spans) /\ DOMAIN spans = 1 .. len
  BY LenProperties
<1>2. \A i \in 1 .. len : \A r \in Seq(C) : Splices(r, spans[i], new) \in Seq(C)
  <2>1. \A i \in 1 .. len : spans[i] \in P
    BY <1>1, ElementOfSeq
  <2>2. ASSUME NEW i \in 1 .. len, NEW r \in Seq(C)
        PROVE  Splices(r, spans[i], new) \in Seq(C)
    <3>1. PICK from \in Nat, to \in Nat : spans[i].from = from /\ spans[i].to = to /\ from <= to
      BY <2>1 DEF Spanning
    <3>2. Len(r) \in Nat
      BY LenProperties
    <3>3. to <= Len(r) => Splice(r, from, to, new) \in Seq(C)
      BY <3>1, SpliceType
    <3>4. QED  BY <3>1, <3>2, <3>3 DEF Splices
  <2>3. QED  BY <2>2
<1>3. PICK G : G = [i \in 1 .. len |-> [r \in Seq(C) |-> Splices(r, spans[i], new)]]
  OBVIOUS
<1>4. \A i \in 1 .. len : \A r \in Seq(C) : G[i][r] = Splices(r, spans[i], new)
  BY <1>3
<1>5. Keeping(G, len, Seq(C))
  BY <1>2, <1>4 DEF Keeping
<1>6. PICK f : Iterates(f, len, text, G)
  BY FoldRun
<1>7. text \in Seq(C)
  OBVIOUS
<1>8. f \in [SUBSET (1 .. len) -> Seq(C)]
  BY <1>5, <1>6, <1>7, FoldSteps
<1>9. ASSUME NEW T \in SUBSET (1 .. len), T # {}
      PROVE  Max(T) \in 1 .. len /\ T \ {Max(T)} \in SUBSET (1 .. len)
  <2>1. Max(T) \in T
    BY <1>9, LastOf
  <2>2. QED  BY <2>1
<1>10. IsSpliced(f, text, spans, new)
  BY <1>1, <1>4, <1>6, <1>8, <1>9 DEF IsSpliced, Iterates
<1>11. PICK g : IsSpliced(g, text, spans, new) /\ SpliceAll(text, spans, new) = g[DOMAIN spans]
  <2>1. \E g : IsSpliced(g, text, spans, new)
    BY <1>10
  <2>2. QED  BY <2>1 DEF IsSpliced, Splices, SpliceAll, FoldLeft, MapThenFoldSet
<1>12. PICK Y : Y = Seq(C) \union {g[T] : T \in SUBSET (1 .. len)}
  OBVIOUS
<1>13. PICK H : H = [i \in 1 .. len |-> [r \in Y |-> Splices(r, spans[i], new)]]
  OBVIOUS
<1>14. Iterates(g, len, text, H)
  BY <1>1, <1>9, <1>11, <1>12, <1>13 DEF IsSpliced, Iterates
<1>15. \A i \in 1 .. len : \A r \in Seq(C) : H[i][r] = Splices(r, spans[i], new)
  BY <1>12, <1>13
<1>16. Keeping(H, len, Seq(C))
  BY <1>2, <1>15 DEF Keeping
<1>17. PICK r : Traces(r, g, len, text, H, Seq(C))
  BY <1>7, <1>14, <1>16, FoldSteps
<1>18. ASSUME NEW k \in 1 .. len
       PROVE  r[k] = Splices(r[k - 1], spans[k], new)
  <2>1. k - 1 \in 0 .. len
    OBVIOUS
  <2>2. r[k - 1] \in Seq(C) /\ r[k] = H[k][r[k - 1]]
    BY <1>17, <2>1 DEF Traces
  <2>3. QED  BY <1>15, <2>2
<1>19. SpliceAll(text, spans, new) = r[len]
  BY <1>1, <1>11, <1>17 DEF Traces
<1>20. r \in [0 .. len -> Seq(C)] /\ r[0] = text
  BY <1>17 DEF Traces
<1>21. SplicesThrough(r, C, text, spans, new)
  BY <1>1, <1>18, <1>19, <1>20 DEF SplicesThrough
<1>22. QED  BY <1>21

-----------------------------------------------------------------------------
(* What is found, kept and united: no element twice *)

\* No target twice.
Distinct(s) == \A i, j \in DOMAIN s : s[i] = s[j] => i = j

\* An element added at the end.
LEMMA Appended ==
  ASSUME NEW N, NEW s \in Seq(N), NEW e \in N
  PROVE  /\ Append(s, e) \in Seq(N)
         /\ SetOf(Append(s, e)) = SetOf(s) \union {e}
         /\ Distinct(s) /\ e \notin SetOf(s) => Distinct(Append(s, e))
<1>1. PICK len \in Nat : len = Len(s) /\ DOMAIN s = 1 .. len
  BY LenProperties
<1>2. PICK t : t = Append(s, e)
  OBVIOUS
<1>3. t \in Seq(N) /\ Len(t) = len + 1 /\ t[len + 1] = e /\ \A i \in 1 .. len : t[i] = s[i]
  BY <1>1, <1>2, AppendProperties
<1>4. DOMAIN t = 1 .. len + 1
  BY <1>3, LenProperties
<1>5. SetOf(t) \subseteq SetOf(s) \union {e}
  BY <1>1, <1>3, <1>4 DEF SetOf
<1>6. SetOf(s) \union {e} \subseteq SetOf(t)
  <2>1. e \in SetOf(t)
    BY <1>3, <1>4 DEF SetOf
  <2>2. ASSUME NEW i \in 1 .. len
        PROVE  s[i] \in SetOf(t)
    BY <1>3, <1>4 DEF SetOf
  <2>3. QED  BY <1>1, <2>1, <2>2 DEF SetOf
<1>7. ASSUME Distinct(s), e \notin SetOf(s)
      PROVE  Distinct(t)
  <2>1. \A i \in 1 .. len : s[i] # e
    BY <1>1, <1>7 DEF SetOf
  <2>2. QED  BY <1>1, <1>3, <1>4, <1>7, <2>1 DEF Distinct
<1>8. QED  BY <1>2, <1>3, <1>5, <1>6, <1>7

\* What the first places hold, and together.
Firsts(s, k) == {s[j] : j \in 1 .. k}
FirstsOf(us, k) == UNION {SetOf(us[j]) : j \in 1 .. k}

\* The elements of one place more.
LEMMA FirstsGrow ==
  ASSUME NEW s, NEW k \in Nat
  PROVE  /\ Firsts(s, 0) = {} /\ FirstsOf(s, 0) = {}
         /\ Firsts(s, k + 1) = Firsts(s, k) \union {s[k + 1]}
         /\ FirstsOf(s, k + 1) = FirstsOf(s, k) \union SetOf(s[k + 1])
<1>1. 1 .. 0 = {} /\ \A j : j \in 1 .. k + 1 <=> j \in 1 .. k \/ j = k + 1
  OBVIOUS
<1>2. Firsts(s, 0) = {} /\ FirstsOf(s, 0) = {}
  BY <1>1 DEF Firsts, FirstsOf
<1>3. Firsts(s, k + 1) = Firsts(s, k) \union {s[k + 1]}
  <2>1. \A x : x \in Firsts(s, k + 1) => x \in Firsts(s, k) \union {s[k + 1]}
    BY <1>1 DEF Firsts
  <2>2. \A x : x \in Firsts(s, k) \union {s[k + 1]} => x \in Firsts(s, k + 1)
    BY <1>1 DEF Firsts
  <2>3. QED  BY <2>1, <2>2
<1>4. FirstsOf(s, k + 1) = FirstsOf(s, k) \union SetOf(s[k + 1])
  <2>1. \A x : x \in FirstsOf(s, k + 1) => x \in FirstsOf(s, k) \union SetOf(s[k + 1])
    BY <1>1 DEF FirstsOf
  <2>2. \A x : x \in FirstsOf(s, k) \union SetOf(s[k + 1]) => x \in FirstsOf(s, k + 1)
    BY <1>1 DEF FirstsOf
  <2>3. QED  BY <2>1, <2>2
<1>5. QED  BY <1>2, <1>3, <1>4

\* A list of no more places than elements has no element twice.
LEMMA NoneTwice ==
  /\ SetOf(<<>>) = {}
  /\ Distinct(<<>>)
BY DEF SetOf, Distinct

\* To be an element of a list.
LEMMA ElementIn ==
  ASSUME NEW n, NEW s
  PROVE  ElementOf(n, s) <=> n \in SetOf(s)
BY DEF ElementOf, SetOf

\* What is found by one or the other.
LEMMA UnionMeans ==
  ASSUME NEW N, NEW s \in Seq(N), NEW t \in Seq(N)
  PROVE  /\ UnionOf(s, t) \in Seq(N)
         /\ SetOf(UnionOf(s, t)) = SetOf(s) \union SetOf(t)
         /\ Distinct(s) => Distinct(UnionOf(s, t))
<1>1. PICK len \in Nat : len = Len(t) /\ DOMAIN t = 1 .. len
  BY LenProperties
<1>2. PICK r \in [0 .. len -> Seq(N)] :
        /\ r[0] = s
        /\ \A k \in 1 .. len : r[k] = Adds(r[k - 1], t[k])
        /\ UnionOf(s, t) = r[len]
  BY <1>1, UnionRun, SMT
<1> DEFINE S == {k \in Nat : k <= len =>
                   /\ SetOf(r[k]) = SetOf(s) \union Firsts(t, k)
                   /\ Distinct(s) => Distinct(r[k])}
<1>3. 0 \in S
  <2>1. Firsts(t, 0) = {}
    BY FirstsGrow
  <2>2. QED  BY <1>2, <2>1
<1>4. ASSUME NEW k \in Nat, k \in S
      PROVE  k + 1 \in S
  <2>1. SUFFICES ASSUME k + 1 <= len
                 PROVE  /\ SetOf(r[k + 1]) = SetOf(s) \union Firsts(t, k + 1)
                        /\ Distinct(s) => Distinct(r[k + 1])
    OBVIOUS
  <2>2. PICK e \in N : e = t[k + 1]
    BY <1>1, <2>1, ElementOfSeq
  <2>3. PICK q \in Seq(N) : q = r[k]
    BY <1>2, <2>1
  <2>4. SetOf(q) = SetOf(s) \union Firsts(t, k) /\ (Distinct(s) => Distinct(q))
    BY <1>4, <2>1, <2>3
  <2>5. r[k + 1] = Adds(q, e)
    <3>1. k + 1 \in 1 .. len /\ (k + 1) - 1 = k
      BY <2>1
    <3>2. QED  BY <1>2, <2>2, <2>3, <3>1
  <2>6. SetOf(Adds(q, e)) = SetOf(q) \union {e} /\ (Distinct(q) => Distinct(Adds(q, e)))
    BY Appended, ElementIn DEF Adds
  <2>7. Firsts(t, k + 1) = Firsts(t, k) \union {e}
    BY <2>2, FirstsGrow
  <2>8. QED  BY <2>4, <2>5, <2>6, <2>7
<1>5. Nat \subseteq S
  <2> HIDE DEF S
  <2>1. QED  BY <1>3, <1>4, Induct
<1>6. SetOf(t) = Firsts(t, len)
  BY <1>1 DEF SetOf, Firsts
<1>7. len \in S /\ len \in 0 .. len
  BY <1>5
<1>8. QED  BY <1>2, <1>6, <1>7

\* What is found again.
LEMMA KeptMeans ==
  ASSUME NEW N, NEW s \in Seq(N), NEW S
  PROVE  /\ Kept(s, S) \in Seq(N)
         /\ SetOf(Kept(s, S)) = SetOf(s) \intersect S
         /\ Distinct(s) => Distinct(Kept(s, S))
<1>1. PICK len \in Nat : len = Len(s) /\ DOMAIN s = 1 .. len
  BY LenProperties
<1>2. PICK r \in [0 .. len -> Seq(N)] :
        /\ r[0] = <<>>
        /\ \A k \in 1 .. len : r[k] = Keeps(r[k - 1], s[k], S)
        /\ Kept(s, S) = r[len]
  <2>1. PICK K : K = Kept(s, S)
    OBVIOUS
  <2>2. QED  BY <1>1, <2>1, KeptRun
<1> DEFINE T == {k \in Nat : k <= len =>
                   /\ SetOf(r[k]) = Firsts(s, k) \intersect S
                   /\ Distinct(s) => Distinct(r[k])}
<1>3. 0 \in T
  <2>1. Firsts(s, 0) = {}
    BY FirstsGrow
  <2>2. QED  BY <1>2, <2>1, NoneTwice
<1>4. ASSUME NEW k \in Nat, k \in T
      PROVE  k + 1 \in T
  <2>1. SUFFICES ASSUME k + 1 <= len
                 PROVE  /\ SetOf(r[k + 1]) = Firsts(s, k + 1) \intersect S
                        /\ Distinct(s) => Distinct(r[k + 1])
    OBVIOUS
  <2>2. PICK e \in N : e = s[k + 1]
    BY <1>1, <2>1, ElementOfSeq
  <2>3. PICK q \in Seq(N) : q = r[k]
    BY <1>2, <2>1
  <2>4. SetOf(q) = Firsts(s, k) \intersect S /\ (Distinct(s) => Distinct(q))
    BY <1>4, <2>1, <2>3
  <2>5. r[k + 1] = Keeps(q, e, S)
    <3>1. k + 1 \in 1 .. len /\ (k + 1) - 1 = k
      BY <2>1
    <3>2. QED  BY <1>2, <2>2, <2>3, <3>1
  <2>6. Distinct(s) => e \notin SetOf(q)
    <3>1. ASSUME Distinct(s), NEW j \in 1 .. k
          PROVE  s[j] # e
      <4>1. j \in DOMAIN s /\ k + 1 \in DOMAIN s /\ j # k + 1
        BY <1>1, <2>1
      <4>2. QED  BY <2>2, <3>1, <4>1 DEF Distinct
    <3>2. QED  BY <2>4, <3>1 DEF Firsts
  <2>7. Firsts(s, k + 1) = Firsts(s, k) \union {e}
    BY <2>2, FirstsGrow
  <2>8. CASE e \in S
    <3>1. r[k + 1] = Append(q, e)
      BY <2>5, <2>8 DEF Keeps
    <3>2. SetOf(Append(q, e)) = SetOf(q) \union {e}
      BY Appended
    <3>3. Distinct(s) => Distinct(Append(q, e))
      BY <2>4, <2>6, Appended
    <3>4. QED  BY <2>4, <2>7, <2>8, <3>1, <3>2, <3>3
  <2>9. CASE e \notin S
    <3>1. r[k + 1] = q
      BY <2>5, <2>9 DEF Keeps
    <3>2. QED  BY <2>4, <2>7, <2>9, <3>1
  <2>10. QED  BY <2>8, <2>9
<1>5. Nat \subseteq T
  <2> HIDE DEF T
  <2>1. QED  BY <1>3, <1>4, Induct
<1>6. SetOf(s) = Firsts(s, len)
  BY <1>1 DEF SetOf, Firsts
<1>7. len \in T /\ len \in 0 .. len
  BY <1>5
<1>8. QED  BY <1>2, <1>6, <1>7

\* What is found by any.
LEMMA UnionsMean ==
  ASSUME NEW N, NEW us \in Seq(Seq(N))
  PROVE  /\ Unions(us) \in Seq(N)
         /\ SetOf(Unions(us)) = UNION {SetOf(us[i]) : i \in DOMAIN us}
         /\ Distinct(Unions(us))
<1>1. PICK len \in Nat : len = Len(us) /\ DOMAIN us = 1 .. len
  BY LenProperties
<1>2. PICK r \in [0 .. len -> Seq(N)] :
        /\ r[0] = <<>>
        /\ \A k \in 1 .. len : r[k] = UnionOf(r[k - 1], us[k])
        /\ Unions(us) = r[len]
  BY <1>1, UnionsRun, SMT
<1> DEFINE T == {k \in Nat : k <= len =>
                   /\ SetOf(r[k]) = FirstsOf(us, k)
                   /\ Distinct(r[k])}
<1>3. 0 \in T
  <2>1. FirstsOf(us, 0) = {}
    BY FirstsGrow
  <2>2. QED  BY <1>2, <2>1, NoneTwice
<1>4. ASSUME NEW k \in Nat, k \in T
      PROVE  k + 1 \in T
  <2>1. SUFFICES ASSUME k + 1 <= len
                 PROVE  /\ SetOf(r[k + 1]) = FirstsOf(us, k + 1)
                        /\ Distinct(r[k + 1])
    OBVIOUS
  <2>2. PICK u \in Seq(N) : u = us[k + 1]
    BY <1>1, <2>1, ElementOfSeq
  <2>3. PICK q \in Seq(N) : q = r[k]
    BY <1>2, <2>1
  <2>4. SetOf(q) = FirstsOf(us, k) /\ Distinct(q)
    BY <1>4, <2>1, <2>3
  <2>5. r[k + 1] = UnionOf(q, u)
    <3>1. k + 1 \in 1 .. len /\ (k + 1) - 1 = k
      BY <2>1
    <3>2. QED  BY <1>2, <2>2, <2>3, <3>1
  <2>6. SetOf(UnionOf(q, u)) = SetOf(q) \union SetOf(u) /\ Distinct(UnionOf(q, u))
    BY <2>4, UnionMeans
  <2>7. FirstsOf(us, k + 1) = FirstsOf(us, k) \union SetOf(u)
    BY <2>2, FirstsGrow
  <2>8. QED  BY <2>4, <2>5, <2>6, <2>7
<1>5. Nat \subseteq T
  <2> HIDE DEF T
  <2>1. QED  BY <1>3, <1>4, Induct
<1>6. len \in T /\ len \in 0 .. len
  BY <1>5
<1>7. QED  BY <1>1, <1>2, <1>6 DEF FirstsOf

-----------------------------------------------------------------------------
(* Putting keys in order *)

\* A finite set of numbers has a least one.
LEMMA Smallest ==
  ASSUME NEW T \in SUBSET Nat, T # {}
  PROVE  \E x \in T : \A y \in T : x <= y
<1> DEFINE S == {n \in Nat : \A U \in SUBSET Nat : (\E x \in U : x <= n) => \E x \in U : \A y \in U : x <= y}
<1>1. 0 \in S
  OBVIOUS
<1>2. ASSUME NEW n \in Nat, n \in S
      PROVE  n + 1 \in S
  <2>1. SUFFICES ASSUME NEW U \in SUBSET Nat, NEW x \in U, x <= n + 1
                 PROVE  \E z \in U : \A y \in U : z <= y
    OBVIOUS
  <2>2. CASE \E z \in U : z <= n
    BY <1>2, <2>2
  <2>3. CASE ~\E z \in U : z <= n
    <3>1. \A y \in U : x <= y
      BY <2>1, <2>3
    <3>2. QED  BY <3>1
  <2>4. QED  BY <2>2, <2>3
<1>3. Nat \subseteq S
  <2> HIDE DEF S
  <2>1. QED  BY <1>1, <1>2, Induct
<1>4. PICK x \in T : x \in Nat
  OBVIOUS
<1>5. x \in S /\ x <= x
  BY <1>3, <1>4
<1>6. QED  BY <1>4, <1>5

\* p puts the first n keys in order.
Sorts(p, n, key) ==
  /\ p \in [1 .. n -> 1 .. n]
  /\ \A i, j \in 1 .. n : p[i] = p[j] => i = j
  /\ \A t \in 1 .. n : \E i \in 1 .. n : p[i] = t
  /\ \A i, j \in 1 .. n : i < j => key[p[i]] <= key[p[j]]

\* One more is put where it belongs.
LEMMA SortMore ==
  ASSUME NEW n \in Nat, NEW key \in [1 .. n + 1 -> Int], NEW p, Sorts(p, n, key)
  PROVE  \E q : Sorts(q, n + 1, key)
<1>1. /\ p \in [1 .. n -> 1 .. n]
      /\ \A i, j \in 1 .. n : p[i] = p[j] => i = j
      /\ \A t \in 1 .. n : \E i \in 1 .. n : p[i] = t
      /\ \A i, j \in 1 .. n : i < j => key[p[i]] <= key[p[j]]
  BY DEF Sorts
<1>2. PICK x \in Int : x = key[n + 1]
  OBVIOUS
<1>3. PICK T : T = {k \in 1 .. n : key[p[k]] > x} \union {n + 1}
  OBVIOUS
<1>4. PICK m \in T : \A k \in T : m <= k
  <2>1. T \in SUBSET Nat /\ T # {}
    BY <1>3
  <2>2. QED  BY <2>1, Smallest
<1>5. m \in 1 .. n + 1
  BY <1>3, <1>4
<1>6. \A k \in 1 .. n : p[k] \in 1 .. n /\ key[p[k]] \in Int
  BY <1>1
<1>7. \A k \in 1 .. n : k < m => key[p[k]] <= x
  BY <1>3, <1>4, <1>5, <1>6
<1>8. \A k \in 1 .. n : m <= k => x <= key[p[k]]
  <2>1. SUFFICES ASSUME NEW k \in 1 .. n, m <= k
                 PROVE  x <= key[p[k]]
    OBVIOUS
  <2>2. m \in 1 .. n /\ key[p[m]] > x
    BY <1>3, <1>4, <1>5, <2>1
  <2>3. key[p[m]] <= key[p[k]]
    <3>1. CASE m = k
      BY <1>6, <3>1
    <3>2. CASE m < k
      BY <1>1, <2>2, <3>2
    <3>3. QED  BY <1>5, <2>1, <3>1, <3>2
  <2>4. QED  BY <1>6, <2>1, <2>2, <2>3
<1>80. \A i, j \in 1 .. n : i < j => key[p[i]] <= key[p[j]] /\ p[i] # p[j]
  <2>1. \A i, j \in 1 .. n : p[i] = p[j] => i = j
    BY <1>1
  <2>2. \A i, j \in 1 .. n : i < j => p[i] # p[j]
    BY <2>1
  <2>3. QED  BY <1>1, <2>2
<1>9. PICK q : q = [i \in 1 .. n + 1 |-> IF i < m THEN p[i] ELSE IF i = m THEN n + 1 ELSE p[i - 1]]
  OBVIOUS
<1>10. \A i \in 1 .. n + 1 :
         /\ i < m => i \in 1 .. n /\ q[i] = p[i]
         /\ i = m => q[i] = n + 1
         /\ i > m => i - 1 \in 1 .. n /\ q[i] = p[i - 1]
  BY <1>5, <1>9
<1>11. q \in [1 .. n + 1 -> 1 .. n + 1]
  <2>1. ASSUME NEW i \in 1 .. n + 1
        PROVE  q[i] \in 1 .. n + 1
    <3>1. CASE i < m
      <4>1. q[i] \in 1 .. n
        BY <1>6, <1>10, <3>1
      <4>2. QED  BY <4>1
    <3>2. CASE i = m
      BY <1>10, <3>2
    <3>3. CASE i > m
      <4>1. q[i] \in 1 .. n
        BY <1>6, <1>10, <3>3
      <4>2. QED  BY <4>1
    <3>4. QED  BY <1>5, <3>1, <3>2, <3>3
  <2>2. QED  BY <1>9, <2>1
<1>13. ASSUME NEW t \in 1 .. n + 1
       PROVE  \E i \in 1 .. n + 1 : q[i] = t
  <2>1. CASE t = n + 1
    BY <1>5, <1>10, <2>1
  <2>2. CASE t # n + 1
    <3>1. PICK k \in 1 .. n : p[k] = t
      BY <1>1, <2>2
    <3>2. CASE k < m
      BY <1>10, <3>1, <3>2
    <3>3. CASE k >= m
      <4>1. k + 1 \in 1 .. n + 1 /\ k + 1 > m /\ (k + 1) - 1 = k
        BY <1>5, <3>3
      <4>2. q[k + 1] = p[k]
        BY <1>10, <4>1
      <4>3. QED  BY <3>1, <4>1, <4>2
    <3>4. QED  BY <1>5, <3>2, <3>3
  <2>3. QED  BY <2>1, <2>2
<1>14. ASSUME NEW i \in 1 .. n + 1, NEW j \in 1 .. n + 1, i < j
       PROVE  key[q[i]] <= key[q[j]] /\ q[i] # q[j]
  <2>1. CASE j < m
    <3>1. i \in 1 .. n /\ j \in 1 .. n /\ q[i] = p[i] /\ q[j] = p[j]
      BY <1>5, <1>10, <1>14, <2>1
    <3>2. key[p[i]] <= key[p[j]] /\ p[i] # p[j]
      BY <1>80, <1>14, <3>1
    <3>3. QED  BY <3>1, <3>2
  <2>2. CASE j = m
    <3>1. i \in 1 .. n /\ i < m /\ q[i] = p[i] /\ q[j] = n + 1
      BY <1>5, <1>10, <1>14, <2>2
    <3>2. key[p[i]] <= x /\ p[i] \in 1 .. n
      BY <1>6, <1>7, <3>1
    <3>3. QED  BY <1>2, <3>1, <3>2
  <2>3. CASE j > m /\ i < m
    <3>1. i \in 1 .. n /\ j - 1 \in 1 .. n /\ i < j - 1 /\ q[i] = p[i] /\ q[j] = p[j - 1]
      BY <1>5, <1>10, <1>14, <2>3
    <3>2. key[p[i]] <= key[p[j - 1]] /\ p[i] # p[j - 1]
      BY <1>80, <3>1
    <3>3. QED  BY <3>1, <3>2
  <2>4. CASE j > m /\ i = m
    <3>1. j - 1 \in 1 .. n /\ m <= j - 1 /\ q[i] = n + 1 /\ q[j] = p[j - 1]
      BY <1>5, <1>10, <1>14, <2>4
    <3>2. x <= key[p[j - 1]] /\ p[j - 1] \in 1 .. n
      BY <1>6, <1>8, <3>1
    <3>3. QED  BY <1>2, <3>1, <3>2
  <2>5. CASE i > m
    <3>1. /\ i - 1 \in 1 .. n /\ j - 1 \in 1 .. n /\ i - 1 < j - 1
          /\ q[i] = p[i - 1] /\ q[j] = p[j - 1]
      BY <1>5, <1>10, <1>14, <2>5
    <3>2. key[p[i - 1]] <= key[p[j - 1]] /\ p[i - 1] # p[j - 1]
      BY <1>80, <3>1
    <3>3. QED  BY <3>1, <3>2
  <2>6. QED  BY <1>5, <1>14, <2>1, <2>2, <2>3, <2>4, <2>5
<1>12. ASSUME NEW i \in 1 .. n + 1, NEW j \in 1 .. n + 1, q[i] = q[j]
       PROVE  i = j
  <2>1. ~(i < j) /\ ~(j < i)
    BY <1>12, <1>14
  <2>2. QED  BY <2>1
<1>15. Sorts(q, n + 1, key)
  BY <1>11, <1>12, <1>13, <1>14 DEF Sorts
<1>16. QED  BY <1>15

\* What holds of the order of n keys.
Sortable(k, key) == \E p : Sorts(p, k, [i \in 1 .. k |-> key[i]])

\* Any keys can be put in order.
LEMMA CanSort ==
  ASSUME NEW n \in Nat, NEW key \in [1 .. n -> Int]
  PROVE  \E p : Sorts(p, n, key)
<1> DEFINE S == {k \in Nat : k <= n => Sortable(k, key)}
<1>1. 0 \in S
  <2>1. PICK p : p = [i \in 1 .. 0 |-> i]
    OBVIOUS
  <2>2. Sorts(p, 0, [i \in 1 .. 0 |-> key[i]])
    BY <2>1 DEF Sorts
  <2>3. QED  BY <2>2 DEF Sortable
<1>2. ASSUME NEW k \in Nat, k \in S
      PROVE  k + 1 \in S
  <2>1. SUFFICES ASSUME k + 1 <= n
                 PROVE  Sortable(k + 1, key)
    OBVIOUS
  <2>2. PICK short : short = [i \in 1 .. k |-> key[i]]
    OBVIOUS
  <2>3. PICK long : long = [i \in 1 .. k + 1 |-> key[i]]
    OBVIOUS
  <2>4. PICK p : Sorts(p, k, short)
    BY <1>2, <2>1, <2>2 DEF Sortable
  <2>5. long \in [1 .. k + 1 -> Int]
    BY <2>1, <2>3
  <2>6. \A i \in 1 .. k : short[i] = long[i]
    BY <2>2, <2>3
  <2>7. Sorts(p, k, long)
    <3>1. \A i \in 1 .. k : p[i] \in 1 .. k
      BY <2>4 DEF Sorts
    <3>2. QED  BY <2>4, <2>6, <3>1 DEF Sorts
  <2>8. \E q : Sorts(q, k + 1, long)
    BY <2>5, <2>7, SortMore
  <2>9. QED  BY <2>3, <2>8 DEF Sortable
<1>3. Nat \subseteq S
  <2> HIDE DEF S
  <2>1. QED  BY <1>1, <1>2, Induct
<1>4. Sortable(n, key)
  BY <1>3
<1>5. [i \in 1 .. n |-> key[i]] = key
  OBVIOUS
<1>6. QED  BY <1>4, <1>5 DEF Sortable

\* A sequence sorted has the same elements, in order.
LEMMA SortedWell ==
  ASSUME NEW N, NEW s \in Seq(N), NEW key \in [1 .. Len(s) -> Int]
  PROVE  \E p : /\ Sorts(p, Len(s), key)
                /\ Sorted(s, key) = [i \in 1 .. Len(s) |-> s[p[i]]]
                /\ Sorted(s, key) \in Seq(N) /\ Len(Sorted(s, key)) = Len(s)
                /\ SetOf(Sorted(s, key)) = SetOf(s)
                /\ Distinct(s) => Distinct(Sorted(s, key))
<1>1. PICK len \in Nat : len = Len(s) /\ DOMAIN s = 1 .. len
  BY LenProperties
<1>2. PICK D : D = {p \in Bijection(1 .. len, 1 .. len) :
                      \A i, j \in 1 .. len : i < j => key[p[i]] <= key[p[j]]}
  OBVIOUS
<1>3. \A p : p \in D <=> Sorts(p, len, key)
  <2>1. ASSUME NEW p \in D
        PROVE  Sorts(p, len, key)
    <3>1. p \in Bijection(1 .. len, 1 .. len)
      BY <1>2
    <3>2. QED  BY <1>2, <3>1 DEF Sorts, Bijection, Injection, Surjection, IsInjective
  <2>2. ASSUME NEW p, Sorts(p, len, key)
        PROVE  p \in D
    <3>1. p \in Bijection(1 .. len, 1 .. len)
      BY <2>2 DEF Sorts, Bijection, Injection, Surjection, IsInjective
    <3>2. QED  BY <1>2, <2>2, <3>1 DEF Sorts
  <2>3. QED  BY <2>1, <2>2
<1>4. \E p : p \in D
  BY <1>1, <1>3, CanSort
<1>5. PICK p \in D : p = CHOOSE q \in D : TRUE
  BY <1>4
<1>6. PICK c \in D : Sorted(s, key) = [i \in 1 .. len |-> s[c[i]]]
  <2>1. PICK c : c = CHOOSE q \in Bijection(1 .. len, 1 .. len) :
                       \A i, j \in 1 .. len : i < j => key[q[i]] <= key[q[j]]
    OBVIOUS
  <2>2. \E q \in Bijection(1 .. len, 1 .. len) : \A i, j \in 1 .. len : i < j => key[q[i]] <= key[q[j]]
    BY <1>2, <1>4
  <2>3. c \in D
    BY <1>2, <2>1, <2>2
  <2>4. Sorted(s, key) = [i \in 1 .. len |-> s[c[i]]]
    BY <1>1, <2>1 DEF Sorted
  <2>5. QED  BY <2>3, <2>4
<1>7. Sorts(c, len, key)
  BY <1>3
<1>8. PICK t : t = Sorted(s, key)
  OBVIOUS
<1>9. \A i \in 1 .. len : c[i] \in 1 .. len /\ t[i] = s[c[i]] /\ s[c[i]] \in N
  BY <1>1, <1>6, <1>7, <1>8, ElementOfSeq DEF Sorts
<1>10. t \in [1 .. len -> N]
  BY <1>6, <1>8, <1>9
<1>11. t \in Seq(N) /\ Len(t) = len
  BY <1>10
<1>12. SetOf(t) = SetOf(s)
  <2>1. \A x : x \in SetOf(t) => x \in SetOf(s)
    BY <1>1, <1>9, <1>10 DEF SetOf
  <2>2. ASSUME NEW j \in 1 .. len
        PROVE  s[j] \in SetOf(t)
    <3>1. PICK i \in 1 .. len : c[i] = j
      BY <1>7 DEF Sorts
    <3>2. QED  BY <1>9, <1>10, <3>1 DEF SetOf
  <2>3. \A x : x \in SetOf(s) => x \in SetOf(t)
    BY <1>1, <2>2 DEF SetOf
  <2>4. QED  BY <2>1, <2>3
<1>13. ASSUME Distinct(s)
       PROVE  Distinct(t)
  <2>1. ASSUME NEW i \in 1 .. len, NEW j \in 1 .. len, t[i] = t[j]
        PROVE  i = j
    <3>1. s[c[i]] = s[c[j]] /\ c[i] \in DOMAIN s /\ c[j] \in DOMAIN s
      BY <1>1, <1>9, <2>1
    <3>2. c[i] = c[j]
      BY <1>13, <3>1 DEF Distinct
    <3>3. QED  BY <1>7, <3>2 DEF Sorts
  <2>2. QED  BY <1>10, <2>1 DEF Distinct
<1>14. QED  BY <1>1, <1>6, <1>7, <1>8, <1>11, <1>12, <1>13

-----------------------------------------------------------------------------
(* The nodes of a text, in order, and targets from the last to the first *)

\* A node lies within its text, is not empty, and is the only one to begin
\* where it does.
LEMMA NodesOf ==
  ASSUME NEW text \in Seq(Symbols), NEW n \in Nodes(text)
  PROVE  /\ n.from \in Nat /\ n.to \in Nat
         /\ n.from < n.to /\ n.to <= Len(text)
         /\ \A m \in Nodes(text) : m.from = n.from => m = n
<1>1. PICK len \in Nat : len = Len(text) /\ DOMAIN text = 1 .. len
  BY LenProperties
<1>2. PICK i \in 1 .. len :
        /\ Ends(text, i) # {}
        /\ n = [kind |-> Opening[text[i]].kind, name |-> Opening[text[i]].name,
                from |-> i - 1, to |-> CHOOSE j \in Ends(text, i) : \A k \in Ends(text, i) : j <= k]
  BY <1>1 DEF Nodes
<1>3. PICK C : C = Ends(text, i)
  OBVIOUS
<1>4. C \subseteq i .. len
  <2>1. Closes(text, i) \subseteq i .. len
    BY <1>1 DEF Closes
  <2>2. {len} \subseteq i .. len
    OBVIOUS
  <2>3. C \in {{len}, Closes(text, i)}
    BY <1>1, <1>3 DEF Ends
  <2>4. QED  BY <2>1, <2>2, <2>3
<1>5. \E j \in C : \A k \in C : j <= k
  <2>1. C \in SUBSET Nat /\ C # {}
    BY <1>2, <1>3, <1>4
  <2>2. QED  BY <2>1, Smallest
<1>6. n.from = i - 1 /\ n.to \in C
  BY <1>2, <1>3, <1>5
<1>7. ASSUME NEW m \in Nodes(text), m.from = n.from
      PROVE  m = n
  <2>1. PICK k \in 1 .. len :
          m = [kind |-> Opening[text[k]].kind, name |-> Opening[text[k]].name,
               from |-> k - 1, to |-> CHOOSE j \in Ends(text, k) : \A l \in Ends(text, k) : j <= l]
    BY <1>1 DEF Nodes
  <2>2. m.from = k - 1
    BY <2>1
  <2>3. k = i
    BY <1>6, <1>7, <2>2
  <2>4. QED  BY <1>2, <2>1, <2>3
<1>8. PICK to \in i .. len : n.to = to
  BY <1>4, <1>6
<1>9. n.from \in Nat /\ n.to \in Nat /\ n.from < n.to /\ n.to <= len
  BY <1>6, <1>8
<1>10. QED  BY <1>1, <1>7, <1>9

\* A text has finitely many nodes.
LEMMA NodesFinite ==
  ASSUME NEW text \in Seq(Symbols), NEW S \in SUBSET Nodes(text)
  PROVE  IsFiniteSet(S)
<1>1. PICK len \in Nat : len = Len(text)
  BY LenProperties
<1>2. PICK f : f = [n \in S |-> n.from]
  OBVIOUS
<1>3. ASSUME NEW n \in S
      PROVE  f[n] \in 0 .. len /\ \A m \in S : f[m] = f[n] => m = n
  <2>1. /\ n.from \in Nat /\ n.to \in Nat
        /\ n.from < n.to /\ n.to <= Len(text)
        /\ \A m \in Nodes(text) : m.from = n.from => m = n
    BY NodesOf
  <2>2. QED  BY <1>1, <1>2, <2>1
<1>4. f \in Injection(S, 0 .. len)
  BY <1>2, <1>3 DEF Injection, IsInjective
<1>5. IsFiniteSet(0 .. len)
  BY FS_Interval
<1>6. QED  BY <1>4, <1>5, FS_Injection

\* A finite set as a sequence.
LEMMA SetSequence ==
  ASSUME NEW S, IsFiniteSet(S)
  PROVE  /\ SetToSeq(S) \in Seq(S)
         /\ SetOf(SetToSeq(S)) = S
         /\ Distinct(SetToSeq(S))
<1>1. PICK c \in Nat : c = Cardinality(S)
  BY FS_CardinalityType
<1>2. ExistsBijection(1 .. c, S)
  BY <1>1, FS_CardinalityType
<1>3. \E g \in [1 .. c -> S] : IsInjective(g)
  BY <1>2 DEF ExistsBijection, Bijection, Injection
<1>4. PICK f \in [1 .. c -> S] : f = SetToSeq(S) /\ IsInjective(f)
  BY <1>1, <1>3 DEF SetToSeq
<1>5. f \in Injection(1 .. c, S)
  BY <1>4 DEF Injection
<1>6. Cardinality(1 .. c) = c
  <2>1. 1 \in Int /\ c \in Int
    OBVIOUS
  <2>2. Cardinality(1 .. c) = IF 1 > c THEN 0 ELSE c - 1 + 1
    BY <2>1, FS_Interval
  <2>3. QED  BY <2>2
<1>7. f \in Surjection(1 .. c, S)
  BY <1>1, <1>5, <1>6, FS_Injection
<1>8. SetOf(f) = S
  BY <1>4, <1>7 DEF SetOf, Surjection
<1>9. Distinct(f)
  BY <1>4 DEF Distinct, IsInjective
<1>10. f \in Seq(S)
  OBVIOUS
<1>11. QED  BY <1>4, <1>8, <1>9, <1>10

\* The nodes of a set, in the order of the walk.
LEMMA InOrderMeans ==
  ASSUME NEW text \in Seq(Symbols), NEW S \in SUBSET Nodes(text)
  PROVE  /\ InOrder(S) \in Seq(Nodes(text))
         /\ SetOf(InOrder(S)) = S
         /\ Distinct(InOrder(S))
<1>1. IsFiniteSet(S)
  BY NodesFinite
<1>2. PICK s : s = SetToSeq(S)
  OBVIOUS
<1>3. s \in Seq(S) /\ SetOf(s) = S /\ Distinct(s)
  BY <1>1, <1>2, SetSequence
<1>4. s \in Seq(Nodes(text))
  BY <1>3, SeqMonotonic
<1>5. PICK key : key = [i \in DOMAIN s |-> s[i].from]
  OBVIOUS
<1>6. key \in [1 .. Len(s) -> Int]
  <2>1. DOMAIN s = 1 .. Len(s)
    BY <1>4, LenProperties
  <2>2. \A i \in 1 .. Len(s) : s[i] \in Nodes(text)
    BY <1>4, ElementOfSeq
  <2>3. \A i \in 1 .. Len(s) : s[i].from \in Int
    BY <2>2, NodesOf
  <2>4. QED  BY <1>5, <2>1, <2>3
<1>7. PICK t : t = Sorted(s, key)
  OBVIOUS
<1>8. t \in Seq(Nodes(text)) /\ SetOf(t) = S /\ Distinct(t)
  BY <1>3, <1>4, <1>6, <1>7, SortedWell
<1>9. InOrder(S) = t
  BY <1>2, <1>5, <1>7 DEF InOrder
<1>10. QED  BY <1>8, <1>9

\* The targets, the last one first.
LEMMA LastFirstMeans ==
  ASSUME NEW text \in Seq(Symbols), NEW targets \in Seq(Nodes(text)), Distinct(targets)
  PROVE  /\ LastFirst(targets) \in Seq(Nodes(text))
         /\ Len(LastFirst(targets)) = Len(targets)
         /\ SetOf(LastFirst(targets)) = SetOf(targets)
         /\ \A i, j \in 1 .. Len(targets) :
              i < j => LastFirst(targets)[j].from < LastFirst(targets)[i].from
<1>1. PICK len \in Nat : len = Len(targets) /\ DOMAIN targets = 1 .. len
  BY LenProperties
<1>2. PICK key : key = [i \in DOMAIN targets |-> -targets[i].from]
  OBVIOUS
<1>3. \A i \in 1 .. len : targets[i] \in Nodes(text)
  BY <1>1, ElementOfSeq
<1>4. \A i \in 1 .. len : targets[i].from \in Nat
  BY <1>3, NodesOf
<1>5. key \in [1 .. len -> Int] /\ \A i \in 1 .. len : key[i] = -targets[i].from
  BY <1>1, <1>2, <1>4
<1>6. PICK t : t = Sorted(targets, key)
  OBVIOUS
<1>7. PICK p : /\ Sorts(p, len, key)
               /\ t = [i \in 1 .. len |-> targets[p[i]]]
               /\ t \in Seq(Nodes(text)) /\ Len(t) = len
               /\ SetOf(t) = SetOf(targets)
  BY <1>1, <1>5, <1>6, SortedWell
<1>8. ASSUME NEW i \in 1 .. len, NEW j \in 1 .. len, i < j
      PROVE  t[j].from < t[i].from
  <2>1. /\ p[i] \in 1 .. len /\ p[j] \in 1 .. len /\ p[i] # p[j]
        /\ key[p[i]] <= key[p[j]]
    <3>1. /\ p \in [1 .. len -> 1 .. len]
          /\ p[i] = p[j] => i = j
          /\ i < j => key[p[i]] <= key[p[j]]
      BY <1>7 DEF Sorts
    <3>2. QED  BY <1>8, <3>1
  <2>2. t[i] = targets[p[i]] /\ t[j] = targets[p[j]]
    BY <1>7
  <2>3. targets[p[j]].from <= targets[p[i]].from
    <3>1. PICK a \in Nat, b \in Nat : a = targets[p[i]].from /\ b = targets[p[j]].from
      BY <1>4, <2>1
    <3>2. key[p[i]] = -a /\ key[p[j]] = -b
      BY <1>5, <2>1, <3>1
    <3>3. -a <= -b
      BY <2>1, <3>2
    <3>4. QED  BY <3>1, <3>3
  <2>4. targets[p[i]] # targets[p[j]]
    BY <1>1, <2>1 DEF Distinct
  <2>5. targets[p[j]].from # targets[p[i]].from
    BY <1>3, <2>1, <2>4, NodesOf
  <2>6. targets[p[i]].from \in Nat /\ targets[p[j]].from \in Nat
    BY <1>4, <2>1
  <2>7. QED  BY <2>2, <2>3, <2>5, <2>6
<1>9. LastFirst(targets) = t
  BY <1>2, <1>6 DEF LastFirst
<1>10. QED  BY <1>1, <1>7, <1>8, <1>9

-----------------------------------------------------------------------------
(* Texts made from their end *)

\* It does not matter which two of three are put together first.
Associates(C) == \A s, t, u \in Seq(C) : (s \o t) \o u = s \o (t \o u)

\* Joining texts is associative.
LEMMA Joining ==
  ASSUME NEW C
  PROVE  Associates(C)
<1>1. ASSUME NEW s \in Seq(C), NEW t \in Seq(C), NEW u \in Seq(C)
      PROVE  (s \o t) \o u = s \o (t \o u)
  BY ConcatAssociative
<1>2. QED  BY <1>1, Zenon DEF Associates

\* A text made from its end to its front: every place adds what it has before
\* what some later place has made.
Chained(F, len, pre, nxt) ==
  F = [i \in 0 .. len |-> IF i = len THEN pre[len] ELSE pre[i] \o F[nxt[i]]]

\* The places from k before the end on are made.
MadeFrom(F, k, len, pre, nxt) ==
  /\ F = [i \in 0 .. len |-> F[i]]
  /\ \A i \in len - k .. len : F[i] = IF i = len THEN pre[len] ELSE pre[i] \o F[nxt[i]]

\* A text made step by step from its end exists.
LEMMA ChainExists ==
  ASSUME NEW len \in Nat, NEW pre, NEW nxt, \A i \in 0 .. len - 1 : nxt[i] \in i + 1 .. len
  PROVE  \E F : Chained(F, len, pre, nxt)
<1> DEFINE S == {k \in Nat : k <= len => \E F : MadeFrom(F, k, len, pre, nxt)}
<1>1. 0 \in S
  <2>1. PICK F : F = [i \in 0 .. len |-> pre[len]]
    OBVIOUS
  <2>2. MadeFrom(F, 0, len, pre, nxt)
    BY <2>1 DEF MadeFrom
  <2>3. QED  BY <2>2
<1>2. ASSUME NEW k \in Nat, k \in S
      PROVE  k + 1 \in S
  <2>1. SUFFICES ASSUME k + 1 <= len
                 PROVE  \E F : MadeFrom(F, k + 1, len, pre, nxt)
    OBVIOUS
  <2>2. PICK F : MadeFrom(F, k, len, pre, nxt)
    BY <1>2, <2>1
  <2>3. PICK at1 \in 0 .. len - 1 : at1 = len - (k + 1)
    BY <2>1
  <2>4. PICK E : E = [i \in 0 .. len |-> IF i = at1 THEN pre[i] \o F[nxt[i]] ELSE F[i]]
    OBVIOUS
  <2>5. \A i \in len - k .. len : E[i] = F[i] /\ i # at1
    BY <2>1, <2>3, <2>4
  <2>6. ASSUME NEW i \in len - (k + 1) .. len
        PROVE  E[i] = IF i = len THEN pre[len] ELSE pre[i] \o E[nxt[i]]
    <3>1. CASE i = at1
      <4>1. nxt[at1] \in len - k .. len
        BY <2>1, <2>3
      <4>2. E[nxt[at1]] = F[nxt[at1]]
        BY <2>5, <4>1
      <4>3. E[at1] = pre[at1] \o F[nxt[at1]]
        BY <2>3, <2>4
      <4>4. at1 # len
        BY <2>3
      <4>5. QED  BY <3>1, <4>2, <4>3, <4>4
    <3>2. CASE i # at1
      <4>1. i \in len - k .. len
        BY <2>1, <2>3, <3>2
      <4>2. i # len => nxt[i] \in len - k .. len
        BY <2>1, <4>1
      <4>3. F[i] = IF i = len THEN pre[len] ELSE pre[i] \o F[nxt[i]]
        BY <2>2, <4>1 DEF MadeFrom
      <4>4. QED  BY <2>5, <4>1, <4>2, <4>3
    <3>3. QED  BY <3>1, <3>2
  <2>7. E = [i \in 0 .. len |-> E[i]]
    BY <2>4
  <2>8. MadeFrom(E, k + 1, len, pre, nxt)
    BY <2>6, <2>7 DEF MadeFrom
  <2>9. QED  BY <2>8
<1>3. Nat \subseteq S
  <2> HIDE DEF S
  <2>1. QED  BY <1>1, <1>2, Induct
<1>4. PICK F : MadeFrom(F, len, len, pre, nxt)
  <2>1. len \in S /\ len <= len
    BY <1>3
  <2>2. QED  BY <2>1
<1>5. Chained(F, len, pre, nxt)
  <2>1. len - len = 0
    OBVIOUS
  <2>2. QED  BY <1>4, <2>1 DEF Chained, MadeFrom
<1>6. QED  BY <1>5

\* It is a text.
LEMMA ChainType ==
  ASSUME NEW C, NEW len \in Nat, NEW pre \in [0 .. len -> Seq(C)], NEW nxt,
         \A i \in 0 .. len - 1 : nxt[i] \in i + 1 .. len,
         NEW F, Chained(F, len, pre, nxt)
  PROVE  F \in [0 .. len -> Seq(C)]
<1>1. \A i \in 0 .. len : F[i] = IF i = len THEN pre[len] ELSE pre[i] \o F[nxt[i]]
  BY DEF Chained
<1> DEFINE S == {k \in Nat : k <= len => \A i \in len - k .. len : F[i] \in Seq(C)}
<1>2. 0 \in S
  <2>1. len \in 0 .. len /\ \A i \in len - 0 .. len : i = len
    OBVIOUS
  <2>2. QED  BY <1>1, <2>1
<1>3. ASSUME NEW k \in Nat, k \in S
      PROVE  k + 1 \in S
  <2>1. SUFFICES ASSUME k + 1 <= len, NEW i \in len - (k + 1) .. len
                 PROVE  F[i] \in Seq(C)
    OBVIOUS
  <2>2. \A j \in len - k .. len : F[j] \in Seq(C)
    BY <1>3, <2>1
  <2>3. CASE i \in len - k .. len
    BY <2>2, <2>3
  <2>4. CASE i = len - (k + 1)
    <3>1. i \in 0 .. len - 1 /\ i # len
      BY <2>1, <2>4
    <3>2. nxt[i] \in len - k .. len
      BY <2>1, <2>4, <3>1
    <3>3. F[nxt[i]] \in Seq(C) /\ pre[i] \in Seq(C)
      BY <2>2, <3>1, <3>2
    <3>4. F[i] = pre[i] \o F[nxt[i]]
      <4>1. i \in 0 .. len
        BY <3>1
      <4>2. QED  BY <1>1, <3>1, <4>1
    <3>5. QED  BY <3>3, <3>4, ConcatProperties
  <2>5. QED  BY <2>1, <2>3, <2>4
<1>4. Nat \subseteq S
  <2> HIDE DEF S
  <2>1. QED  BY <1>2, <1>3, Induct
<1>5. \A i \in 0 .. len : F[i] \in Seq(C)
  <2>1. len \in S
    BY <1>4
  <2>2. len <= len /\ len - len = 0
    OBVIOUS
  <2>3. QED  BY <2>1, <2>2
<1>6. QED  BY <1>5 DEF Chained

\* Places that copy a symbol each copy what is between two places.
Copying(F, text, a, b) ==
  /\ a \in Nat /\ b \in Nat /\ a <= b /\ b <= Len(text)
  /\ \A i \in a .. b - 1 : F[i] = <<text[i + 1]>> \o F[i + 1]
Copied(F, text, a, b) == F[a] = SubSeq(text, a + 1, b) \o F[b]

\* A chain that adds nothing between copies the text.
LEMMA Copies ==
  ASSUME NEW C, NEW text \in Seq(C), NEW F \in [0 .. Len(text) -> Seq(C)],
         NEW a, NEW b, Copying(F, text, a, b)
  PROVE  Copied(F, text, a, b)
<1> /\ a \in Nat /\ b \in Nat /\ a <= b /\ b <= Len(text)
    /\ \A i \in a .. b - 1 : F[i] = <<text[i + 1]>> \o F[i + 1]
  BY DEF Copying
<1>1. PICK len \in Nat : len = Len(text) /\ \A i \in 1 .. len : text[i] \in C
  BY LenProperties, ElementOfSeq
<1> DEFINE S == {k \in Nat : k <= b - a => F[b - k] = SubSeq(text, (b - k) + 1, b) \o F[b]}
<1>2. 0 \in S
  <2>1. SubSeq(text, b + 1, b) = <<>>
    BY SubSeqEmpty
  <2>2. F[b] \in Seq(C)
    BY <1>1
  <2>3. <<>> \o F[b] = F[b]
    BY <2>2, ConcatEmptySeq
  <2>4. b - 0 = b
    OBVIOUS
  <2>5. QED  BY <2>1, <2>3, <2>4
<1>3. ASSUME NEW k \in Nat, k \in S
      PROVE  k + 1 \in S
  <2>1. SUFFICES ASSUME k + 1 <= b - a
                 PROVE  F[b - (k + 1)] = SubSeq(text, (b - (k + 1)) + 1, b) \o F[b]
    OBVIOUS
  <2>2. PICK i \in a .. b - 1 : i = b - (k + 1) /\ i + 1 = b - k
    BY <2>1
  <2>3. F[i + 1] = SubSeq(text, (i + 1) + 1, b) \o F[b]
    <3>1. k <= b - a
      BY <2>1
    <3>2. F[b - k] = SubSeq(text, (b - k) + 1, b) \o F[b]
      BY <1>3, <3>1
    <3>3. QED  BY <2>2, <3>2
  <2>4. F[i] = <<text[i + 1]>> \o F[i + 1]
    BY <2>2
  <2>5. SubSeq(text, i + 1, b) = <<text[i + 1]>> \o SubSeq(text, (i + 1) + 1, b)
    <3>1. i + 1 \in 1 .. len /\ b \in i + 1 .. len
      BY <1>1, <2>2
    <3>2. QED  BY <1>1, <3>1, SubSeqRecursiveFirst
  <2>6. <<text[i + 1]>> \in Seq(C) /\ SubSeq(text, (i + 1) + 1, b) \in Seq(C) /\ F[b] \in Seq(C)
    <3>1. text[i + 1] \in C
      BY <1>1, <2>2
    <3>2. \A j \in (i + 1) + 1 .. b : text[j] \in C
      BY <1>1, <2>2
    <3>3. (i + 1) + 1 \in Int /\ b \in Int
      BY <2>2
    <3>4. SubSeq(text, (i + 1) + 1, b) \in Seq(C)
      BY <3>2, <3>3, SubSeqProperties
    <3>5. QED  BY <1>1, <3>1, <3>4
  <2>7. (<<text[i + 1]>> \o SubSeq(text, (i + 1) + 1, b)) \o F[b]
        = <<text[i + 1]>> \o (SubSeq(text, (i + 1) + 1, b) \o F[b])
    <3>1. Associates(C)
      BY Joining
    <3>2. QED  BY <2>6, <3>1, Zenon DEF Associates
  <2>8. QED  BY <2>2, <2>3, <2>4, <2>5, <2>7
<1>4. Nat \subseteq S
  <2> HIDE DEF S
  <2>1. QED  BY <1>2, <1>3, Induct
<1>5. PICK k \in Nat : k = b - a /\ b - k = a
  OBVIOUS
<1>6. k \in S
  BY <1>4
<1>7. F[b - k] = SubSeq(text, (b - k) + 1, b) \o F[b]
  BY <1>5, <1>6
<1>8. QED  BY <1>5, <1>7 DEF Copied

-----------------------------------------------------------------------------
(* Splices from the last to the first *)

\* The two parts of a text put together from two.
LEMMA SplitAgain ==
  ASSUME NEW C, NEW s \in Seq(C), NEW u \in Seq(C), NEW f \in 0 .. Len(s)
  PROVE  /\ SubSeq(s \o u, 1, f) = SubSeq(s, 1, f)
         /\ SubSeq(s \o u, Len(s) + 1, Len(s \o u)) = u
<1>1. PICK len \in Nat, len2 \in Nat : len = Len(s) /\ len2 = Len(u)
  BY LenProperties
<1>2. /\ s \o u \in Seq(C) /\ Len(s \o u) = len + len2
      /\ \A i \in 1 .. len + len2 : (s \o u)[i] = IF i <= len THEN s[i] ELSE u[i - len]
  BY <1>1, ConcatProperties
<1>3. SubSeq(s \o u, 1, f) = SubSeq(s, 1, f)
  <2>1. CASE f = 0
    <3>1. 1 \in Int /\ f \in Int /\ f < 1
      BY <2>1
    <3>2. QED  BY <3>1, SubSeqEmpty
  <2>2. CASE f # 0
    <3>1. 1 \in 1 .. Len(s) /\ f \in 1 .. Len(s)
      BY <1>1, <2>2
    <3>2. QED  BY <3>1, SubSeqOfConcat1
  <2>3. QED  BY <2>1, <2>2
<1>4. SubSeq(s \o u, len + 1, len + len2) = u
  <2>1. CASE len2 = 0
    <3>1. len + 1 \in Int /\ len + len2 \in Int /\ len + len2 < len + 1
      BY <2>1
    <3>2. SubSeq(s \o u, len + 1, len + len2) = <<>>
      BY <3>1, SubSeqEmpty
    <3>3. u = <<>>
      <4>1. \A v \in Seq(C) : v # <<>> => Len(v) \in Nat \ {0}
        BY EmptySeq
      <4>2. Len(u) = 0
        BY <1>1, <2>1
      <4>3. QED  BY <4>1, <4>2
    <3>4. QED  BY <3>2, <3>3
  <2>2. CASE len2 # 0
    <3>1. len + 1 \in Len(s) + 1 .. Len(s) + Len(u) /\ len + len2 \in Len(s) + 1 .. Len(s) + Len(u)
      BY <1>1, <2>2
    <3>2. SubSeq(s \o u, len + 1, len + len2) = SubSeq(u, len + 1 - Len(s), len + len2 - Len(s))
      BY <3>1, SubSeqOfConcat2
    <3>3. len + 1 - Len(s) = 1 /\ len + len2 - Len(s) = Len(u)
      BY <1>1
    <3>4. SubSeq(u, 1, Len(u)) = u
      BY SubSeqFull
    <3>5. QED  BY <3>2, <3>3, <3>4
  <2>3. QED  BY <2>1, <2>2
<1>5. QED  BY <1>1, <1>2, <1>3, <1>4

\* A part of a text.
LEMMA PartType ==
  ASSUME NEW C, NEW text \in Seq(C), NEW a \in Nat, NEW b \in Nat, b <= Len(text)
  PROVE  /\ SubSeq(text, a + 1, b) \in Seq(C)
         /\ a <= b => Len(SubSeq(text, a + 1, b)) = b - a
         /\ SubSeq(text, 1, b) \in Seq(C) /\ Len(SubSeq(text, 1, b)) = b
<1>1. PICK len \in Nat : len = Len(text) /\ \A i \in 1 .. len : text[i] \in C
  BY LenProperties, ElementOfSeq
<1>2. \A i \in a + 1 .. b : text[i] \in C
  BY <1>1
<1>3. \A i \in 1 .. b : text[i] \in C
  BY <1>1
<1>4. a + 1 \in Int /\ b \in Int /\ 1 \in Int
  OBVIOUS
<1>5. /\ SubSeq(text, a + 1, b) \in Seq(C)
      /\ Len(SubSeq(text, a + 1, b)) = IF a + 1 <= b THEN b - (a + 1) + 1 ELSE 0
  BY <1>2, <1>4, SubSeqProperties
<1>6. /\ SubSeq(text, 1, b) \in Seq(C)
      /\ Len(SubSeq(text, 1, b)) = IF 1 <= b THEN b - 1 + 1 ELSE 0
  BY <1>3, <1>4, SubSeqProperties
<1>7. QED  BY <1>5, <1>6

\* An edit behind which the text is already edited.
Ahead(r, text, tail, f, t, p) ==
  f <= t /\ t <= p /\ p <= Len(text) /\ r = SubSeq(text, 1, p) \o tail

SplicedIn(r, text, new, tail, f, t, p) ==
  /\ t <= Len(r)
  /\ Splice(r, f, t, new) = SubSeq(text, 1, f) \o (new \o (SubSeq(text, t + 1, p) \o tail))

\* A splice before what is done leaves it as it is.
LEMMA SpliceIn ==
  ASSUME NEW C, NEW text \in Seq(C), NEW new \in Seq(C), NEW tail \in Seq(C),
         NEW f \in Nat, NEW t \in Nat, NEW p \in Nat, NEW r, Ahead(r, text, tail, f, t, p)
  PROVE  SplicedIn(r, text, new, tail, f, t, p)
<1> f <= t /\ t <= p /\ p <= Len(text) /\ r = SubSeq(text, 1, p) \o tail
  BY DEF Ahead
<1>1. PICK len \in Nat, len2 \in Nat : len = Len(text) /\ len2 = Len(tail)
  BY LenProperties
<1>2. PICK A, B, D : A = SubSeq(text, 1, f) /\ B = SubSeq(text, 1, t) /\ D = SubSeq(text, t + 1, p)
  OBVIOUS
<1>3. A \in Seq(C) /\ B \in Seq(C) /\ D \in Seq(C) /\ Len(B) = t
  <2>1. f <= Len(text) /\ t <= Len(text) /\ f \in Nat /\ t \in Nat
    BY <1>1
  <2>2. A \in Seq(C)
    BY <1>2, <2>1, PartType
  <2>3. B \in Seq(C) /\ Len(B) = t
    BY <1>2, <2>1, PartType
  <2>4. D \in Seq(C)
    BY <1>2, <2>1, PartType
  <2>5. QED  BY <2>2, <2>3, <2>4
<1>4. SubSeq(text, 1, p) = B \o D
  <2>1. 1 \in 1 .. Len(text) + 1 /\ t \in 1 - 1 .. Len(text) /\ p \in t .. Len(text)
    BY <1>1
  <2>2. SubSeq(text, 1, t) \o SubSeq(text, t + 1, p) = SubSeq(text, 1, p)
    BY <2>1, ConcatAdjacentSubSeq
  <2>3. QED  BY <1>2, <2>2
<1>5. PICK u : u = D \o tail
  OBVIOUS
<1>6. u \in Seq(C)
  BY <1>3, <1>5, ConcatProperties
<1>7. r = B \o u
  <2>1. (B \o D) \o tail = B \o (D \o tail)
    <3>1. Associates(C)
      BY Joining
    <3>2. B \in Seq(C) /\ D \in Seq(C) /\ tail \in Seq(C)
      BY <1>3
    <3>3. QED  BY <3>1, <3>2, Zenon DEF Associates
  <2>2. QED  BY <1>4, <1>5, <2>1
<1>8. f \in 0 .. Len(B)
  BY <1>3
<1>9. SubSeq(r, 1, f) = SubSeq(B, 1, f) /\ SubSeq(r, t + 1, Len(r)) = u
  <2>1. /\ SubSeq(B \o u, 1, f) = SubSeq(B, 1, f)
        /\ SubSeq(B \o u, Len(B) + 1, Len(B \o u)) = u
    BY <1>3, <1>6, <1>8, SplitAgain
  <2>2. QED  BY <1>3, <1>7, <2>1
<1>10. SubSeq(B, 1, f) = A
  <2>1. PICK E : E = SubSeq(text, f + 1, t)
    OBVIOUS
  <2>2. 1 \in 1 .. Len(text) + 1 /\ f \in 1 - 1 .. Len(text) /\ t \in f .. Len(text)
    BY <1>1
  <2>3. SubSeq(text, 1, f) \o SubSeq(text, f + 1, t) = SubSeq(text, 1, t)
    BY <2>2, ConcatAdjacentSubSeq
  <2>4. B = A \o E
    BY <1>2, <2>1, <2>3
  <2>5. E \in Seq(C) /\ Len(A) = f
    BY <1>1, <1>2, <2>1, PartType
  <2>6. f \in 0 .. Len(A)
    BY <2>5
  <2>7. SubSeq(A \o E, 1, f) = SubSeq(A, 1, f)
    BY <1>3, <2>5, <2>6, SplitAgain
  <2>8. SubSeq(A, 1, Len(A)) = A
    BY <1>3, SubSeqFull
  <2>9. QED  BY <2>4, <2>5, <2>7, <2>8
<1>11. Splice(r, f, t, new) = (A \o new) \o u
  BY <1>9, <1>10 DEF Splice
<1>12. (A \o new) \o u = A \o (new \o u)
  <2>1. A \in Seq(C) /\ new \in Seq(C) /\ u \in Seq(C)
    BY <1>3, <1>6
  <2>2. Associates(C)
    BY Joining
  <2>3. QED  BY <2>1, <2>2, Zenon DEF Associates
<1>13. Len(r) = Len(B) + Len(u) /\ Len(u) \in Nat
  <2>1. Len(B \o u) = Len(B) + Len(u)
    BY <1>3, <1>6, ConcatProperties
  <2>2. Len(u) \in Nat
    BY <1>6, LenProperties
  <2>3. QED  BY <1>7, <2>1, <2>2
<1>14. Splice(r, f, t, new) = A \o (new \o (D \o tail))
  BY <1>5, <1>11, <1>12
<1>15. t <= Len(r)
  BY <1>3, <1>13
<1>16. QED  BY <1>2, <1>14, <1>15 DEF SplicedIn

\* Spans from the last to the first, each with what is made of the text from
\* it on.
Backward(text, spans, new, pos, tail, C) ==
  /\ pos \in [0 .. Len(spans) -> 0 .. Len(text)] /\ tail \in [0 .. Len(spans) -> Seq(C)]
  /\ pos[0] = Len(text) /\ tail[0] = <<>>
  /\ \A k \in 1 .. Len(spans) :
       /\ spans[k].from = pos[k] /\ spans[k].to \in pos[k] .. pos[k - 1]
       /\ tail[k] = new \o (SubSeq(text, spans[k].to + 1, pos[k - 1]) \o tail[k - 1])

SplicedAll(text, spans, new, pos, tail) ==
  SpliceAll(text, spans, new) = SubSeq(text, 1, pos[Len(spans)]) \o tail[Len(spans)]

\* Splices from the last to the first are all made in the first text.
LEMMA SpliceAllIs ==
  ASSUME NEW C, NEW text \in Seq(C), NEW new \in Seq(C),
         NEW P, NEW spans \in Seq(P),
         Spanning(P), NEW pos, NEW tail, Backward(text, spans, new, pos, tail, C)
  PROVE  SplicedAll(text, spans, new, pos, tail)
<1>1. PICK n \in Nat : n = Len(spans)
  BY LenProperties
<1>2. PICK len \in Nat : len = Len(text)
  BY LenProperties
<1>3. PICK r \in [0 .. n -> Seq(C)] :
        /\ r[0] = text
        /\ \A k \in 1 .. n : r[k] = Splices(r[k - 1], spans[k], new)
        /\ SpliceAll(text, spans, new) = r[n]
  <2>1. PICK r : SplicesThrough(r, C, text, spans, new)
    BY SpliceRun
  <2>2. QED  BY <1>1, <2>1 DEF SplicesThrough
<1>4. /\ pos \in [0 .. n -> 0 .. len] /\ tail \in [0 .. n -> Seq(C)]
      /\ pos[0] = len /\ tail[0] = <<>>
  BY <1>1, <1>2 DEF Backward
<1>5. \A k \in 1 .. n :
       /\ spans[k].from = pos[k] /\ spans[k].to \in pos[k] .. pos[k - 1]
       /\ tail[k] = new \o (SubSeq(text, spans[k].to + 1, pos[k - 1]) \o tail[k - 1])
  BY <1>1 DEF Backward
<1> DEFINE S == {k \in Nat : k <= n => r[k] = SubSeq(text, 1, pos[k]) \o tail[k]}
<1>6. 0 \in S
  <2>1. SubSeq(text, 1, Len(text)) = text
    BY SubSeqFull
  <2>2. text \o <<>> = text
    BY ConcatEmptySeq
  <2>3. QED  BY <1>2, <1>3, <1>4, <2>1, <2>2
<1>7. ASSUME NEW k \in Nat, k \in S
      PROVE  k + 1 \in S
  <2>0. k + 1 \in Nat
    OBVIOUS
  <2>1. SUFFICES ASSUME k + 1 <= n
                 PROVE  r[k + 1] = SubSeq(text, 1, pos[k + 1]) \o tail[k + 1]
    BY <2>0
  <2>2. r[k] = SubSeq(text, 1, pos[k]) \o tail[k]
    <3>1. k <= n
      BY <2>1
    <3>2. QED  BY <1>7, <3>1
  <2>3. PICK j \in 1 .. n : j = k + 1 /\ j - 1 = k
    BY <2>1
  <2>4. /\ spans[j].from = pos[j] /\ spans[j].to \in pos[j] .. pos[k]
        /\ tail[j] = new \o (SubSeq(text, spans[j].to + 1, pos[k]) \o tail[k])
    BY <1>5, <2>3
  <2>5. r[j] = Splices(r[k], spans[j], new)
    BY <1>3, <2>3
  <2>6. PICK f \in Nat, p \in Nat : f = pos[j] /\ p = pos[k] /\ p <= Len(text)
    <3>1. j \in 0 .. n /\ k \in 0 .. n
      BY <2>1, <2>3
    <3>2. pos \in [0 .. n -> 0 .. len]
      BY <1>4
    <3>3. pos[j] \in 0 .. len /\ pos[k] \in 0 .. len
      BY <3>1, <3>2
    <3>4. QED  BY <1>2, <3>3
  <2>7. PICK t \in Nat : t = spans[j].to /\ f <= t /\ t <= p
    <3>1. spans[j].to \in f .. p
      BY <2>4, <2>6
    <3>2. PICK t \in f .. p : t = spans[j].to
      BY <3>1
    <3>3. t \in Nat /\ f <= t /\ t <= p
      BY <2>6, SMT
    <3>4. QED  BY <3>2, <3>3
  <2>8. tail[k] \in Seq(C)
    BY <1>4, <2>3
  <2>9. /\ t <= Len(r[k])
        /\ Splice(r[k], f, t, new) = SubSeq(text, 1, f) \o (new \o (SubSeq(text, t + 1, p) \o tail[k]))
    <3>1. r[k] = SubSeq(text, 1, p) \o tail[k]
      BY <2>2, <2>6
    <3>2. PICK q, w : q = r[k] /\ w = tail[k]
      OBVIOUS
    <3>3. w \in Seq(C) /\ q = SubSeq(text, 1, p) \o w
      BY <2>8, <3>1, <3>2
    <3>4. p <= Len(text) /\ f <= t /\ t <= p
      BY <2>6, <2>7
    <3>5. /\ t <= Len(q)
          /\ Splice(q, f, t, new) = SubSeq(text, 1, f) \o (new \o (SubSeq(text, t + 1, p) \o w))
      <4>1. Ahead(q, text, w, f, t, p)
        BY <3>3, <3>4 DEF Ahead
      <4>2. w \in Seq(C)
        BY <3>3
      <4>3. SplicedIn(q, text, new, w, f, t, p)
        BY <4>1, <4>2, SpliceIn
      <4>4. QED  BY <4>3 DEF SplicedIn
    <3>6. QED  BY <3>2, <3>5
  <2>10. Len(r[k]) \in Nat
    <3>1. r[k] \in Seq(C)
      BY <1>3, <2>3
    <3>2. QED  BY <3>1, LenProperties
  <2>11. r[j] = Splice(r[k], f, t, new)
    <3>1. ~(spans[j].to > Len(r[k]))
      <4>1. PICK m \in Nat : m = Len(r[k])
        BY <2>10
      <4>2. t <= m
        BY <2>9, <4>1
      <4>3. ~(t > m)
        BY <4>2
      <4>4. QED  BY <2>7, <4>1, <4>3
    <3>2. spans[j].from = f /\ spans[j].to = t
      BY <2>4, <2>6, <2>7
    <3>3. QED  BY <2>5, <3>1, <3>2 DEF Splices
  <2>12. tail[j] = new \o (SubSeq(text, t + 1, p) \o tail[k])
    BY <2>4, <2>6, <2>7
  <2>13. QED  BY <2>3, <2>6, <2>9, <2>11, <2>12
<1>8. Nat \subseteq S
  <2> HIDE DEF S
  <2>1. QED  BY <1>6, <1>7, Induct
<1>9. n \in S
  BY <1>8
<1>10. r[n] = SubSeq(text, 1, pos[n]) \o tail[n]
  <2>1. n <= n
    OBVIOUS
  <2>2. QED  BY <1>9, <2>1
<1>11. QED  BY <1>1, <1>3, <1>10 DEF SplicedAll

-----------------------------------------------------------------------------
(* Insertions *)

\* Offsets from the last to the first.
Descending(off, n) == \A i, j \in 1 .. n : i < j => off[j] < off[i]

\* Of offsets in descending order, none is between one and the one before it.
LEMMA NoneBetween ==
  ASSUME NEW len \in Nat, NEW n \in Nat, NEW off \in [1 .. n -> 0 .. len], Descending(off, n),
         NEW k \in 1 .. n, NEW j \in 1 .. n
  PROVE  off[j] <= off[k] \/ (k # 1 /\ off[k - 1] <= off[j])
<1>1. off[j] \in 0 .. len /\ off[k] \in 0 .. len
  OBVIOUS
<1>2. CASE j = k
  BY <1>1, <1>2
<1>3. CASE k < j
  BY <1>1, <1>3 DEF Descending
<1>4. CASE j < k
  <2>1. k # 1 /\ k - 1 \in 1 .. n /\ (j < k - 1 \/ j = k - 1)
    BY <1>4
  <2>2. off[k - 1] \in 0 .. len
    BY <2>1
  <2>3. off[k - 1] <= off[j]
    <3>1. CASE j = k - 1
      BY <1>1, <3>1
    <3>2. CASE j < k - 1
      <4>1. off[k - 1] < off[j]
        BY <2>1, <3>2 DEF Descending
      <4>2. QED  BY <1>1, <2>2, <4>1
    <3>3. QED  BY <2>1, <3>1, <3>2
  <2>4. QED  BY <2>1, <2>3
<1>5. QED  BY <1>2, <1>3, <1>4

\* What Inserted makes of the text from each place on.
IsInserted(F, text, offsets, new) ==
  F = [i \in 0 .. Len(text) |->
         IF i = Len(text) THEN (IF i \in offsets THEN new ELSE <<>>)
         ELSE (IF i \in offsets THEN new ELSE <<>>) \o <<text[i + 1]>> \o F[i + 1]]

InsertsFrom(F, C, text, offsets, new) ==
  /\ F \in [0 .. Len(text) -> Seq(C)]
  /\ Inserted(text, offsets, new) = F[0]
  /\ F[Len(text)] = IF Len(text) \in offsets THEN new ELSE <<>>
  /\ \A i \in 0 .. Len(text) - 1 :
       F[i] = IF i \in offsets THEN new \o (<<text[i + 1]>> \o F[i + 1])
              ELSE <<text[i + 1]>> \o F[i + 1]

\* The recursion of Inserted is well defined.
LEMMA InsertedFrom ==
  ASSUME NEW C, NEW text \in Seq(C), NEW new \in Seq(C), NEW offsets
  PROVE  \E F : InsertsFrom(F, C, text, offsets, new)
<1>1. PICK len \in Nat : len = Len(text) /\ \A i \in 1 .. len : text[i] \in C
  BY LenProperties, ElementOfSeq
<1>2. PICK here : here = [i \in 0 .. len |-> IF i \in offsets THEN new ELSE <<>>]
  OBVIOUS
<1>3. PICK pre : pre = [i \in 0 .. len |-> IF i = len THEN here[i] ELSE here[i] \o <<text[i + 1]>>]
  OBVIOUS
<1>4. PICK nxt : nxt = [i \in 0 .. len |-> i + 1]
  OBVIOUS
<1>5. \A i \in 0 .. len - 1 : nxt[i] \in i + 1 .. len
  BY <1>4
<1>6. \A i \in 0 .. len : here[i] \in Seq(C)
  BY <1>2, EmptySeq
<1>7. \A i \in 0 .. len - 1 : <<text[i + 1]>> \in Seq(C)
  BY <1>1
<1>8. pre \in [0 .. len -> Seq(C)]
  <2>1. ASSUME NEW i \in 0 .. len
        PROVE  pre[i] \in Seq(C)
    <3>1. CASE i = len
      BY <1>3, <1>6, <3>1
    <3>2. CASE i # len
      <4>1. i \in 0 .. len - 1
        BY <3>2
      <4>2. PICK h, c : h = here[i] /\ c = <<text[i + 1]>>
        OBVIOUS
      <4>3. h \in Seq(C) /\ c \in Seq(C)
        BY <1>6, <1>7, <4>1, <4>2
      <4>4. h \o c \in Seq(C)
        BY <4>3, ConcatProperties
      <4>5. pre[i] = h \o c
        BY <1>3, <3>2, <4>2
      <4>6. QED  BY <4>4, <4>5
    <3>3. QED  BY <3>1, <3>2
  <2>2. QED  BY <1>3, <2>1
<1>9. PICK F : Chained(F, len, pre, nxt)
  BY <1>5, ChainExists
<1>10. IsInserted(F, text, offsets, new)
  <2>1. ASSUME NEW i \in 0 .. len
        PROVE  (IF i = len THEN pre[len] ELSE pre[i] \o F[nxt[i]])
               = IF i = Len(text) THEN (IF i \in offsets THEN new ELSE <<>>)
                 ELSE (IF i \in offsets THEN new ELSE <<>>) \o <<text[i + 1]>> \o F[i + 1]
    BY <1>1, <1>2, <1>3, <1>4
  <2>2. F = [i \in 0 .. len |-> IF i = len THEN pre[len] ELSE pre[i] \o F[nxt[i]]]
    BY <1>9 DEF Chained
  <2>3. QED  BY <1>1, <2>1, <2>2 DEF IsInserted
<1>11. PICK G : IsInserted(G, text, offsets, new) /\ Inserted(text, offsets, new) = G[0]
  <2>1. \E f : IsInserted(f, text, offsets, new)
    BY <1>10
  <2>2. QED  BY <2>1 DEF IsInserted, Inserted
<1>12. Chained(G, len, pre, nxt)
  <2>1. ASSUME NEW i \in 0 .. len
        PROVE  (IF i = len THEN pre[len] ELSE pre[i] \o G[nxt[i]])
               = IF i = Len(text) THEN (IF i \in offsets THEN new ELSE <<>>)
                 ELSE (IF i \in offsets THEN new ELSE <<>>) \o <<text[i + 1]>> \o G[i + 1]
    BY <1>1, <1>2, <1>3, <1>4
  <2>2. QED  BY <1>1, <1>11, <2>1 DEF IsInserted, Chained
<1>13. G \in [0 .. len -> Seq(C)]
  BY <1>5, <1>8, <1>12, ChainType
<1>14. \A i \in 0 .. len :
         G[i] = IF i = len THEN (IF i \in offsets THEN new ELSE <<>>)
                ELSE (IF i \in offsets THEN new ELSE <<>>) \o <<text[i + 1]>> \o G[i + 1]
  BY <1>1, <1>11 DEF IsInserted
<1>15. G[len] = IF len \in offsets THEN new ELSE <<>>
  <2>1. len \in 0 .. len
    OBVIOUS
  <2>2. QED  BY <1>14, <2>1
<1>16. ASSUME NEW i \in 0 .. len - 1
       PROVE  G[i] = IF i \in offsets THEN new \o (<<text[i + 1]>> \o G[i + 1])
                     ELSE <<text[i + 1]>> \o G[i + 1]
  <2>1. PICK c, g : c = <<text[i + 1]>> /\ g = G[i + 1]
    OBVIOUS
  <2>2. c \in Seq(C) /\ g \in Seq(C)
    BY <1>7, <1>13, <2>1
  <2>3. i \in 0 .. len /\ i # len
    OBVIOUS
  <2>4. G[i] = ((IF i \in offsets THEN new ELSE <<>>) \o c) \o g
    BY <1>14, <2>1, <2>3
  <2>5. CASE i \in offsets
    <3>1. Associates(C)
      BY Joining
    <3>2. (new \o c) \o g = new \o (c \o g)
      BY <2>2, <3>1, Zenon DEF Associates
    <3>3. QED  BY <2>1, <2>4, <2>5, <3>2
  <2>6. CASE i \notin offsets
    <3>1. <<>> \o c = c
      BY <2>2, ConcatEmptySeq
    <3>2. QED  BY <2>1, <2>4, <2>6, <3>1
  <2>7. QED  BY <2>5, <2>6
<1>17. InsertsFrom(G, C, text, offsets, new)
  BY <1>1, <1>11, <1>13, <1>15, <1>16 DEF InsertsFrom
<1>18. QED  BY <1>17

\* The n offsets, and the points there.
Sites(text, n, off, spans, offsets) ==
  /\ n \in Nat /\ off \in [1 .. n -> 0 .. Len(text)] /\ Descending(off, n)
  /\ spans = [i \in 1 .. n |-> Point(off[i])]
  /\ offsets = {off[i] : i \in 1 .. n}

\* New text at offsets, the last first, is what Inserted says.
LEMMA InsertedIs ==
  ASSUME NEW C, NEW text \in Seq(C), NEW new \in Seq(C),
         NEW n, NEW off, NEW spans, NEW offsets, Sites(text, n, off, spans, offsets)
  PROVE  SpliceAll(text, spans, new) = Inserted(text, offsets, new)
<1> /\ n \in Nat /\ off \in [1 .. n -> 0 .. Len(text)] /\ Descending(off, n)
    /\ spans = [i \in 1 .. n |-> Point(off[i])]
    /\ offsets = {off[i] : i \in 1 .. n}
  BY DEF Sites
<1>1. PICK len \in Nat : len = Len(text) /\ DOMAIN text = 1 .. len
  BY LenProperties
<1>2. PICK F \in [0 .. len -> Seq(C)] :
        /\ Inserted(text, offsets, new) = F[0]
        /\ F[len] = IF len \in offsets THEN new ELSE <<>>
        /\ \A i \in 0 .. len - 1 :
             F[i] = IF i \in offsets THEN new \o (<<text[i + 1]>> \o F[i + 1])
                    ELSE <<text[i + 1]>> \o F[i + 1]
  <2>1. PICK F : InsertsFrom(F, C, text, offsets, new)
    BY InsertedFrom
  <2>2. QED  BY <1>1, <2>1 DEF InsertsFrom
<1>3. PICK pos : pos = [k \in 0 .. n |-> IF k = 0 THEN len ELSE off[k]]
  OBVIOUS
<1>4. PICK tail : tail = [k \in 0 .. n |-> IF k = 0 THEN <<>> ELSE F[off[k]]]
  OBVIOUS
<1>5. \A k \in 1 .. n : off[k] \in 0 .. len /\ off[k] \in offsets
  BY <1>1
<1>6. \A i \in offsets : \E k \in 1 .. n : i = off[k]
  OBVIOUS
<1>7. pos \in [0 .. n -> 0 .. len] /\ pos[0] = len /\ \A k \in 1 .. n : pos[k] = off[k]
  <2>1. \A k \in 0 .. n : pos[k] = IF k = 0 THEN len ELSE off[k]
    BY <1>3
  <2>2. ASSUME NEW k \in 0 .. n
        PROVE  pos[k] \in 0 .. len
    <3>1. k # 0 => k \in 1 .. n
      OBVIOUS
    <3>2. k # 0 => off[k] \in 0 .. len
      BY <1>5, <3>1
    <3>3. QED  BY <2>1, <3>2
  <2>3. 0 \in 0 .. n /\ \A k \in 1 .. n : k \in 0 .. n /\ k # 0
    OBVIOUS
  <2>4. pos \in [0 .. n -> 0 .. len]
    BY <1>3, <2>2
  <2>5. QED  BY <2>1, <2>3, <2>4
<1>8. tail \in [0 .. n -> Seq(C)] /\ tail[0] = <<>> /\ \A k \in 1 .. n : tail[k] = F[off[k]]
  <2>1. \A k \in 0 .. n : tail[k] = IF k = 0 THEN <<>> ELSE F[off[k]]
    BY <1>4
  <2>2. ASSUME NEW k \in 0 .. n
        PROVE  tail[k] \in Seq(C)
    <3>1. k # 0 => k \in 1 .. n
      OBVIOUS
    <3>2. k # 0 => off[k] \in 0 .. len
      BY <1>5, <3>1
    <3>3. k # 0 => F[off[k]] \in Seq(C)
      BY <3>2
    <3>4. QED  BY <2>1, <3>3, EmptySeq
  <2>3. 0 \in 0 .. n /\ \A k \in 1 .. n : k \in 0 .. n /\ k # 0
    OBVIOUS
  <2>4. tail \in [0 .. n -> Seq(C)]
    BY <1>4, <2>2
  <2>5. QED  BY <2>1, <2>3, <2>4
<1>9. PICK P : P = {Point(i) : i \in 0 .. len}
  OBVIOUS
<1>10. Spanning(P)
  BY <1>9 DEF Spanning, Point
<1>11. spans \in Seq(P) /\ Len(spans) = n
         /\ \A k \in 1 .. n : spans[k].from = off[k] /\ spans[k].to = off[k]
  <2>1. \A k \in 1 .. n : Point(off[k]) \in P
    BY <1>5, <1>9
  <2>2. spans \in [1 .. n -> P]
    BY <2>1
  <2>3. \A k \in 1 .. n : spans[k] = Point(off[k])
    OBVIOUS
  <2>4. QED  BY <2>2, <2>3 DEF Point
<1>12. ASSUME NEW k \in 1 .. n
       PROVE  /\ off[k] <= pos[k - 1]
              /\ off[k] = pos[k - 1] => k = 1
              /\ \A i \in off[k] + 1 .. pos[k - 1] - 1 : i \notin offsets
              /\ F[pos[k - 1]] = tail[k - 1] \/ off[k] = pos[k - 1]
  <2>1. CASE k = 1
    <3>1. pos[k - 1] = len /\ tail[k - 1] = <<>> /\ off[k] \in 0 .. len
      BY <1>5, <1>7, <1>8, <2>1
    <3>2. \A j \in 1 .. n : off[j] <= off[k]
      <4>1. off \in [1 .. n -> 0 .. len]
        BY <1>1
      <4>2. QED  BY <2>1, <4>1, NoneBetween
    <3>3. PICK a \in 0 .. len : a = off[k]
      BY <3>1
    <3>4. ASSUME NEW i \in a + 1 .. len, i \in offsets
          PROVE  FALSE
      <4>1. PICK j \in 1 .. n : i = off[j]
        BY <1>6, <3>4
      <4>2. i <= a
        BY <3>2, <3>3, <4>1
      <4>3. QED  BY <4>2
    <3>5. a # len => len \in a + 1 .. len
      OBVIOUS
    <3>6. a # len => F[len] = <<>>
      BY <1>2, <3>4, <3>5
    <3>7. a <= len
      OBVIOUS
    <3>8. \A i \in a + 1 .. len - 1 : i \notin offsets
      BY <3>4
    <3>9. QED  BY <2>1, <3>1, <3>3, <3>6, <3>7, <3>8
  <2>2. CASE k # 1
    <3>1. k - 1 \in 1 .. n /\ k - 1 < k
      BY <2>2
    <3>2. pos[k - 1] = off[k - 1] /\ off[k] < off[k - 1] /\ off[k - 1] \in 0 .. len
      BY <1>5, <1>7, <3>1 DEF Descending
    <3>3. tail[k - 1] = F[off[k - 1]]
      BY <1>8, <3>1
    <3>4. \A j \in 1 .. n : off[j] <= off[k] \/ off[k - 1] <= off[j]
      <4>1. off \in [1 .. n -> 0 .. len]
        BY <1>1
      <4>2. QED  BY <2>2, <4>1, NoneBetween
    <3>5. PICK a \in 0 .. len, b \in 0 .. len : a = off[k] /\ b = off[k - 1]
      BY <1>5, <3>2
    <3>6. ASSUME NEW i \in a + 1 .. b - 1, i \in offsets
          PROVE  FALSE
      <4>1. PICK j \in 1 .. n : i = off[j]
        BY <1>6, <3>6
      <4>2. i <= a \/ b <= i
        BY <3>4, <3>5, <4>1
      <4>3. QED  BY <4>2
    <3>7. a < b
      BY <3>2, <3>5
    <3>8. a <= b /\ a # b
      BY <3>7
    <3>9. QED  BY <3>2, <3>3, <3>5, <3>6, <3>8
  <2>3. QED  BY <2>1, <2>2
<1>13. ASSUME NEW k \in 1 .. n
       PROVE  tail[k] = new \o (SubSeq(text, off[k] + 1, pos[k - 1]) \o tail[k - 1])
  <2>1. PICK a \in 0 .. len, b \in 0 .. len, g \in Seq(C) :
          a = off[k] /\ b = pos[k - 1] /\ g = tail[k - 1] /\ a \in offsets /\ a <= b
    <3>1. k - 1 \in 0 .. n
      OBVIOUS
    <3>2. pos[k - 1] \in 0 .. len /\ tail[k - 1] \in Seq(C)
      BY <1>7, <1>8, <3>1
    <3>3. QED  BY <1>5, <1>12, <3>2
  <2>2. tail[k] = F[a]
    BY <1>8, <2>1
  <2>3. CASE a = b
    <3>1. k = 1
      BY <1>12, <2>1, <2>3
    <3>2. b = len /\ g = <<>>
      BY <1>7, <1>8, <2>1, <3>1
    <3>3. SubSeq(text, a + 1, b) = <<>>
      BY <2>3, SubSeqEmpty
    <3>4. <<>> \o g = <<>> /\ new \o <<>> = new
      BY <3>2, EmptySeq, ConcatEmptySeq
    <3>5. F[a] = new
      BY <1>2, <2>1, <2>3, <3>2
    <3>6. QED  BY <2>1, <2>2, <3>3, <3>4, <3>5
  <2>4. CASE a # b
    <3>1. a \in 0 .. len - 1 /\ a + 1 \in 0 .. len /\ a \in Nat /\ b \in Nat /\ b <= Len(text)
      BY <1>1, <2>1, <2>4, SMTT(60)
    <3>2. PICK c : c = <<text[a + 1]>> \o F[a + 1]
      OBVIOUS
    <3>3. F[a] = new \o c
      BY <1>2, <2>1, <3>1, <3>2
    <3>4. c \in Seq(C)
      <4>1. <<text[a + 1]>> \in Seq(C)
        <5>1. a + 1 \in 1 .. Len(text)
          BY <1>1, <3>1
        <5>2. text[a + 1] \in C
          BY <5>1, ElementOfSeq
        <5>3. QED  BY <5>2
      <4>2. F[a + 1] \in Seq(C)
        BY <3>1
      <4>3. QED  BY <3>2, <4>1, <4>2, ConcatProperties
    <3>5. PICK E : E = [i \in 0 .. len |-> IF i = a THEN c ELSE F[i]]
      OBVIOUS
    <3>6. E \in [0 .. Len(text) -> Seq(C)]
      BY <1>1, <3>4, <3>5
    <3>7. ASSUME NEW i \in a .. b - 1
          PROVE  E[i] = <<text[i + 1]>> \o E[i + 1]
      <4>1. i \in 0 .. len - 1 /\ i + 1 \in 0 .. len /\ i + 1 # a /\ i \in 0 .. len
        <5>1. a \in 0 .. len /\ b \in 0 .. len
          OBVIOUS
        <5>2. i \in Int /\ a <= i /\ i <= b - 1
          BY <5>1
        <5>3. QED  BY <5>1, <5>2
      <4>2. E[i + 1] = F[i + 1]
        BY <3>5, <4>1
      <4>3. CASE i = a
        BY <3>2, <3>5, <4>1, <4>2, <4>3
      <4>4. CASE i # a
        <5>1. i \in a + 1 .. b - 1
          BY <2>1, <4>4
        <5>2. i \notin offsets
          BY <1>12, <2>1, <5>1
        <5>3. F[i] = <<text[i + 1]>> \o F[i + 1]
          BY <1>2, <4>1, <5>2
        <5>4. QED  BY <3>5, <4>1, <4>2, <4>4, <5>3
      <4>5. QED  BY <4>3, <4>4
    <3>8. E[a] = SubSeq(text, a + 1, b) \o E[b]
      <4>1. Copying(E, text, a, b)
        BY <2>1, <3>1, <3>7 DEF Copying
      <4>2. Copied(E, text, a, b)
        BY <3>6, <4>1, Copies
      <4>3. QED  BY <4>2 DEF Copied
    <3>9. E[a] = c /\ E[b] = F[b]
      BY <2>4, <3>5
    <3>10. F[b] = g
      BY <1>12, <2>1, <2>4
    <3>11. QED  BY <2>1, <2>2, <3>3, <3>8, <3>9, <3>10
  <2>5. QED  BY <2>3, <2>4
<1>14. Backward(text, spans, new, pos, tail, C)
  <2>1. ASSUME NEW k \in 1 .. n
        PROVE  spans[k].from = pos[k] /\ spans[k].to \in pos[k] .. pos[k - 1]
    <3>1. k - 1 \in 0 .. n
      OBVIOUS
    <3>2. pos[k - 1] \in 0 .. len /\ off[k] \in 0 .. len /\ off[k] <= pos[k - 1] /\ pos[k] = off[k]
      BY <1>5, <1>7, <1>12, <3>1
    <3>3. QED  BY <1>11, <3>2
  <2>2. ASSUME NEW k \in 1 .. n
        PROVE  tail[k] = new \o (SubSeq(text, spans[k].to + 1, pos[k - 1]) \o tail[k - 1])
    BY <1>11, <1>13
  <2>3. QED  BY <1>1, <1>7, <1>8, <1>11, <2>1, <2>2 DEF Backward
<1>15. SpliceAll(text, spans, new) = SubSeq(text, 1, pos[n]) \o tail[n]
  <2>1. SplicedAll(text, spans, new, pos, tail)
    BY <1>10, <1>11, <1>14, SpliceAllIs
  <2>2. QED  BY <1>11, <2>1 DEF SplicedAll
<1>16. PICK b \in 0 .. len : b = pos[n] /\ \A i \in 0 .. b - 1 : i \notin offsets
  <2>1. n \in 0 .. n
    OBVIOUS
  <2>2. pos[n] \in 0 .. len
    BY <1>7, <2>1
  <2>3. CASE n = 0
    <3>1. \A k : k \notin 1 .. n
      BY <2>3
    <3>2. \A i : i \notin offsets
      BY <1>6, <3>1
    <3>3. QED  BY <2>2, <3>2
  <2>4. CASE n # 0
    <3>1. n \in 1 .. n /\ pos[n] = off[n]
      BY <1>7, <2>4
    <3>2. \A j \in 1 .. n : off[n] <= off[j]
      <4>1. ASSUME NEW j \in 1 .. n
            PROVE  off[n] <= off[j]
        <5>1. off[n] \in 0 .. len /\ off[j] \in 0 .. len
          BY <1>5, <3>1
        <5>2. j < n => off[n] < off[j]
          BY <3>1 DEF Descending
        <5>3. j = n \/ j < n
          OBVIOUS
        <5>4. QED  BY <5>1, <5>2, <5>3
      <4>2. QED  BY <4>1
    <3>3. \A i \in 0 .. off[n] - 1 : i \notin offsets
      BY <1>5, <1>6, <3>1, <3>2
    <3>4. QED  BY <2>2, <3>1, <3>3
  <2>5. QED  BY <2>3, <2>4
<1>17. F[0] = SubSeq(text, 0 + 1, b) \o F[b]
  <2>1. ASSUME NEW i \in 0 .. b - 1
        PROVE  F[i] = <<text[i + 1]>> \o F[i + 1]
    <3>1. i \in 0 .. len - 1 /\ i \notin offsets
      BY <1>16
    <3>2. QED  BY <1>2, <3>1
  <2>2. F \in [0 .. Len(text) -> Seq(C)] /\ 0 <= b /\ b <= Len(text) /\ b \in Nat
    BY <1>1
  <2>3. Copying(F, text, 0, b)
    BY <2>1, <2>2 DEF Copying
  <2>4. Copied(F, text, 0, b)
    BY <2>2, <2>3, Copies
  <2>5. QED  BY <2>4 DEF Copied
<1>18. F[b] = tail[n]
  <2>1. CASE n = 0
    <3>1. \A i : i \notin offsets
      BY <1>6, <2>1
    <3>2. F[len] = <<>>
      BY <1>2, <3>1
    <3>3. QED  BY <1>7, <1>8, <1>16, <2>1, <3>2
  <2>2. CASE n # 0
    BY <1>7, <1>8, <1>16, <2>2
  <2>3. QED  BY <2>1, <2>2
<1>19. SubSeq(text, 0 + 1, b) \o F[b] = SubSeq(text, 1, pos[n]) \o tail[n]
  BY <1>16, <1>18
<1>20. QED  BY <1>2, <1>15, <1>17, <1>19

-----------------------------------------------------------------------------
(* Replacements *)

\* What Replaced makes of the text from each place on.
IsReplaced(F, text, outer, new) ==
  F = [i \in 0 .. Len(text) |->
         IF \E n \in outer : n.from = i
         THEN new \o F[(CHOOSE n \in outer : n.from = i).to]
         ELSE IF i = Len(text) THEN <<>> ELSE <<text[i + 1]>> \o F[i + 1]]

\* The targets inside no other.
Outer(targets) == {n \in SetOf(targets) : ~\E m \in SetOf(targets) : Inside(n, m)}

ReplacesFrom(F, text, targets, new) ==
  /\ F \in [0 .. Len(text) -> Seq(Symbols)]
  /\ Replaced(text, targets, new) = F[0]
  /\ F[Len(text)] = <<>>
  /\ \A n \in Outer(targets) : F[n.from] = new \o F[n.to]
  /\ \A i \in 0 .. Len(text) - 1 :
       (\A n \in Outer(targets) : n.from # i) => F[i] = <<text[i + 1]>> \o F[i + 1]

\* The recursion of Replaced is well defined.
LEMMA ReplacedFrom ==
  ASSUME NEW text \in Seq(Symbols), NEW new \in Seq(Symbols),
         NEW targets, SetOf(targets) \subseteq Nodes(text)
  PROVE  \E F : ReplacesFrom(F, text, targets, new)
<1>1. PICK len \in Nat : len = Len(text) /\ \A i \in 1 .. len : text[i] \in Symbols
  BY LenProperties, ElementOfSeq
<1>2. PICK outer : outer = Outer(targets)
  OBVIOUS
<1>3. ASSUME NEW n \in outer
      PROVE  /\ n.from \in Nat /\ n.to \in Nat /\ n.from < n.to /\ n.to <= len
             /\ \A m \in outer : m.from = n.from => m = n
  <2>1. n \in Nodes(text) /\ \A m \in outer : m \in Nodes(text)
    BY <1>2 DEF Outer
  <2>2. /\ n.from \in Nat /\ n.to \in Nat
        /\ n.from < n.to /\ n.to <= Len(text)
        /\ \A m \in Nodes(text) : m.from = n.from => m = n
    BY <2>1, NodesOf
  <2>3. QED  BY <1>1, <2>1, <2>2
<1>4. PICK end : end = [i \in 0 .. len |-> (CHOOSE n \in outer : n.from = i).to]
  OBVIOUS
<1>5. \A n \in outer : n.from \in 0 .. len /\ end[n.from] = n.to
  <2>1. ASSUME NEW n \in outer
        PROVE  n.from \in 0 .. len /\ end[n.from] = n.to
    <3>1. PICK i \in 0 .. len : i = n.from
      BY <1>1, <1>3
    <3>2. \A m \in outer : m.from = i => m = n
      BY <1>3, <3>1
    <3>3. (CHOOSE m \in outer : m.from = i) = n
      BY <3>1, <3>2
    <3>4. QED  BY <1>4, <3>1, <3>3
  <2>2. QED  BY <2>1
<1>6. PICK starts : starts = {n.from : n \in outer}
  OBVIOUS
<1>7. \A i : i \in starts <=> \E n \in outer : n.from = i
  BY <1>6
<1>8. ASSUME NEW i \in starts
      PROVE  i \in 0 .. len - 1 /\ end[i] \in i + 1 .. len
  <2>1. PICK n \in outer : n.from = i
    BY <1>7
  <2>2. end[i] = n.to
    BY <1>5, <2>1
  <2>3. QED  BY <1>3, <2>1, <2>2
<1>9. PICK pre : pre = [i \in 0 .. len |->
                          IF i \in starts THEN new ELSE IF i = len THEN <<>> ELSE <<text[i + 1]>>]
  OBVIOUS
<1>10. PICK nxt : nxt = [i \in 0 .. len |-> IF i \in starts THEN end[i] ELSE i + 1]
  OBVIOUS
<1>11. \A i \in 0 .. len - 1 : nxt[i] \in i + 1 .. len
  BY <1>8, <1>10
<1>12. pre \in [0 .. len -> Seq(Symbols)]
  <2>1. ASSUME NEW i \in 0 .. len
        PROVE  pre[i] \in Seq(Symbols)
    <3>1. i # len => i + 1 \in 1 .. len
      OBVIOUS
    <3>2. i # len => text[i + 1] \in Symbols
      BY <1>1, <3>1
    <3>3. i # len => <<text[i + 1]>> \in Seq(Symbols)
      BY <3>2
    <3>4. QED  BY <1>9, <3>3, EmptySeq
  <2>2. QED  BY <1>9, <2>1
<1>13. len \notin starts
  BY <1>8
<1>14. ASSUME NEW F, NEW i \in 0 .. len
       PROVE  (IF i = len THEN pre[len] ELSE pre[i] \o F[nxt[i]])
              = IF \E n \in outer : n.from = i
                THEN new \o F[(CHOOSE n \in outer : n.from = i).to]
                ELSE IF i = Len(text) THEN <<>> ELSE <<text[i + 1]>> \o F[i + 1]
  <2>1. CASE i \in starts
    <3>1. i # len /\ pre[i] = new /\ nxt[i] = end[i]
      BY <1>9, <1>10, <1>13, <2>1
    <3>2. end[i] = (CHOOSE n \in outer : n.from = i).to
      BY <1>4
    <3>3. \E n \in outer : n.from = i
      BY <1>7, <2>1
    <3>4. QED  BY <3>1, <3>2, <3>3
  <2>2. CASE i \notin starts
    <3>1. pre[i] = (IF i = len THEN <<>> ELSE <<text[i + 1]>>) /\ nxt[i] = i + 1
      BY <1>9, <1>10, <2>2
    <3>2. ~\E n \in outer : n.from = i
      BY <1>7, <2>2
    <3>3. QED  BY <1>1, <3>1, <3>2
  <2>3. QED  BY <2>1, <2>2
<1>15. PICK F : Chained(F, len, pre, nxt)
  BY <1>11, ChainExists
<1>16. IsReplaced(F, text, outer, new)
  <2>1. \A i \in 0 .. len :
              (IF i = len THEN pre[len] ELSE pre[i] \o F[nxt[i]])
              = IF \E n \in outer : n.from = i
                THEN new \o F[(CHOOSE n \in outer : n.from = i).to]
                ELSE IF i = Len(text) THEN <<>> ELSE <<text[i + 1]>> \o F[i + 1]
    BY <1>14
  <2>2. F = [i \in 0 .. len |-> IF i = len THEN pre[len] ELSE pre[i] \o F[nxt[i]]]
    BY <1>15 DEF Chained
  <2>3. QED  BY <1>1, <2>1, <2>2 DEF IsReplaced
<1>17. PICK G : IsReplaced(G, text, outer, new) /\ Replaced(text, targets, new) = G[0]
  <2>1. \E f : IsReplaced(f, text, Outer(targets), new)
    BY <1>2, <1>16
  <2>2. \E f : IsReplaced(f, text, Outer(targets), new) /\ Replaced(text, targets, new) = f[0]
    BY <2>1 DEF IsReplaced, Replaced, Outer
  <2>3. QED  BY <1>2, <2>2
<1>18. Chained(G, len, pre, nxt)
  <2>1. \A i \in 0 .. len :
              (IF i = len THEN pre[len] ELSE pre[i] \o G[nxt[i]])
              = IF \E n \in outer : n.from = i
                THEN new \o G[(CHOOSE n \in outer : n.from = i).to]
                ELSE IF i = Len(text) THEN <<>> ELSE <<text[i + 1]>> \o G[i + 1]
    BY <1>14
  <2>2. G = [i \in 0 .. len |-> IF \E n \in outer : n.from = i
               THEN new \o G[(CHOOSE n \in outer : n.from = i).to]
               ELSE IF i = Len(text) THEN <<>> ELSE <<text[i + 1]>> \o G[i + 1]]
    BY <1>1, <1>17 DEF IsReplaced
  <2>3. G = [i \in 0 .. len |-> IF i = len THEN pre[len] ELSE pre[i] \o G[nxt[i]]]
    <3>1. G = [i \in 0 .. len |-> G[i]]
      BY <2>2
    <3>2. \A i \in 0 .. len : G[i] = IF \E n \in outer : n.from = i
               THEN new \o G[(CHOOSE n \in outer : n.from = i).to]
               ELSE IF i = Len(text) THEN <<>> ELSE <<text[i + 1]>> \o G[i + 1]
      BY <2>2
    <3>3. \A i \in 0 .. len : G[i] = IF i = len THEN pre[len] ELSE pre[i] \o G[nxt[i]]
      BY <2>1, <3>2
    <3>4. QED  BY <3>1, <3>3
  <2>4. QED  BY <2>3 DEF Chained
<1>19. G \in [0 .. len -> Seq(Symbols)]
  BY <1>11, <1>12, <1>18, ChainType
<1>20. \A i \in 0 .. len : G[i] = IF i = len THEN pre[len] ELSE pre[i] \o G[nxt[i]]
  BY <1>18 DEF Chained
<1>21. G[len] = <<>>
  <2>1. len \in 0 .. len
    OBVIOUS
  <2>2. QED  BY <1>9, <1>13, <1>20, <2>1
<1>22. ASSUME NEW n \in outer
       PROVE  G[n.from] = new \o G[n.to]
  <2>1. PICK i \in 0 .. len : i = n.from /\ i \in starts /\ i # len /\ end[i] = n.to
    BY <1>5, <1>6, <1>13
  <2>2. pre[i] = new /\ nxt[i] = n.to
    BY <1>9, <1>10, <2>1
  <2>3. QED  BY <1>20, <2>1, <2>2
<1>23. ASSUME NEW i \in 0 .. len - 1, \A n \in outer : n.from # i
       PROVE  G[i] = <<text[i + 1]>> \o G[i + 1]
  <2>1. i \in 0 .. len /\ i # len /\ i \notin starts
    BY <1>7, <1>23
  <2>2. pre[i] = <<text[i + 1]>> /\ nxt[i] = i + 1
    BY <1>9, <1>10, <2>1
  <2>3. QED  BY <1>20, <2>1, <2>2
<1>24. ReplacesFrom(G, text, targets, new)
  BY <1>1, <1>2, <1>17, <1>19, <1>21, <1>22, <1>23 DEF ReplacesFrom
<1>25. QED  BY <1>24

\* Of nodes in descending order that are disjoint, each ends before the one
\* before it begins.
Falling(s) == \A i, j \in 1 .. Len(s) : i < j => s[j].from < s[i].from

\* New text in place of disjoint targets, the last first, is what Replaced
\* says.
LEMMA ReplacedIs ==
  ASSUME NEW text \in Seq(Symbols), NEW new \in Seq(Symbols),
         NEW targets, Disjoint(targets),
         NEW spans \in Seq(Nodes(text)), Falling(spans), SetOf(spans) = SetOf(targets)
  PROVE  SpliceAll(text, spans, new) = Replaced(text, targets, new)
<1>1. PICK len \in Nat, n \in Nat : len = Len(text) /\ n = Len(spans) /\ DOMAIN spans = 1 .. n
  BY LenProperties
<1>2. ASSUME NEW k \in 1 .. n
      PROVE  /\ spans[k] \in Nodes(text) /\ spans[k] \in SetOf(targets)
             /\ spans[k].from \in Nat /\ spans[k].to \in Nat
             /\ spans[k].from < spans[k].to /\ spans[k].to <= len
  <2>1. spans[k] \in Nodes(text)
    BY <1>1, ElementOfSeq
  <2>2. spans[k] \in SetOf(targets)
    BY <1>1 DEF SetOf
  <2>3. QED  BY <1>1, <2>1, <2>2, NodesOf
<1>3. \A m \in SetOf(targets) : \E k \in 1 .. n : m = spans[k]
  <2>1. SetOf(spans) = {spans[k] : k \in 1 .. n}
    BY <1>1 DEF SetOf
  <2>2. QED  BY <2>1
<1>4. \A m \in SetOf(targets) : /\ m \in Nodes(text) /\ m.from \in Nat /\ m.to \in Nat
                                /\ m.from < m.to /\ m.to <= len
  BY <1>2, <1>3
<1>5. Outer(targets) = SetOf(targets)
  <2>1. ASSUME NEW a \in SetOf(targets), NEW b \in SetOf(targets), Inside(a, b)
        PROVE  FALSE
    <3>1. b.from < a.from /\ a.to <= b.to
      BY <2>1 DEF Inside
    <3>2. a = b \/ a.to <= b.from \/ b.to <= a.from
      BY DEF Disjoint
    <3>3. PICK af \in Nat, at1 \in Nat, bf \in Nat, bt \in Nat :
            af = a.from /\ at1 = a.to /\ bf = b.from /\ bt = b.to
      BY <1>4
    <3>4. af < at1 /\ bf < bt
      BY <1>4, <3>3
    <3>5. QED  BY <3>1, <3>2, <3>3, <3>4
  <2>2. QED  BY <2>1 DEF Outer
<1>6. PICK F : ReplacesFrom(F, text, targets, new)
  <2>1. SetOf(targets) \subseteq Nodes(text)
    BY <1>4
  <2>2. QED  BY <2>1, ReplacedFrom
<1>7. /\ F \in [0 .. len -> Seq(Symbols)]
      /\ Replaced(text, targets, new) = F[0]
      /\ F[len] = <<>>
      /\ \A m \in SetOf(targets) : F[m.from] = new \o F[m.to]
      /\ \A i \in 0 .. len - 1 :
           (\A m \in SetOf(targets) : m.from # i) => F[i] = <<text[i + 1]>> \o F[i + 1]
  BY <1>1, <1>5, <1>6 DEF ReplacesFrom
<1>8. PICK off : off = [k \in 1 .. n |-> spans[k].from]
  OBVIOUS
<1>9. off \in [1 .. n -> 0 .. len] /\ \A k \in 1 .. n : off[k] = spans[k].from
  <2>1. \A k \in 1 .. n : spans[k].from \in 0 .. len
    BY <1>2
  <2>2. QED  BY <1>8, <2>1
<1>10. Descending(off, n)
  BY <1>1, <1>9 DEF Descending, Falling
<1>11. PICK pos : pos = [k \in 0 .. n |-> IF k = 0 THEN len ELSE off[k]]
  OBVIOUS
<1>12. pos \in [0 .. n -> 0 .. len] /\ pos[0] = len /\ \A k \in 1 .. n : pos[k] = off[k]
  <2>1. \A k \in 0 .. n : pos[k] = IF k = 0 THEN len ELSE off[k]
    BY <1>11
  <2>2. ASSUME NEW k \in 0 .. n
        PROVE  pos[k] \in 0 .. len
    <3>1. k # 0 => k \in 1 .. n
      OBVIOUS
    <3>2. k # 0 => off[k] \in 0 .. len
      BY <1>9, <3>1
    <3>3. QED  BY <2>1, <3>2
  <2>3. 0 \in 0 .. n /\ \A k \in 1 .. n : k \in 0 .. n /\ k # 0
    OBVIOUS
  <2>4. pos \in [0 .. n -> 0 .. len]
    BY <1>11, <2>2
  <2>5. QED  BY <2>1, <2>3, <2>4
<1>13. PICK tail : tail = [k \in 0 .. n |-> F[pos[k]]]
  OBVIOUS
<1>14. /\ tail \in [0 .. n -> Seq(Symbols)] /\ tail[0] = <<>>
       /\ \A k \in 0 .. n : tail[k] = F[pos[k]]
  <2>1. \A k \in 0 .. n : tail[k] = F[pos[k]]
    BY <1>13
  <2>2. ASSUME NEW k \in 0 .. n
        PROVE  F[pos[k]] \in Seq(Symbols)
    <3>1. pos[k] \in 0 .. len
      BY <1>12
    <3>2. QED  BY <1>7, <3>1
  <2>3. tail \in [0 .. n -> Seq(Symbols)]
    BY <1>13, <2>2
  <2>4. 0 \in 0 .. n
    OBVIOUS
  <2>5. QED  BY <1>7, <1>12, <2>1, <2>3, <2>4
<1>15. \A i \in 0 .. len : (\E m \in SetOf(targets) : m.from = i) => \E k \in 1 .. n : i = off[k]
  BY <1>3, <1>9
<1>16. ASSUME NEW k \in 1 .. n
       PROVE  /\ spans[k].to \in pos[k] .. pos[k - 1]
              /\ Copying(F, text, spans[k].to, pos[k - 1])
  <2>1. PICK a \in 0 .. len, t \in 0 .. len : a = off[k] /\ t = spans[k].to /\ a < t
    <3>1. off[k] = spans[k].from /\ off[k] \in 0 .. len
      BY <1>9
    <3>2. spans[k].from < spans[k].to /\ spans[k].to \in Nat /\ spans[k].to <= len
      BY <1>2
    <3>3. spans[k].to \in 0 .. len
      BY <3>2
    <3>4. QED  BY <3>1, <3>2, <3>3
  <2>2. k - 1 \in 0 .. n
    OBVIOUS
  <2>3. PICK b \in 0 .. len : b = pos[k - 1]
    BY <1>12, <2>2
  <2>4. t <= b
    <3>1. CASE k = 1
      BY <1>12, <2>3, <3>1
    <3>2. CASE k # 1
      <4>1. k - 1 \in 1 .. n /\ k - 1 < k
        BY <3>2
      <4>2. b = off[k - 1] /\ a < b
        BY <1>10, <1>12, <2>1, <2>3, <4>1 DEF Descending
      <4>3. PICK p, q : p = spans[k] /\ q = spans[k - 1]
        OBVIOUS
      <4>4. p \in SetOf(targets) /\ q \in SetOf(targets)
        BY <1>2, <4>1, <4>3
      <4>5. p = q \/ p.to <= q.from \/ q.to <= p.from
        BY <4>4 DEF Disjoint
      <4>6. p.from = a /\ p.to = t /\ q.from = b
        BY <1>9, <2>1, <4>1, <4>2, <4>3
      <4>7. PICK u \in Nat : u = q.to /\ b < u
        BY <1>4, <4>4, <4>6
      <4>8. QED  BY <4>2, <4>5, <4>6, <4>7
    <3>3. QED  BY <3>1, <3>2
  <2>5. ASSUME NEW i \in t .. b - 1
        PROVE  F[i] = <<text[i + 1]>> \o F[i + 1]
    <3>1. i \in 0 .. len - 1 /\ i \in 0 .. len /\ a < i /\ i < b
      <4>1. t \in 0 .. len /\ b \in 0 .. len /\ a \in 0 .. len /\ a < t
        BY <2>1, <2>3
      <4>2. i \in Int /\ t <= i /\ i <= b - 1
        BY <4>1
      <4>3. QED  BY <4>1, <4>2
    <3>2. ASSUME NEW j \in 1 .. n, i = off[j]
          PROVE  FALSE
      <4>1. off[j] <= off[k] \/ (k # 1 /\ off[k - 1] <= off[j])
        BY <1>9, <1>10, NoneBetween
      <4>2. off[k - 1] = b \/ k = 1
        <5>1. k # 1 => k - 1 \in 1 .. n
          OBVIOUS
        <5>2. QED  BY <1>12, <2>3, <5>1
      <4>3. i <= a \/ b <= i
        BY <2>1, <3>2, <4>1, <4>2
      <4>4. QED  BY <3>1, <4>3
    <3>3. \A m \in SetOf(targets) : m.from # i
      BY <1>15, <3>1, <3>2
    <3>4. QED  BY <1>7, <3>1, <3>3
  <2>6. Copying(F, text, t, b)
    BY <1>1, <2>4, <2>5 DEF Copying
  <2>7. pos[k] = a
    BY <1>12, <2>1
  <2>8. t \in a .. b
    BY <2>1, <2>4
  <2>9. QED  BY <2>1, <2>3, <2>6, <2>7, <2>8
<1>17. ASSUME NEW k \in 1 .. n
       PROVE  tail[k] = new \o (SubSeq(text, spans[k].to + 1, pos[k - 1]) \o tail[k - 1])
  <2>1. k - 1 \in 0 .. n /\ k \in 0 .. n
    OBVIOUS
  <2>2. tail[k] = F[spans[k].from] /\ tail[k - 1] = F[pos[k - 1]]
    <3>1. tail[k] = F[pos[k]] /\ tail[k - 1] = F[pos[k - 1]]
      BY <1>14, <2>1
    <3>2. pos[k] = spans[k].from
      BY <1>9, <1>12
    <3>3. QED  BY <3>1, <3>2
  <2>3. F[spans[k].from] = new \o F[spans[k].to]
    BY <1>2, <1>7
  <2>4. F \in [0 .. Len(text) -> Seq(Symbols)]
    BY <1>1, <1>7
  <2>5. PICK a, b : a = spans[k].to /\ b = pos[k - 1]
    OBVIOUS
  <2>6. Copying(F, text, a, b)
    BY <1>16, <2>5
  <2>7. Copied(F, text, a, b)
    BY <2>4, <2>6, Copies
  <2>8. F[spans[k].to] = SubSeq(text, spans[k].to + 1, pos[k - 1]) \o F[pos[k - 1]]
    BY <2>5, <2>7 DEF Copied
  <2>9. QED  BY <2>2, <2>3, <2>8
<1>18. Spanning(Nodes(text))
  <2>1. ASSUME NEW m \in Nodes(text)
        PROVE  m.from \in Nat /\ m.to \in Nat /\ m.from <= m.to
    <3>1. m.from \in Nat /\ m.to \in Nat /\ m.from < m.to
      BY NodesOf
    <3>2. QED  BY <3>1
  <2>2. QED  BY <2>1 DEF Spanning
<1>19. Backward(text, spans, new, pos, tail, Symbols)
  <2>1. \A k \in 1 .. n : spans[k].from = pos[k]
    BY <1>9, <1>12
  <2>2. \A k \in 1 .. n : spans[k].to \in pos[k] .. pos[k - 1]
    BY <1>16
  <2>3. QED  BY <1>1, <1>12, <1>14, <1>17, <2>1, <2>2 DEF Backward
<1>20. SpliceAll(text, spans, new) = SubSeq(text, 1, pos[n]) \o tail[n]
  <2>1. SplicedAll(text, spans, new, pos, tail)
    BY <1>18, <1>19, SpliceAllIs
  <2>2. QED  BY <1>1, <2>1 DEF SplicedAll
<1>21. PICK b \in 0 .. len : b = pos[n] /\ Copying(F, text, 0, b)
  <2>1. n \in 0 .. n
    OBVIOUS
  <2>2. PICK b \in 0 .. len : b = pos[n]
    BY <1>12, <2>1
  <2>3. ASSUME NEW i \in 0 .. b - 1
        PROVE  F[i] = <<text[i + 1]>> \o F[i + 1]
    <3>1. i \in 0 .. len - 1 /\ i \in 0 .. len /\ i < b
      OBVIOUS
    <3>2. ASSUME NEW j \in 1 .. n, i = off[j]
          PROVE  FALSE
      <4>1. n \in 1 .. n /\ b = off[n]
        BY <1>12, <2>2
      <4>2. off[n] \in 0 .. len /\ off[j] \in 0 .. len
        BY <1>9, <4>1
      <4>3. j < n => off[n] < off[j]
        BY <1>10, <4>1 DEF Descending
      <4>4. j = n \/ j < n
        OBVIOUS
      <4>5. QED  BY <3>1, <3>2, <4>1, <4>2, <4>3, <4>4
    <3>3. \A m \in SetOf(targets) : m.from # i
      BY <1>15, <3>1, <3>2
    <3>4. QED  BY <1>7, <3>1, <3>3
  <2>4. Copying(F, text, 0, b)
    BY <1>1, <2>3 DEF Copying
  <2>5. QED  BY <2>2, <2>4
<1>22. F[0] = SubSeq(text, 0 + 1, b) \o F[b]
  <2>1. F \in [0 .. Len(text) -> Seq(Symbols)]
    BY <1>1, <1>7
  <2>2. Copied(F, text, 0, b)
    BY <1>21, <2>1, Copies
  <2>3. QED  BY <2>2 DEF Copied
<1>23. F[b] = tail[n]
  <2>1. n \in 0 .. n
    OBVIOUS
  <2>2. QED  BY <1>14, <1>21, <2>1
<1>24. SubSeq(text, 0 + 1, b) \o F[b] = SubSeq(text, 1, pos[n]) \o tail[n]
  BY <1>21, <1>23
<1>25. QED  BY <1>7, <1>20, <1>22, <1>24

-----------------------------------------------------------------------------
(* The edits and what they mean *)

\* Edits leave a text.
LEMMA SpliceAllText ==
  ASSUME NEW C, NEW text \in Seq(C), NEW new \in Seq(C), NEW P, NEW spans \in Seq(P), Spanning(P)
  PROVE  SpliceAll(text, spans, new) \in Seq(C)
<1>1. PICK r : SplicesThrough(r, C, text, spans, new)
  BY SpliceRun
<1>2. Len(spans) \in 0 .. Len(spans)
  BY LenProperties
<1>3. QED  BY <1>1, <1>2 DEF SplicesThrough

\* A node spans a part of its text.
LEMMA SpanningNodes ==
  ASSUME NEW text \in Seq(Symbols)
  PROVE  Spanning(Nodes(text))
<1>1. ASSUME NEW m \in Nodes(text)
      PROVE  m.from \in Nat /\ m.to \in Nat /\ m.from <= m.to
  <2>1. m.from \in Nat /\ m.to \in Nat /\ m.from < m.to
    BY NodesOf
  <2>2. QED  BY <2>1
<1>2. QED  BY <1>1 DEF Spanning

\* One splice, as the only one of many.
LEMMA SpliceOne ==
  ASSUME NEW C, NEW text \in Seq(C), NEW new \in Seq(C), NEW to \in 0 .. Len(text)
  PROVE  /\ DoAppend(text, to, new) = Inserted(text, {to}, new)
         /\ DoAppend(text, to, new) \in Seq(C)
<1>1. PICK len \in Nat : len = Len(text)
  BY LenProperties
<1>2. PICK off : off = [k \in 1 .. 1 |-> to]
  OBVIOUS
<1>3. off \in [1 .. 1 -> 0 .. Len(text)] /\ Descending(off, 1)
  BY <1>2 DEF Descending
<1>4. PICK spans : spans = [i \in 1 .. 1 |-> Point(off[i])]
  OBVIOUS
<1>5. PICK offsets : offsets = {off[i] : i \in 1 .. 1}
  OBVIOUS
<1>6. offsets = {to}
  BY <1>2, <1>5
<1>7. SpliceAll(text, spans, new) = Inserted(text, offsets, new)
  <2>1. Sites(text, 1, off, spans, offsets)
    BY <1>3, <1>4, <1>5 DEF Sites
  <2>2. QED  BY <2>1, InsertedIs
<1>8. PICK P : P = {Point(to)}
  OBVIOUS
<1>9. Spanning(P) /\ spans \in Seq(P) /\ Len(spans) = 1 /\ spans[1] = Point(to)
  <2>1. spans = [i \in 1 .. 1 |-> Point(to)]
    BY <1>2, <1>4
  <2>2. spans \in [1 .. 1 -> P]
    BY <1>8, <2>1
  <2>3. Spanning(P)
    BY <1>1, <1>8 DEF Spanning, Point
  <2>4. QED  BY <2>1, <2>2, <2>3
<1>10. PICK r : SplicesThrough(r, C, text, spans, new)
  BY <1>9, SpliceRun
<1>11. SpliceAll(text, spans, new) = r[1] /\ r[1] = Splices(r[0], spans[1], new) /\ r[0] = text /\ r[1] \in Seq(C)
  <2>1. r \in [0 .. 1 -> Seq(C)] /\ r[0] = text /\ SpliceAll(text, spans, new) = r[1]
    BY <1>9, <1>10 DEF SplicesThrough
  <2>2. \A k \in 1 .. 1 : r[k] = Splices(r[k - 1], spans[k], new)
    BY <1>9, <1>10 DEF SplicesThrough
  <2>3. QED  BY <2>1, <2>2
<1>12. ~(to > Len(text))
  BY <1>1
<1>13. r[1] = Splice(text, to, to, new)
  BY <1>9, <1>11, <1>12 DEF Splices, Point
<1>14. QED  BY <1>6, <1>7, <1>11, <1>13 DEF DoAppend

\* Text inserted where each target begins, or ends.
LEMMA InsertsMeant ==
  ASSUME NEW text \in Seq(Symbols), NEW new \in Seq(Symbols),
         NEW targets \in Seq(Nodes(text)), Distinct(targets)
  PROVE  /\ DoInsertBefore(text, targets, new)
            = Inserted(text, {n.from : n \in SetOf(targets)}, new)
         /\ Disjoint(targets) =>
              DoInsertAfter(text, targets, new)
              = Inserted(text, {n.to : n \in SetOf(targets)}, new)
<1>1. PICK len \in Nat, n \in Nat : len = Len(text) /\ n = Len(targets) /\ DOMAIN targets = 1 .. n
  BY LenProperties
<1>2. PICK L : L = LastFirst(targets)
  OBVIOUS
<1>3. /\ L \in Seq(Nodes(text)) /\ Len(L) = n /\ SetOf(L) = SetOf(targets)
      /\ \A i, j \in 1 .. n : i < j => L[j].from < L[i].from
  BY <1>1, <1>2, LastFirstMeans
<1>4. DOMAIN L = 1 .. n
  BY <1>3, LenProperties
<1>5. ASSUME NEW k \in 1 .. n
      PROVE  /\ L[k] \in SetOf(targets) /\ L[k].from \in 0 .. len /\ L[k].to \in 0 .. len
             /\ L[k].from < L[k].to
  <2>1. L[k] \in Nodes(text)
    BY <1>3, ElementOfSeq
  <2>2. L[k].from \in Nat /\ L[k].to \in Nat /\ L[k].from < L[k].to /\ L[k].to <= len
    BY <1>1, <2>1, NodesOf
  <2>3. L[k] \in SetOf(targets)
    BY <1>3, <1>4 DEF SetOf
  <2>4. QED  BY <2>2, <2>3
<1>6. SetOf(targets) = {L[k] : k \in 1 .. n}
  BY <1>3, <1>4 DEF SetOf
<1>7. DoInsertBefore(text, targets, new) = Inserted(text, {m.from : m \in SetOf(targets)}, new)
  <2>1. PICK off : off = [k \in 1 .. n |-> L[k].from]
    OBVIOUS
  <2>2. off \in [1 .. n -> 0 .. Len(text)] /\ Descending(off, n)
    BY <1>1, <1>3, <1>5, <2>1 DEF Descending
  <2>3. PICK spans : spans = [i \in 1 .. n |-> Point(off[i])]
    OBVIOUS
  <2>4. PICK offsets : offsets = {off[i] : i \in 1 .. n}
    OBVIOUS
  <2>5. offsets = {m.from : m \in SetOf(targets)}
    BY <1>6, <2>1, <2>4
  <2>6. SpliceAll(text, spans, new) = Inserted(text, offsets, new)
    <3>1. Sites(text, n, off, spans, offsets)
      BY <2>2, <2>3, <2>4 DEF Sites
    <3>2. QED  BY <3>1, InsertedIs
  <2>7. spans = [i \in DOMAIN targets |-> Point(LastFirst(targets)[i].from)]
    BY <1>1, <1>2, <2>1, <2>3
  <2>8. QED  BY <2>5, <2>6, <2>7 DEF DoInsertBefore
<1>8. ASSUME Disjoint(targets)
      PROVE  DoInsertAfter(text, targets, new) = Inserted(text, {m.to : m \in SetOf(targets)}, new)
  <2>1. PICK off : off = [k \in 1 .. n |-> L[k].to]
    OBVIOUS
  <2>2. off \in [1 .. n -> 0 .. Len(text)]
    BY <1>1, <1>5, <2>1
  <2>3. Descending(off, n)
    <3>1. ASSUME NEW i \in 1 .. n, NEW j \in 1 .. n, i < j
          PROVE  off[j] < off[i]
      <4>1. L[j].from < L[i].from
        BY <1>3, <3>1
      <4>2. PICK p, q : p = L[i] /\ q = L[j]
        OBVIOUS
      <4>3. p \in SetOf(targets) /\ q \in SetOf(targets)
        BY <1>5, <4>2
      <4>4. q = p \/ q.to <= p.from \/ p.to <= q.from
        BY <1>8, <4>3 DEF Disjoint
      <4>5. PICK pf \in 0 .. len, pt \in 0 .. len, qf \in 0 .. len, qt \in 0 .. len :
              pf = p.from /\ pt = p.to /\ qf = q.from /\ qt = q.to
        BY <1>5, <4>2
      <4>6. pf < pt /\ qf < qt /\ qf < pf
        BY <1>5, <4>1, <4>2, <4>5
      <4>7. qt < pt
        BY <4>4, <4>5, <4>6
      <4>8. off[j] = qt /\ off[i] = pt
        BY <2>1, <4>2, <4>5
      <4>9. QED  BY <4>7, <4>8
    <3>2. QED  BY <3>1 DEF Descending
  <2>4. PICK spans : spans = [i \in 1 .. n |-> Point(off[i])]
    OBVIOUS
  <2>5. PICK offsets : offsets = {off[i] : i \in 1 .. n}
    OBVIOUS
  <2>6. offsets = {m.to : m \in SetOf(targets)}
    BY <1>6, <2>1, <2>5
  <2>7. SpliceAll(text, spans, new) = Inserted(text, offsets, new)
    <3>1. Sites(text, n, off, spans, offsets)
      BY <2>2, <2>3, <2>4, <2>5 DEF Sites
    <3>2. QED  BY <3>1, InsertedIs
  <2>8. spans = [i \in DOMAIN targets |-> Point(LastFirst(targets)[i].to)]
    BY <1>1, <1>2, <2>1, <2>4
  <2>9. QED  BY <2>6, <2>7, <2>8 DEF DoInsertAfter
<1>9. QED  BY <1>7, <1>8

\* Disjoint targets replaced.
LEMMA ReplaceMeant ==
  ASSUME NEW text \in Seq(Symbols), NEW new \in Seq(Symbols),
         NEW targets \in Seq(Nodes(text)), Distinct(targets), Disjoint(targets)
  PROVE  DoReplace(text, targets, new) = Replaced(text, targets, new)
<1>1. PICK L : L = LastFirst(targets)
  OBVIOUS
<1>2. /\ L \in Seq(Nodes(text)) /\ Len(L) = Len(targets) /\ SetOf(L) = SetOf(targets)
      /\ \A i, j \in 1 .. Len(targets) : i < j => L[j].from < L[i].from
  BY <1>1, LastFirstMeans
<1>3. Falling(L)
  BY <1>2 DEF Falling
<1>4. SpliceAll(text, L, new) = Replaced(text, targets, new)
  BY <1>2, <1>3, ReplacedIs
<1>5. QED  BY <1>1, <1>4 DEF DoReplace

\* An edit of targets found once each does what the method says.
LEMMA EditedMeant ==
  ASSUME NEW text \in Seq(Symbols), NEW new \in Seq(Symbols),
         NEW targets \in Seq(Nodes(text)), targets # <<>>, Distinct(targets),
         NEW method \in StepMethods
  PROVE  /\ Edited(text, targets, method, new) \in Seq(Symbols)
         /\ method \in {"insert_before", "append"} \/ Disjoint(targets) =>
              Edited(text, targets, method, new) = Meant(text, targets, method, new)
<1>1. PICK len \in Nat, n \in Nat : len = Len(text) /\ n = Len(targets) /\ DOMAIN targets = 1 .. n
  BY LenProperties
<1>2. PICK L : L = LastFirst(targets)
  OBVIOUS
<1>3. L \in Seq(Nodes(text)) /\ Len(L) = n
  BY <1>1, <1>2, LastFirstMeans
<1>4. Spanning(Nodes(text))
  BY SpanningNodes
<1>5. \A k \in 1 .. n : L[k].from \in Nat /\ L[k].to \in Nat
  <2>1. \A k \in 1 .. n : L[k] \in Nodes(text)
    BY <1>3, ElementOfSeq
  <2>2. QED  BY <2>1, NodesOf
<1>6. <<>> \in Seq(Symbols)
  BY EmptySeq
<1>7. \A text2 \in Seq(Symbols) : SpliceAll(text, L, text2) \in Seq(Symbols)
  BY <1>3, <1>4, SpliceAllText
<1>8. PICK P : P = {Point(i) : i \in Nat}
  OBVIOUS
<1>9. Spanning(P)
  BY <1>8 DEF Spanning, Point
<1>10. targets[1].to \in 0 .. Len(text)
  <2>1. n # 0
    BY <1>1, EmptySeq
  <2>2. targets[1] \in Nodes(text)
    BY <1>1, <2>1, ElementOfSeq
  <2>3. targets[1].to \in Nat /\ targets[1].to <= Len(text)
    BY <2>2, NodesOf
  <2>4. QED  BY <1>1, <2>3
<1>11. CASE method = "replace"
  <2>1. Edited(text, targets, method, new) = DoReplace(text, targets, new)
    BY <1>11 DEF Edited
  <2>2. Meant(text, targets, method, new) = Replaced(text, targets, new)
    BY <1>11 DEF Meant
  <2>3. DoReplace(text, targets, new) \in Seq(Symbols)
    BY <1>2, <1>7 DEF DoReplace
  <2>4. Disjoint(targets) => DoReplace(text, targets, new) = Replaced(text, targets, new)
    BY ReplaceMeant
  <2>5. QED  BY <1>11, <2>1, <2>2, <2>3, <2>4
<1>12. CASE method = "delete"
  <2>1. Edited(text, targets, method, new) = DoReplace(text, targets, <<>>)
    BY <1>12 DEF Edited, DoDelete
  <2>2. Meant(text, targets, method, new) = Replaced(text, targets, <<>>)
    BY <1>12 DEF Meant
  <2>3. DoReplace(text, targets, <<>>) \in Seq(Symbols)
    BY <1>2, <1>6, <1>7 DEF DoReplace
  <2>4. Disjoint(targets) => DoReplace(text, targets, <<>>) = Replaced(text, targets, <<>>)
    BY <1>6, ReplaceMeant
  <2>5. QED  BY <1>12, <2>1, <2>2, <2>3, <2>4
<1>13. CASE method = "insert_before"
  <2>1. Edited(text, targets, method, new) = DoInsertBefore(text, targets, new)
    BY <1>13 DEF Edited
  <2>2. Meant(text, targets, method, new) = Inserted(text, {m.from : m \in SetOf(targets)}, new)
    BY <1>13 DEF Meant
  <2>3. DoInsertBefore(text, targets, new) \in Seq(Symbols)
    <3>1. PICK spans : spans = [i \in 1 .. n |-> Point(L[i].from)]
      OBVIOUS
    <3>2. spans \in [1 .. n -> P]
      BY <1>5, <1>8, <3>1
    <3>3. spans \in Seq(P)
      BY <3>2
    <3>4. SpliceAll(text, spans, new) \in Seq(Symbols)
      BY <1>9, <3>3, SpliceAllText
    <3>5. QED  BY <1>1, <1>2, <3>1, <3>4 DEF DoInsertBefore
  <2>4. DoInsertBefore(text, targets, new) = Inserted(text, {m.from : m \in SetOf(targets)}, new)
    BY InsertsMeant
  <2>5. QED  BY <2>1, <2>2, <2>3, <2>4
<1>14. CASE method = "insert_after"
  <2>1. Edited(text, targets, method, new) = DoInsertAfter(text, targets, new)
    BY <1>14 DEF Edited
  <2>2. Meant(text, targets, method, new) = Inserted(text, {m.to : m \in SetOf(targets)}, new)
    BY <1>14 DEF Meant
  <2>3. DoInsertAfter(text, targets, new) \in Seq(Symbols)
    <3>1. PICK spans : spans = [i \in 1 .. n |-> Point(L[i].to)]
      OBVIOUS
    <3>2. spans \in [1 .. n -> P]
      BY <1>5, <1>8, <3>1
    <3>3. spans \in Seq(P)
      BY <3>2
    <3>4. SpliceAll(text, spans, new) \in Seq(Symbols)
      BY <1>9, <3>3, SpliceAllText
    <3>5. QED  BY <1>1, <1>2, <3>1, <3>4 DEF DoInsertAfter
  <2>4. Disjoint(targets) =>
          DoInsertAfter(text, targets, new) = Inserted(text, {m.to : m \in SetOf(targets)}, new)
    BY InsertsMeant
  <2>5. QED  BY <1>14, <2>1, <2>2, <2>3, <2>4
<1>15. CASE method = "append"
  <2>1. Edited(text, targets, method, new) = DoAppend(text, targets[1].to, new)
    BY <1>15 DEF Edited
  <2>2. Meant(text, targets, method, new) = Inserted(text, {targets[1].to}, new)
    BY <1>15 DEF Meant
  <2>3. PICK to \in 0 .. Len(text) : to = targets[1].to
    BY <1>10
  <2>4. /\ DoAppend(text, to, new) = Inserted(text, {to}, new)
        /\ DoAppend(text, to, new) \in Seq(Symbols)
    BY SpliceOne
  <2>5. QED  BY <2>1, <2>2, <2>3, <2>4
<1>16. method \in {"replace", "delete", "insert_before", "insert_after", "append"}
  BY DEF StepMethods, Methods
<1>17. QED  BY <1>11, <1>12, <1>13, <1>14, <1>15, <1>16

-----------------------------------------------------------------------------
(* Queries by their height, and their paths *)

\* The queries whose parts are in X.
QueryOps == {"", "AND", "OR", "NOT"}
QuerySels == {Selector[t] : t \in DOMAIN Selector} \union {[kind |-> "", name |-> ""]}
Shapes(X) == {q \in [op: QueryOps, sel: QuerySels, sub: {<<>>} \union {<<c>> : c \in X},
                     direct: BOOLEAN, args: Seq(X)] : q.op \in {"AND", "NOT"} => q.args # <<>>}

\* The queries of each height.
Heights(Q, B) == Q = [h \in 0 .. B |-> IF h = 0 THEN {} ELSE Shapes(Q[h - 1])]

\* There are queries of each height.
LEMMA HeightsExist ==
  ASSUME NEW B \in Nat
  PROVE  \E Q : Heights(Q, B)
<1> DEFINE S == {k \in Nat : \E Q : Heights(Q, k)}
<1>1. 0 \in S
  <2>1. PICK Q : Q = [h \in 0 .. 0 |-> {}]
    OBVIOUS
  <2>2. Heights(Q, 0)
    BY <2>1 DEF Heights
  <2>3. QED  BY <2>2
<1>2. ASSUME NEW k \in Nat, k \in S
      PROVE  k + 1 \in S
  <2>1. PICK Q : Heights(Q, k)
    BY <1>2
  <2>2. PICK R : R = [h \in 0 .. k + 1 |-> IF h = k + 1 THEN Shapes(Q[k]) ELSE Q[h]]
    OBVIOUS
  <2>3. ASSUME NEW h \in 0 .. k + 1
        PROVE  R[h] = IF h = 0 THEN {} ELSE Shapes(R[h - 1])
    <3>1. CASE h = k + 1
      <4>1. h - 1 = k /\ k \in 0 .. k + 1 /\ k # k + 1 /\ h # 0
        BY <3>1
      <4>2. R[k] = Q[k] /\ R[h] = Shapes(Q[k])
        BY <2>2, <3>1, <4>1
      <4>3. QED  BY <4>1, <4>2
    <3>2. CASE h # k + 1
      <4>1. h \in 0 .. k
        BY <3>2
      <4>2. R[h] = Q[h] /\ (h # 0 => R[h - 1] = Q[h - 1])
        BY <2>2, <4>1
      <4>3. Q[h] = IF h = 0 THEN {} ELSE Shapes(Q[h - 1])
        BY <2>1, <4>1 DEF Heights
      <4>4. QED  BY <4>2, <4>3
    <3>3. QED  BY <3>1, <3>2
  <2>4. R = [h \in 0 .. k + 1 |-> R[h]]
    BY <2>2
  <2>5. Heights(R, k + 1)
    BY <2>3, <2>4 DEF Heights
  <2>6. QED  BY <2>5
<1>3. Nat \subseteq S
  <2> HIDE DEF S
  <2>1. QED  BY <1>1, <1>2, Induct
<1>4. QED  BY <1>3

\* More parts make more queries.
LEMMA ShapesGrow ==
  ASSUME NEW X, NEW Y, X \subseteq Y
  PROVE  Shapes(X) \subseteq Shapes(Y)
<1>1. Seq(X) \subseteq Seq(Y)
  BY SeqMonotonic
<1>2. {<<>>} \union {<<c>> : c \in X} \subseteq {<<>>} \union {<<c>> : c \in Y}
  OBVIOUS
<1>3. QED  BY <1>1, <1>2 DEF Shapes

\* What has a height has every greater one.
LEMMA HeightsGrow ==
  ASSUME NEW B \in Nat, NEW Q, Heights(Q, B), NEW h \in 0 .. B, NEW k \in h .. B
  PROVE  Q[h] \subseteq Q[k]
<1>1. \A j \in 0 .. B : Q[j] = IF j = 0 THEN {} ELSE Shapes(Q[j - 1])
  BY DEF Heights
<1> DEFINE S == {j \in Nat : j + 1 <= B => Q[j] \subseteq Q[j + 1]}
<1>2. 0 \in S
  <2>1. 0 \in 0 .. B
    OBVIOUS
  <2>2. QED  BY <1>1, <2>1
<1>3. ASSUME NEW j \in Nat, j \in S
      PROVE  j + 1 \in S
  <2>1. SUFFICES ASSUME (j + 1) + 1 <= B
                 PROVE  Q[j + 1] \subseteq Q[(j + 1) + 1]
    OBVIOUS
  <2>2. Q[j] \subseteq Q[j + 1]
    BY <1>3, <2>1
  <2>3. j + 1 \in 0 .. B /\ (j + 1) + 1 \in 0 .. B /\ j + 1 # 0 /\ (j + 1) + 1 # 0
        /\ (j + 1) - 1 = j /\ ((j + 1) + 1) - 1 = j + 1
    BY <2>1
  <2>4. Q[j + 1] = Shapes(Q[j]) /\ Q[(j + 1) + 1] = Shapes(Q[j + 1])
    BY <1>1, <2>3
  <2>5. QED  BY <2>2, <2>4, ShapesGrow
<1>4. Nat \subseteq S
  <2> HIDE DEF S
  <2>1. QED  BY <1>2, <1>3, Induct
<1>5. \A j \in Nat : j + 1 <= B => Q[j] \subseteq Q[j + 1]
  BY <1>4
<1> HIDE DEF S
<1> DEFINE T == {j \in Nat : h + j <= B => Q[h] \subseteq Q[h + j]}
<1>6. 0 \in T
  OBVIOUS
<1>7. ASSUME NEW j \in Nat, j \in T
      PROVE  j + 1 \in T
  <2>1. SUFFICES ASSUME h + (j + 1) <= B
                 PROVE  Q[h] \subseteq Q[h + (j + 1)]
    OBVIOUS
  <2>2. PICK i \in Nat : i = h + j /\ i + 1 = h + (j + 1) /\ i <= B
    BY <2>1
  <2>3. Q[h] \subseteq Q[i]
    BY <1>7, <2>2
  <2>4. Q[i] \subseteq Q[i + 1]
    BY <1>5, <2>1, <2>2
  <2>5. QED  BY <2>2, <2>3, <2>4
<1>8. Nat \subseteq T
  <2> HIDE DEF T
  <2>1. QED  BY <1>6, <1>7, Induct
<1>9. PICK j \in Nat : h + j = k
  <2>1. k - h \in Nat /\ h + (k - h) = k
    OBVIOUS
  <2>2. QED  BY <2>1
<1>10. j \in T
  BY <1>8
<1>11. QED  BY <1>9, <1>10

\* The parts of a query are lower.
LEMMA ChildrenLower ==
  ASSUME NEW B \in Nat, NEW Q, Heights(Q, B), NEW h \in 0 .. B, NEW q \in Q[h]
  PROVE  /\ h # 0
         /\ q \in Shapes(Q[h - 1])
         /\ \A i \in Children(q) : i \in Nat /\ Child(q, i) \in Q[h - 1]
<1>1. Q[h] = IF h = 0 THEN {} ELSE Shapes(Q[h - 1])
  BY DEF Heights
<1>2. h # 0 /\ q \in Shapes(Q[h - 1])
  BY <1>1
<1>3. PICK X : X = Q[h - 1]
  OBVIOUS
<1>4. q.args \in Seq(X) /\ (q.sub = <<>> \/ \E c \in X : q.sub = <<c>>)
  BY <1>2, <1>3 DEF Shapes
<1>5. ASSUME NEW i \in Children(q)
      PROVE  i \in Nat /\ Child(q, i) \in X
  <2>1. CASE i = 0
    <3>1. i \notin DOMAIN q.args
      <4>1. DOMAIN q.args = 1 .. Len(q.args)
        BY <1>4, LenProperties
      <4>2. QED  BY <2>1, <4>1
    <3>2. q.sub # <<>>
      BY <3>1 DEF Children
    <3>3. PICK c \in X : q.sub = <<c>>
      BY <1>4, <3>2
    <3>4. QED  BY <2>1, <3>3 DEF Child
  <2>2. CASE i # 0
    <3>1. i \in DOMAIN q.args
      BY <2>2 DEF Children
    <3>2. i \in 1 .. Len(q.args) /\ Len(q.args) \in Nat
      BY <1>4, <3>1, LenProperties
    <3>3. q.args[i] \in X
      BY <1>4, <3>2, ElementOfSeq
    <3>4. QED  BY <2>2, <3>2, <3>3 DEF Child
  <2>3. QED  BY <2>1, <2>2
<1>6. QED  BY <1>2, <1>3, <1>5

\* The queries along a path.
IsAt(f, q, path) ==
  f = [k \in 0 .. Len(path) |-> IF k = 0 THEN q ELSE Child(f[k - 1], path[k])]

\* The recursion of QueryAt is well defined.
LEMMA AtExists ==
  ASSUME NEW q, NEW path \in Seq(Nat)
  PROVE  \E f : IsAt(f, q, path) /\ QueryAt(q, path) = f[Len(path)]
<1>1. PICK len \in Nat : len = Len(path)
  BY LenProperties
<1> DEFINE Upon(f, k) == f = [j \in 0 .. k |-> IF j = 0 THEN q ELSE Child(f[j - 1], path[j])]
           S == {k \in Nat : \E f : Upon(f, k)}
<1>2. 0 \in S
  <2>1. PICK f : f = [j \in 0 .. 0 |-> q]
    OBVIOUS
  <2>2. Upon(f, 0)
    BY <2>1
  <2>3. QED  BY <2>2
<1>3. ASSUME NEW k \in Nat, k \in S
      PROVE  k + 1 \in S
  <2>1. PICK f : Upon(f, k)
    BY <1>3
  <2>2. PICK g : g = [j \in 0 .. k + 1 |-> IF j = k + 1 THEN Child(f[k], path[k + 1]) ELSE f[j]]
    OBVIOUS
  <2>3. ASSUME NEW j \in 0 .. k + 1
        PROVE  g[j] = IF j = 0 THEN q ELSE Child(g[j - 1], path[j])
    <3>1. CASE j = k + 1
      <4>1. j - 1 = k /\ k \in 0 .. k + 1 /\ k # k + 1 /\ j # 0
        BY <3>1
      <4>2. g[k] = f[k] /\ g[j] = Child(f[k], path[k + 1])
        BY <2>2, <3>1, <4>1
      <4>3. QED  BY <3>1, <4>1, <4>2
    <3>2. CASE j # k + 1
      <4>1. j \in 0 .. k
        BY <3>2
      <4>2. g[j] = f[j] /\ (j # 0 => g[j - 1] = f[j - 1])
        BY <2>2, <4>1
      <4>3. f[j] = IF j = 0 THEN q ELSE Child(f[j - 1], path[j])
        BY <2>1, <4>1
      <4>4. QED  BY <4>2, <4>3
    <3>3. QED  BY <3>1, <3>2
  <2>4. g = [j \in 0 .. k + 1 |-> g[j]]
    BY <2>2
  <2>5. Upon(g, k + 1)
    BY <2>3, <2>4
  <2>6. k + 1 \in Nat
    OBVIOUS
  <2> HIDE DEF Upon
  <2>7. QED  BY <2>5, <2>6
<1>4. Nat \subseteq S
  <2> HIDE DEF S
  <2>1. QED  BY <1>2, <1>3, Induct
<1>5. \E f : IsAt(f, q, path)
  <2>1. len \in S
    BY <1>4
  <2>2. QED  BY <1>1, <2>1 DEF IsAt
<1>6. QED  BY <1>5 DEF IsAt, QueryAt

\* At the end of the empty path is the query itself.
LEMMA AtStart ==
  ASSUME NEW q
  PROVE  QueryAt(q, <<>>) = q
<1>1. <<>> \in Seq(Nat) /\ Len(<<>>) = 0
  BY EmptySeq
<1>2. PICK f : IsAt(f, q, <<>>) /\ QueryAt(q, <<>>) = f[Len(<<>>)]
  BY <1>1, AtExists
<1>3. f[0] = q
  BY <1>1, <1>2 DEF IsAt
<1>4. QED  BY <1>1, <1>2, <1>3

\* One child further.
LEMMA AtNext ==
  ASSUME NEW q, NEW path \in Seq(Nat), NEW i \in Nat
  PROVE  QueryAt(q, Append(path, i)) = Child(QueryAt(q, path), i)
<1>1. PICK len \in Nat : len = Len(path)
  BY LenProperties
<1>2. PICK more : more = Append(path, i)
  OBVIOUS
<1>3. /\ more \in Seq(Nat) /\ Len(more) = len + 1
      /\ \A k \in 1 .. len : more[k] = path[k]
      /\ more[len + 1] = i
  BY <1>1, <1>2, AppendProperties
<1>4. PICK f : IsAt(f, q, path) /\ QueryAt(q, path) = f[Len(path)]
  BY AtExists
<1>5. PICK g : IsAt(g, q, more) /\ QueryAt(q, more) = g[Len(more)]
  BY <1>3, AtExists
<1>6. \A k \in 0 .. len : f[k] = IF k = 0 THEN q ELSE Child(f[k - 1], path[k])
  BY <1>1, <1>4 DEF IsAt
<1>7. \A k \in 0 .. len + 1 : g[k] = IF k = 0 THEN q ELSE Child(g[k - 1], more[k])
  BY <1>3, <1>5 DEF IsAt
<1> DEFINE S == {k \in Nat : k <= len => g[k] = f[k]}
<1>8. 0 \in S
  <2>1. 0 \in 0 .. len /\ 0 \in 0 .. len + 1
    OBVIOUS
  <2>2. QED  BY <1>6, <1>7, <2>1
<1>9. ASSUME NEW k \in Nat, k \in S
      PROVE  k + 1 \in S
  <2>1. SUFFICES ASSUME k + 1 <= len
                 PROVE  g[k + 1] = f[k + 1]
    OBVIOUS
  <2>2. g[k] = f[k]
    BY <1>9, <2>1
  <2>3. PICK j \in 1 .. len : j = k + 1 /\ j - 1 = k /\ j # 0 /\ j \in 0 .. len /\ j \in 0 .. len + 1
    BY <2>1
  <2>4. g[j] = Child(g[k], more[j]) /\ f[j] = Child(f[k], path[j]) /\ more[j] = path[j]
    BY <1>3, <1>6, <1>7, <2>3
  <2>5. QED  BY <2>2, <2>3, <2>4
<1>10. Nat \subseteq S
  <2> HIDE DEF S
  <2>1. QED  BY <1>8, <1>9, Induct
<1>11. g[len] = f[len]
  <2>1. len \in S
    BY <1>10
  <2>2. len <= len
    OBVIOUS
  <2>3. QED  BY <2>1, <2>2
<1>12. g[len + 1] = Child(g[len], more[len + 1])
  <2>1. PICK j \in 0 .. len + 1 : j = len + 1 /\ j # 0 /\ j - 1 = len
    OBVIOUS
  <2>2. g[j] = Child(g[j - 1], more[j])
    BY <1>7, <2>1
  <2>3. QED  BY <2>1, <2>2
<1>13. QED  BY <1>1, <1>2, <1>3, <1>4, <1>5, <1>11, <1>12

\* The paths of a query: the empty one, and any other by a child more.
LEMMA PathStart ==
  ASSUME NEW q
  PROVE  <<>> \in Paths(q)
<1>1. <<>> \in Seq(Nat) /\ DOMAIN <<>> = {}
  BY EmptySeq
<1>2. QED  BY <1>1 DEF Paths

\* A path goes on with a child of what it has reached.
LEMMA PathNext ==
  ASSUME NEW q, NEW path \in Seq(Nat), NEW i \in Nat
  PROVE  Append(path, i) \in Paths(q)
         <=> path \in Paths(q) /\ i \in Children(QueryAt(q, path))
<1>1. PICK len \in Nat : len = Len(path) /\ DOMAIN path = 1 .. len
  BY LenProperties
<1>2. PICK more : more = Append(path, i)
  OBVIOUS
<1>3. /\ more \in Seq(Nat) /\ Len(more) = len + 1
      /\ \A k \in 1 .. len : more[k] = path[k]
      /\ more[len + 1] = i
  BY <1>1, <1>2, AppendProperties
<1>4. DOMAIN more = 1 .. len + 1
  BY <1>3, LenProperties
<1>5. \A k \in 1 .. len + 1 : SubSeq(more, 1, k - 1) = SubSeq(path, 1, k - 1)
  <2>1. ASSUME NEW k \in 1 .. len + 1
        PROVE  SubSeq(more, 1, k - 1) = SubSeq(path, 1, k - 1)
    <3>1. more = path \o <<i>>
      BY <1>2, AppendIsConcat
    <3>2. <<i>> \in Seq(Nat)
      OBVIOUS
    <3>3. PICK f \in 0 .. Len(path) : f = k - 1
      BY <1>1
    <3>4. SubSeq(path \o <<i>>, 1, f) = SubSeq(path, 1, f)
      BY <3>2, SplitAgain
    <3>5. QED  BY <3>1, <3>3, <3>4
  <2>2. QED  BY <2>1
<1>6. SubSeq(path, 1, len) = path
  BY <1>1, SubSeqFull
<1>7. path \in Paths(q) <=> \A k \in 1 .. len : path[k] \in Children(QueryAt(q, SubSeq(path, 1, k - 1)))
  BY <1>1 DEF Paths
<1>8. more \in Paths(q) <=> \A k \in 1 .. len + 1 : more[k] \in Children(QueryAt(q, SubSeq(more, 1, k - 1)))
  BY <1>3, <1>4 DEF Paths
<1>9. more \in Paths(q) <=> \A k \in 1 .. len + 1 : more[k] \in Children(QueryAt(q, SubSeq(path, 1, k - 1)))
  BY <1>5, <1>8
<1>10. (len + 1) - 1 = len /\ \A k : k \in 1 .. len + 1 <=> k \in 1 .. len \/ k = len + 1
  OBVIOUS
<1>11. more \in Paths(q) <=> /\ \A k \in 1 .. len : path[k] \in Children(QueryAt(q, SubSeq(path, 1, k - 1)))
                             /\ i \in Children(QueryAt(q, path))
  BY <1>3, <1>6, <1>9, <1>10
<1>12. QED  BY <1>2, <1>7, <1>11

\* A path goes down by one with each step.
LEMMA PathHeight ==
  ASSUME NEW B \in Nat, NEW Q, Heights(Q, B), NEW h \in 0 .. B, NEW q \in Q[h],
         NEW path \in Paths(q)
  PROVE  Len(path) \in 0 .. h - 1 /\ QueryAt(q, path) \in Q[h - Len(path)]
<1> DEFINE S == {k \in Nat : \A p \in Paths(q) : Len(p) = k =>
                                k \in 0 .. h - 1 /\ QueryAt(q, p) \in Q[h - k]}
<1>1. 0 \in S
  <2>1. SUFFICES ASSUME NEW p \in Paths(q), Len(p) = 0
                 PROVE  0 \in 0 .. h - 1 /\ QueryAt(q, p) \in Q[h - 0]
    OBVIOUS
  <2>2. p \in Seq(Nat)
    BY DEF Paths
  <2>3. p = <<>>
    <3>1. \A v \in Seq(Nat) : v # <<>> => Len(v) \in Nat \ {0}
      BY EmptySeq
    <3>2. QED  BY <2>1, <2>2, <3>1
  <2>4. QueryAt(q, p) = q
    BY <2>3, AtStart
  <2>5. h # 0 /\ h - 0 = h
    BY ChildrenLower
  <2>6. QED  BY <2>4, <2>5
<1>2. ASSUME NEW k \in Nat, k \in S
      PROVE  k + 1 \in S
  <2>1. SUFFICES ASSUME NEW p \in Paths(q), Len(p) = k + 1
                 PROVE  k + 1 \in 0 .. h - 1 /\ QueryAt(q, p) \in Q[h - (k + 1)]
    OBVIOUS
  <2>2. p \in Seq(Nat) /\ p # <<>>
    BY <2>1, EmptySeq DEF Paths
  <2>3. PICK s \in Seq(Nat), i \in Nat : p = Append(s, i)
    BY <2>2, SequenceEmptyOrAppend
  <2>4. s \in Paths(q) /\ i \in Children(QueryAt(q, s))
    BY <2>3, PathNext
  <2>5. Len(s) = k
    <3>1. Len(p) = Len(s) + 1
      BY <2>3, AppendProperties
    <3>2. Len(s) \in Nat
      BY LenProperties
    <3>3. QED  BY <2>1, <3>1, <3>2
  <2>6. k \in 0 .. h - 1 /\ QueryAt(q, s) \in Q[h - k]
    BY <1>2, <2>4, <2>5
  <2>7. PICK g \in 0 .. B : g = h - k
    BY <2>6
  <2>8. g # 0 /\ Child(QueryAt(q, s), i) \in Q[g - 1]
    BY <2>4, <2>6, <2>7, ChildrenLower
  <2>9. QueryAt(q, p) = Child(QueryAt(q, s), i)
    BY <2>3, AtNext
  <2>10. g - 1 # 0
    <3>1. CASE g - 1 = 0
      <4>1. PICK z \in 0 .. B : z = g - 1
        BY <3>1
      <4>2. z # 0
        <5>1. Child(QueryAt(q, s), i) \in Q[z]
          BY <2>8, <4>1
        <5>2. QED  BY <5>1, ChildrenLower
      <4>3. QED  BY <3>1, <4>1, <4>2
    <3>2. QED  BY <3>1
  <2>11. g - 1 = h - (k + 1) /\ k + 1 \in 0 .. h - 1
    BY <2>6, <2>7, <2>8, <2>10
  <2>12. QED  BY <2>8, <2>9, <2>11
<1>3. Nat \subseteq S
  <2> HIDE DEF S
  <2>1. QED  BY <1>1, <1>2, Induct
<1>4. path \in Seq(Nat)
  BY DEF Paths
<1>5. PICK k \in Nat : k = Len(path)
  BY <1>4, LenProperties
<1>6. k \in S
  BY <1>3
<1>7. QED  BY <1>5, <1>6

-----------------------------------------------------------------------------
(* Recursion on what is lower *)

\* A definition by recursion: what F makes of d and of the values of what is
\* lower than d.
Lower(D, rank, d)  == {e \in D : rank[e] < rank[d]}
Givens(D, rank, V, d) == {w \in [Lower(D, rank, d) -> UNION {V[e] : e \in D}] :
                            \A e \in Lower(D, rank, d) : w[e] \in V[e]}
Recursion(D, rank, h, V, F) ==
  /\ h \in Nat
  /\ \A d \in D : rank[d] \in 0 .. h - 1
  /\ \A d \in D : \A w \in Givens(D, rank, V, d) : F[d][w] \in V[d]
Defined(f, D, rank, F) == f = [d \in D |-> F[d][[e \in Lower(D, rank, d) |-> f[e]]]]
Typed(f, D, V)         == \A d \in D : f[d] \in V[d]

\* A recursion that always calls on what is lower defines its values, of
\* the types it keeps.
LEMMA RecursionDefines ==
  ASSUME NEW D, NEW rank, NEW h, NEW V, NEW F, Recursion(D, rank, h, V, F)
  PROVE  \E f : Defined(f, D, rank, F) /\ Typed(f, D, V)
<1>0. h \in Nat /\ \A d \in D : rank[d] \in 0 .. h - 1
  BY DEF Recursion
<1> DEFINE LowerThan(k) == {d \in D : rank[d] < k}
           S == {k \in Nat : \E f : f = [d \in LowerThan(k) |-> F[d][[e \in Lower(D, rank, d) |-> f[e]]]]
                                    /\ \A d \in LowerThan(k) : f[d] \in V[d]}
<1>1. 0 \in S
  <2>1. LowerThan(0) = {}
    BY <1>0
  <2>2. PICK f : f = [d \in {} |-> 0]
    OBVIOUS
  <2>3. f = [d \in {} |-> F[d][[e \in Lower(D, rank, d) |-> f[e]]]]
    BY <2>2
  <2>4. QED  BY <2>1, <2>3
<1>2. ASSUME NEW k \in Nat, k \in S
      PROVE  k + 1 \in S
  <2>1. PICK f : /\ f = [d \in LowerThan(k) |-> F[d][[e \in Lower(D, rank, d) |-> f[e]]]]
                 /\ \A d \in LowerThan(k) : f[d] \in V[d]
    BY <1>2
  <2>2. PICK g : g = [d \in LowerThan(k + 1) |-> IF d \in LowerThan(k) THEN f[d]
                                           ELSE F[d][[e \in Lower(D, rank, d) |-> f[e]]]]
    OBVIOUS
  <2>3. ASSUME NEW d \in LowerThan(k + 1)
        PROVE  g[d] = F[d][[e \in Lower(D, rank, d) |-> g[e]]] /\ g[d] \in V[d]
    <3>1. \A e \in Lower(D, rank, d) : e \in LowerThan(k) /\ e \in LowerThan(k + 1)
      BY <1>0 DEF Lower
    <3>2. \A e \in Lower(D, rank, d) : g[e] = f[e] /\ f[e] \in V[e]
      BY <2>1, <2>2, <3>1
    <3>3. PICK w : w = [e \in Lower(D, rank, d) |-> f[e]]
      OBVIOUS
    <3>4. w = [e \in Lower(D, rank, d) |-> g[e]]
      BY <3>2, <3>3
    <3>5. g[d] = F[d][w]
      <4>1. CASE d \in LowerThan(k)
        <5>1. g[d] = f[d]
          BY <2>2, <4>1
        <5>2. f[d] = F[d][w]
          BY <2>1, <3>3, <4>1
        <5>3. QED  BY <5>1, <5>2
      <4>2. CASE d \notin LowerThan(k)
        BY <2>2, <3>3, <4>2
      <4>3. QED  BY <4>1, <4>2
    <3>6. w \in Givens(D, rank, V, d)
      <4>1. \A e \in Lower(D, rank, d) : w[e] \in V[e] /\ w[e] \in UNION {V[c] : c \in D}
        BY <3>2, <3>3 DEF Lower
      <4>2. w \in [Lower(D, rank, d) -> UNION {V[e] : e \in D}]
        BY <3>3, <4>1
      <4>3. QED  BY <4>1, <4>2 DEF Givens
    <3>7. d \in D
      OBVIOUS
    <3>8. F[d][w] \in V[d]
      BY <3>6, <3>7 DEF Recursion
    <3>9. QED  BY <3>4, <3>5, <3>8
  <2>4. g = [d \in LowerThan(k + 1) |-> g[d]]
    BY <2>2
  <2> HIDE DEF LowerThan
  <2>5. g = [d \in LowerThan(k + 1) |-> F[d][[e \in Lower(D, rank, d) |-> g[e]]]]
    BY <2>3, <2>4
  <2>6. k + 1 \in Nat
    OBVIOUS
  <2>7. \A d \in LowerThan(k + 1) : g[d] \in V[d]
    BY <2>3
  <2>8. QED  BY <2>5, <2>6, <2>7
<1>3. Nat \subseteq S
  <2> HIDE DEF S
  <2>1. QED  BY <1>1, <1>2, Induct
<1>4. h \in S
  BY <1>0, <1>3
<1>5. LowerThan(h) = D
  BY <1>0
<1>6. PICK f : f = [d \in LowerThan(h) |-> F[d][[e \in Lower(D, rank, d) |-> f[e]]]]
               /\ \A d \in LowerThan(h) : f[d] \in V[d]
  BY <1>4
<1>7. QED  BY <1>5, <1>6 DEF Defined, Typed

\* What holds of a value if it holds of all lower ones.
Inherits(D, rank, h, V, f) ==
  /\ h \in Nat
  /\ \A d \in D : rank[d] \in 0 .. h - 1
  /\ \A d \in D : (\A e \in Lower(D, rank, d) : f[e] \in V[e]) => f[d] \in V[d]

\* And so it is of any function that satisfies the recursion.
LEMMA RecursionTypes ==
  ASSUME NEW D, NEW rank, NEW h, NEW V, NEW f, Inherits(D, rank, h, V, f)
  PROVE  Typed(f, D, V)
<1>0. h \in Nat /\ \A d \in D : rank[d] \in 0 .. h - 1
  BY DEF Inherits
<1> DEFINE S == {k \in Nat : \A d \in D : rank[d] < k => f[d] \in V[d]}
<1>1. 0 \in S
  BY <1>0
<1>2. ASSUME NEW k \in Nat, k \in S
      PROVE  k + 1 \in S
  <2>1. SUFFICES ASSUME NEW d \in D, rank[d] < k + 1
                 PROVE  f[d] \in V[d]
    OBVIOUS
  <2>2. \A e \in Lower(D, rank, d) : e \in D /\ rank[e] < k
    BY <1>0, <2>1 DEF Lower
  <2>3. \A e \in Lower(D, rank, d) : f[e] \in V[e]
    BY <1>2, <2>2
  <2>4. QED  BY <2>3 DEF Inherits
<1>3. Nat \subseteq S
  <2> HIDE DEF S
  <2>1. QED  BY <1>1, <1>2, Induct
<1>4. h \in S
  BY <1>0, <1>3
<1>5. QED  BY <1>0, <1>4 DEF Typed

\* The paths of a query by the height of what is at their end.
PathRank(q, h) == [path \in Paths(q) |-> (h - 1) - Len(path)]

\* The parts of a part are lower.
LEMMA PathsBelow ==
  ASSUME NEW B \in Nat, NEW Q, Heights(Q, B), NEW h \in 0 .. B, NEW q \in Q[h],
         NEW path \in Paths(q)
  PROVE  /\ PathRank(q, h)[path] \in 0 .. h - 1
         /\ \A i \in Children(QueryAt(q, path)) :
              i \in Nat /\ Append(path, i) \in Lower(Paths(q), PathRank(q, h), path)
<1>1. Len(path) \in 0 .. h - 1 /\ QueryAt(q, path) \in Q[h - Len(path)]
  BY PathHeight
<1>2. PICK len \in 0 .. h - 1 : len = Len(path)
  BY <1>1
<1>3. PICK g \in 0 .. B : g = h - len
  BY <1>2
<1>4. QueryAt(q, path) \in Q[g]
  BY <1>1, <1>2, <1>3
<1>5. path \in Seq(Nat)
  BY DEF Paths
<1>6. PathRank(q, h)[path] = (h - 1) - len
  BY <1>2 DEF PathRank
<1>7. ASSUME NEW i \in Children(QueryAt(q, path))
      PROVE  i \in Nat /\ Append(path, i) \in Lower(Paths(q), PathRank(q, h), path)
  <2>1. i \in Nat
    BY <1>4, ChildrenLower
  <2>2. PICK more : more = Append(path, i)
    OBVIOUS
  <2>3. more \in Paths(q)
    BY <1>5, <2>1, <2>2, PathNext
  <2>4. Len(more) = len + 1
    BY <1>2, <1>5, <2>1, <2>2, AppendProperties
  <2>5. PathRank(q, h)[more] = (h - 1) - (len + 1)
    BY <2>3, <2>4 DEF PathRank
  <2>6. PathRank(q, h)[more] < PathRank(q, h)[path]
    BY <1>6, <2>5
  <2>7. QED  BY <2>1, <2>2, <2>3, <2>6 DEF Lower
<1>8. PathRank(q, h)[path] \in 0 .. h - 1
  BY <1>6
<1>9. QED  BY <1>7, <1>8

-----------------------------------------------------------------------------
(* The search finds nodes, none twice *)

\* What a search returns: nodes of the text, none of them twice.
TargetLists(text)  == {s \in Seq(Nodes(text)) : Distinct(s)}
Searches(text) == [SUBSET Nodes(text) -> TargetLists(text)]

\* A query finds nodes, none twice, if its parts do.
LEMMA FoundTyped ==
  ASSUME NEW text \in Seq(Symbols), NEW X, NEW q \in Shapes(X), NEW within,
         \A i \in Children(q) : within[i] \in Searches(text)
  PROVE  Found(text, q, within) \in Searches(text)
<1>1. q.op \in QueryOps /\ q.args \in Seq(X) /\ (q.op \in {"AND", "NOT"} => q.args # <<>>)
  BY DEF Shapes
<1>2. DOMAIN q.args = 1 .. Len(q.args) /\ Len(q.args) \in Nat
  BY <1>1, LenProperties
<1>3. <<>> \in TargetLists(text)
  <2>1. <<>> \in Seq(Nodes(text)) /\ DOMAIN <<>> = {}
    BY EmptySeq
  <2>2. QED  BY <2>1 DEF TargetLists, Distinct
<1>4. \A T \in SUBSET Nodes(text) : InOrder(T) \in TargetLists(text)
  BY InOrderMeans DEF TargetLists
<1>5. ASSUME NEW S \in SUBSET Nodes(text)
      PROVE  Found(text, q, within)[S] \in TargetLists(text)
  <2>1. CASE q.op = "AND"
    <3>1. PICK T : T = {n \in S : \A i \in 2 .. Len(q.args) : ElementOf(n, within[i][S])}
      OBVIOUS
    <3>2. Found(text, q, within)[S] = Kept(within[1][S], T)
      BY <2>1, <3>1 DEF Found
    <3>3. 1 \in Children(q)
      <4>1. Len(q.args) # 0
        BY <1>1, <2>1, EmptySeq
      <4>2. 1 \in DOMAIN q.args
        BY <1>2, <4>1
      <4>3. QED  BY <4>2 DEF Children
    <3>4. within[1][S] \in TargetLists(text)
      BY <3>3 DEF Searches
    <3>5. within[1][S] \in Seq(Nodes(text)) /\ Distinct(within[1][S])
      BY <3>4 DEF TargetLists
    <3>6. QED  BY <3>2, <3>5, KeptMeans DEF TargetLists
  <2>2. CASE q.op = "OR"
    <3>1. PICK us : us = [i \in DOMAIN q.args |-> within[i][S]]
      OBVIOUS
    <3>2. Found(text, q, within)[S] = Unions(us)
      BY <2>2, <3>1 DEF Found, Unions
    <3>3. us \in Seq(Seq(Nodes(text)))
      <4>1. \A i \in DOMAIN q.args : within[i][S] \in Seq(Nodes(text))
        BY DEF Children, Searches, TargetLists
      <4>2. us \in [1 .. Len(q.args) -> Seq(Nodes(text))]
        BY <1>2, <3>1, <4>1
      <4>3. PICK len \in Nat : len = Len(q.args)
        BY <1>2
      <4>4. us \in [1 .. len -> Seq(Nodes(text))]
        BY <4>2, <4>3
      <4>5. QED  BY <4>4, SeqDef
    <3>4. QED  BY <3>2, <3>3, UnionsMean DEF TargetLists
  <2>3. CASE q.op = "NOT"
    <3>1. PICK T : T = {n \in S : n.kind = q.args[1].sel.kind /\ ~ElementOf(n, within[1][S])}
      OBVIOUS
    <3>2. Found(text, q, within)[S] = IF q.args[1].sel.kind = "" THEN <<>> ELSE InOrder(T)
      BY <2>3, <3>1 DEF Found
    <3>3. T \in SUBSET Nodes(text)
      BY <3>1
    <3>4. QED  BY <1>3, <1>4, <3>2, <3>3
  <2>4. CASE q.op = ""
    <3>1. PICK T : T = {n \in S : Candidate(text, n, q, within[0])}
      OBVIOUS
    <3>2. Found(text, q, within)[S] = InOrder(T)
      BY <2>4, <3>1 DEF Found
    <3>3. T \in SUBSET Nodes(text)
      BY <3>1
    <3>4. QED  BY <1>4, <3>2, <3>3
  <2>5. QED  BY <1>1, <2>1, <2>2, <2>3, <2>4 DEF QueryOps
<1>6. Found(text, q, within) = [S \in SUBSET Nodes(text) |-> Found(text, q, within)[S]]
  BY DEF Found
<1>7. PICK f : f = Found(text, q, within)
  OBVIOUS
<1>8. QED  BY <1>5, <1>6, <1>7 DEF Searches

\* The search is defined for every query.
FoundBelow(text, q, path, w) ==
  Found(text, QueryAt(q, path), [i \in Children(QueryAt(q, path)) |-> w[Append(path, i)]])
IsFind(f, text, q) == f = [path \in Paths(q) |-> LET p == QueryAt(q, path)
                                                IN  Found(text, p, [i \in Children(p) |-> f[Append(path, i)]])]

\* The search is what its recursion says.
Searching(g, text, q) ==
  /\ IsFind(g, text, q)
  /\ \A T \in SUBSET Nodes(text) : FindTargets(text, T, q) = g[<<>>][T]
  /\ \A path \in Paths(q) : g[path] \in Searches(text)

\* Such a recursion exists for every query.
LEMMA FindRun ==
  ASSUME NEW B \in Nat, NEW Q, Heights(Q, B), NEW h \in 0 .. B, NEW q \in Q[h],
         NEW text \in Seq(Symbols)
  PROVE  \E g : Searching(g, text, q)
<1>1. PICK D : D = Paths(q)
  OBVIOUS
<1>2. PICK rank : rank = PathRank(q, h)
  OBVIOUS
<1>3. PICK V : V = [path \in D |-> Searches(text)]
  OBVIOUS
<1>4. PICK F : F = [path \in D |-> [w \in Givens(D, rank, V, path) |-> FoundBelow(text, q, path, w)]]
  OBVIOUS
<1>5. ASSUME NEW path \in D
      PROVE  /\ rank[path] \in 0 .. h - 1
             /\ \A i \in Children(QueryAt(q, path)) :
                  i \in Nat /\ Append(path, i) \in Lower(D, rank, path)
  BY <1>1, <1>2, PathsBelow
<1>6. ASSUME NEW path \in D
       PROVE  \E X : QueryAt(q, path) \in Shapes(X)
  <2>1. Len(path) \in 0 .. h - 1 /\ QueryAt(q, path) \in Q[h - Len(path)]
    BY <1>1, PathHeight
  <2>2. PICK g \in 0 .. B : g = h - Len(path)
    BY <2>1
  <2>3. QueryAt(q, path) \in Q[g]
    BY <2>1, <2>2
  <2>4. QED  BY <2>3, ChildrenLower
<1>7. Recursion(D, rank, h, V, F)
  <2>1. ASSUME NEW path \in D, NEW w \in Givens(D, rank, V, path)
        PROVE  F[path][w] \in V[path]
    <3>1. PICK p : p = QueryAt(q, path)
      OBVIOUS
    <3>2. PICK within : within = [i \in Children(p) |-> w[Append(path, i)]]
      OBVIOUS
    <3>3. \A i \in Children(p) : within[i] \in Searches(text)
      <4>1. ASSUME NEW i \in Children(p)
            PROVE  within[i] \in Searches(text)
        <5>1. PICK e : e = Append(path, i)
          OBVIOUS
        <5>2. e \in Lower(D, rank, path)
          BY <1>5, <3>1, <5>1
        <5>3. w[e] \in V[e] /\ e \in D
          BY <5>2 DEF Givens, Lower
        <5>4. QED  BY <1>3, <3>2, <5>1, <5>3
      <4>2. QED  BY <4>1
    <3>4. \E X : p \in Shapes(X)
      BY <1>6, <3>1
    <3>5. Found(text, p, within) \in Searches(text)
      BY <3>3, <3>4, FoundTyped
    <3>6. F[path][w] = FoundBelow(text, q, path, w)
      BY <1>4
    <3>7. FoundBelow(text, q, path, w) = Found(text, p, within)
      BY <3>1, <3>2 DEF FoundBelow
    <3>8. QED  BY <1>3, <3>5, <3>6, <3>7
  <2>2. h \in Nat
    OBVIOUS
  <2>3. \A path \in D : rank[path] \in 0 .. h - 1
    BY <1>5
  <2>4. QED  BY <2>1, <2>2, <2>3 DEF Recursion
<1>8. PICK f : Defined(f, D, rank, F) /\ Typed(f, D, V)
  BY <1>7, RecursionDefines
<1>9. IsFind(f, text, q)
  <2>1. ASSUME NEW path \in D
        PROVE  f[path] = Found(text, QueryAt(q, path),
                               [i \in Children(QueryAt(q, path)) |-> f[Append(path, i)]])
    <3>1. PICK w : w = [e \in Lower(D, rank, path) |-> f[e]]
      OBVIOUS
    <3>2. w \in Givens(D, rank, V, path)
      <4>1. \A e \in Lower(D, rank, path) : w[e] \in V[e] /\ w[e] \in UNION {V[c] : c \in D}
        BY <1>8, <3>1 DEF Lower, Typed
      <4>2. w \in [Lower(D, rank, path) -> UNION {V[e] : e \in D}]
        BY <3>1, <4>1
      <4>3. QED  BY <4>1, <4>2 DEF Givens
    <3>3. f[path] = FoundBelow(text, q, path, w)
      <4>1. f[path] = F[path][w]
        BY <1>8, <3>1 DEF Defined
      <4>2. QED  BY <1>4, <3>2, <4>1
    <3>4. \A i \in Children(QueryAt(q, path)) : w[Append(path, i)] = f[Append(path, i)]
      BY <1>5, <3>1
    <3>5. QED  BY <3>3, <3>4 DEF FoundBelow
  <2>2. f = [path \in D |-> f[path]]
    BY <1>8 DEF Defined
  <2>3. QED  BY <1>1, <2>1, <2>2 DEF IsFind
<1>10. PICK g : IsFind(g, text, q) /\ \A T \in SUBSET Nodes(text) : FindTargets(text, T, q) = g[<<>>][T]
  BY <1>9 DEF IsFind, FindTargets
<1>11. \A path \in D :
         g[path] = Found(text, QueryAt(q, path), [i \in Children(QueryAt(q, path)) |-> g[Append(path, i)]])
  BY <1>1, <1>10 DEF IsFind
<1>12. Inherits(D, rank, h, V, g)
  <2>1. ASSUME NEW path \in D, \A e \in Lower(D, rank, path) : g[e] \in V[e]
        PROVE  g[path] \in V[path]
    <3>1. PICK within : within = [i \in Children(QueryAt(q, path)) |-> g[Append(path, i)]]
      OBVIOUS
    <3>2. \A i \in Children(QueryAt(q, path)) : within[i] \in Searches(text)
      <4>1. ASSUME NEW i \in Children(QueryAt(q, path))
            PROVE  within[i] \in Searches(text)
        <5>1. PICK e : e = Append(path, i)
          OBVIOUS
        <5>2. e \in Lower(D, rank, path)
          BY <1>5, <5>1
        <5>3. g[e] \in V[e] /\ e \in D
          BY <2>1, <5>2 DEF Lower
        <5>4. QED  BY <1>3, <3>1, <5>1, <5>3
      <4>2. QED  BY <4>1
    <3>3. \E X : QueryAt(q, path) \in Shapes(X)
      BY <1>6
    <3>4. Found(text, QueryAt(q, path), within) \in Searches(text)
      BY <3>2, <3>3, FoundTyped
    <3>5. QED  BY <1>3, <1>11, <3>1, <3>4
  <2>2. h \in Nat
    OBVIOUS
  <2>3. \A path \in D : rank[path] \in 0 .. h - 1
    BY <1>5
  <2>4. QED  BY <2>1, <2>2, <2>3 DEF Inherits
<1>13. \A path \in D : g[path] \in Searches(text)
  BY <1>3, <1>12, RecursionTypes DEF Typed
<1>14. QED  BY <1>1, <1>10, <1>13 DEF Searching

\* A search finds nodes of the text, none of them twice.
LEMMA FindTyped ==
  ASSUME NEW B \in Nat, NEW Q, Heights(Q, B), NEW h \in 0 .. B, NEW q \in Q[h],
         NEW text \in Seq(Symbols), NEW T \in SUBSET Nodes(text)
  PROVE  FindTargets(text, T, q) \in TargetLists(text)
<1>1. PICK g : Searching(g, text, q)
  BY FindRun
<1>2. g[<<>>] \in Searches(text) /\ FindTargets(text, T, q) = g[<<>>][T]
  BY <1>1, PathStart DEF Searching
<1>3. QED  BY <1>2 DEF Searches

-----------------------------------------------------------------------------
(* A chain of > and >> is a query *)

\* A child makes a query no higher than the two together.
LEMMA AttachedTyped ==
  ASSUME NEW B \in Nat, NEW Q, Heights(Q, B), NEW g \in 0 .. B, NEW b \in 0 .. B, g + b <= B,
         NEW q \in Q[g], NEW child \in Q[b], NEW direct \in BOOLEAN, NEW within,
         \A i \in Children(q) : within[i] \in Q[(g + b) - 1]
  PROVE  Attached(q, within, child, direct) \in Q[g + b]
<1>1. g # 0 /\ q \in Shapes(Q[g - 1])
  BY ChildrenLower
<1>2. b # 0
  BY ChildrenLower
<1>3. PICK top \in 0 .. B : top = g + b
  OBVIOUS
<1>4. PICK m \in 0 .. B : m = top - 1
  BY <1>1, <1>3
<1>5. PICK low \in 0 .. B : low = g - 1 /\ m \in low .. B
  BY <1>1, <1>2, <1>3, <1>4
<1>6. PICK Y : Y = Q[m]
  OBVIOUS
<1>7. Q[top] = Shapes(Y)
  <2>1. Q[top] = IF top = 0 THEN {} ELSE Shapes(Q[top - 1])
    BY DEF Heights
  <2>2. top # 0
    BY <1>1, <1>3
  <2>3. QED  BY <1>4, <1>6, <2>1, <2>2
<1>8. Q[low] \subseteq Y
  BY <1>5, <1>6, HeightsGrow
<1>9. q \in Shapes(Y)
  <2>1. q \in Shapes(Q[low])
    BY <1>1, <1>5
  <2>2. QED  BY <1>8, <2>1, ShapesGrow
<1>10. child \in Y
  <2>1. m \in b .. B
    BY <1>1, <1>3, <1>4
  <2>2. QED  BY <1>6, <2>1, HeightsGrow
<1>11. \A i \in Children(q) : within[i] \in Y
  BY <1>3, <1>4, <1>6
<1>12. /\ q \in [op: QueryOps, sel: QuerySels, sub: {<<>>} \union {<<c>> : c \in Y},
                direct: BOOLEAN, args: Seq(Y)]
       /\ q.op \in {"AND", "NOT"} => q.args # <<>>
  BY <1>9 DEF Shapes
<1>13. Attached(q, within, child, direct) \in Shapes(Y)
  <2>1. CASE q.op \in {"AND", "OR"}
    <3>1. PICK args : args = [i \in DOMAIN q.args |-> within[i]]
      OBVIOUS
    <3>2. DOMAIN q.args = 1 .. Len(q.args) /\ Len(q.args) \in Nat /\ q.args \in Seq(Y)
      BY <1>12, LenProperties
    <3>3. PICK len \in Nat : len = Len(q.args)
      BY <3>2
    <3>4. \A i \in 1 .. len : args[i] \in Y
      BY <1>11, <3>1, <3>2, <3>3 DEF Children
    <3>5. args \in [1 .. len -> Y]
      BY <3>1, <3>2, <3>3, <3>4
    <3>6. args \in Seq(Y)
      BY <3>5, SeqDef
    <3>7. q.op \in {"AND", "NOT"} => args # <<>>
      <4>1. q.op \in {"AND", "NOT"} => len # 0
        BY <1>12, <3>2, <3>3, EmptySeq
      <4>2. DOMAIN args = 1 .. len
        BY <3>5
      <4>3. len # 0 => 1 \in DOMAIN args
        BY <4>2
      <4>4. DOMAIN <<>> = {}
        BY EmptySeq
      <4>5. QED  BY <4>1, <4>3, <4>4
    <3>8. Attached(q, within, child, direct) = [q EXCEPT !.args = args]
      BY <2>1, <3>1 DEF Attached
    <3>9. PICK r : r = [q EXCEPT !.args = args]
      OBVIOUS
    <3>10. r \in [op: QueryOps, sel: QuerySels, sub: {<<>>} \union {<<c>> : c \in Y},
                  direct: BOOLEAN, args: Seq(Y)] /\ r.op = q.op /\ r.args = args
      BY <1>12, <3>6, <3>9
    <3>11. QED  BY <3>7, <3>8, <3>9, <3>10 DEF Shapes
  <2>2. CASE q.op \notin {"AND", "OR"} /\ q.sub = <<>>
    <3>1. Attached(q, within, child, direct) = [q EXCEPT !.sub = <<child>>, !.direct = direct]
      BY <2>2 DEF Attached
    <3>2. PICK r : r = [q EXCEPT !.sub = <<child>>, !.direct = direct]
      OBVIOUS
    <3>3. PICK sub : sub = <<child>>
      OBVIOUS
    <3>4. sub \in {<<>>} \union {<<c>> : c \in Y}
      BY <1>10, <3>3
    <3>5. r = [q EXCEPT !.sub = sub, !.direct = direct]
      BY <3>2, <3>3
    <3>6. r \in [op: QueryOps, sel: QuerySels, sub: {<<>>} \union {<<c>> : c \in Y},
                  direct: BOOLEAN, args: Seq(Y)] /\ r.op = q.op /\ r.args = q.args
      BY <1>12, <3>4, <3>5
    <3>7. QED  BY <1>12, <3>1, <3>2, <3>6 DEF Shapes
  <2>3. CASE q.op \notin {"AND", "OR"} /\ q.sub # <<>>
    <3>1. 0 \in Children(q)
      BY <2>3 DEF Children
    <3>2. PICK sub : sub = <<within[0]>>
      OBVIOUS
    <3>3. sub \in {<<>>} \union {<<c>> : c \in Y}
      BY <1>11, <3>1, <3>2
    <3>4. PICK r : r = [q EXCEPT !.sub = sub]
      OBVIOUS
    <3>5. Attached(q, within, child, direct) = r
      BY <2>3, <3>2, <3>4 DEF Attached
    <3>6. r \in [op: QueryOps, sel: QuerySels, sub: {<<>>} \union {<<c>> : c \in Y},
                  direct: BOOLEAN, args: Seq(Y)] /\ r.op = q.op /\ r.args = q.args
      BY <1>12, <3>3, <3>4
    <3>7. QED  BY <1>12, <3>5, <3>6 DEF Shapes
  <2>4. QED  BY <2>1, <2>2, <2>3
<1>14. QED  BY <1>3, <1>7, <1>13

\* The recursion of AttachContains.
AttachedBelow(parent, child, direct, path, w) ==
  Attached(QueryAt(parent, path),
           [i \in Children(QueryAt(parent, path)) |-> w[Append(path, i)]], child, direct)
IsAttach(f, parent, child, direct) ==
  f = [path \in Paths(parent) |->
         LET q == QueryAt(parent, path)
         IN  Attached(q, [i \in Children(q) |-> f[Append(path, i)]], child, direct)]

\* What contains a child is what the recursion says: a query, no higher than
\* the two together.
LEMMA AttachRun ==
  ASSUME NEW B \in Nat, NEW Q, Heights(Q, B), NEW a \in 0 .. B, NEW b \in 0 .. B, a + b <= B,
         NEW parent \in Q[a], NEW child \in Q[b], NEW direct \in BOOLEAN
  PROVE  /\ \E g : IsAttach(g, parent, child, direct) /\ AttachContains(parent, child, direct) = g[<<>>]
         /\ AttachContains(parent, child, direct) \in Q[a + b]
<1>1. PICK D : D = Paths(parent)
  OBVIOUS
<1>2. PICK rank : rank = PathRank(parent, a)
  OBVIOUS
<1>3. PICK V : V = [path \in D |-> Q[(rank[path] + 1) + b]]
  OBVIOUS
<1>4. PICK F : F = [path \in D |-> [w \in Givens(D, rank, V, path) |->
                                      AttachedBelow(parent, child, direct, path, w)]]
  OBVIOUS
<1>5. ASSUME NEW path \in D
      PROVE  /\ rank[path] \in 0 .. a - 1
             /\ \A i \in Children(QueryAt(parent, path)) :
                  i \in Nat /\ Append(path, i) \in Lower(D, rank, path)
  BY <1>1, <1>2, PathsBelow
<1>6. ASSUME NEW path \in D, NEW within,
             \A i \in Children(QueryAt(parent, path)) :
               within[i] \in V[Append(path, i)]
      PROVE  Attached(QueryAt(parent, path), within, child, direct) \in V[path]
  <2>1. PICK len \in 0 .. a - 1 : len = Len(path) /\ QueryAt(parent, path) \in Q[a - len]
    BY <1>1, PathHeight
  <2>2. PICK g \in 0 .. B : g = a - len
    BY <2>1
  <2>3. rank[path] + 1 = g
    BY <1>1, <1>2, <2>1, <2>2 DEF PathRank
  <2>4. PICK q : q = QueryAt(parent, path)
    OBVIOUS
  <2>5. q \in Q[g]
    BY <2>1, <2>2, <2>4
  <2>6. \A i \in Children(q) : within[i] \in Q[(g + b) - 1]
    <3>1. ASSUME NEW i \in Children(q)
          PROVE  within[i] \in Q[(g + b) - 1]
      <4>1. PICK e : e = Append(path, i)
        OBVIOUS
      <4>2. e \in Lower(D, rank, path) /\ i \in Nat
        BY <1>5, <2>4, <4>1
      <4>3. e \in D
        BY <4>2 DEF Lower
      <4>4. Len(e) = len + 1
        <5>1. path \in Seq(Nat)
          BY <1>1 DEF Paths
        <5>2. QED  BY <2>1, <4>1, <4>2, <5>1, AppendProperties
      <4>5. rank[e] = (a - 1) - (len + 1)
        BY <1>1, <1>2, <4>3, <4>4 DEF PathRank
      <4>6. (rank[e] + 1) + b = (g + b) - 1
        BY <2>2, <4>5
      <4>7. within[i] \in V[e]
        BY <1>6, <2>4, <4>1
      <4>8. V[e] = Q[(rank[e] + 1) + b]
        BY <1>3, <4>3
      <4>9. QED  BY <4>6, <4>7, <4>8
    <3>2. QED  BY <3>1
  <2>7. g + b <= B
    BY <2>1, <2>2
  <2>8. Attached(q, within, child, direct) \in Q[g + b]
    BY <2>5, <2>6, <2>7, AttachedTyped
  <2>9. V[path] = Q[g + b]
    BY <1>3, <2>3
  <2>10. QED  BY <2>4, <2>8, <2>9
<1>7. Recursion(D, rank, a, V, F)
  <2>1. ASSUME NEW path \in D, NEW w \in Givens(D, rank, V, path)
        PROVE  F[path][w] \in V[path]
    <3>1. PICK within : within = [i \in Children(QueryAt(parent, path)) |-> w[Append(path, i)]]
      OBVIOUS
    <3>2. \A i \in Children(QueryAt(parent, path)) : within[i] \in V[Append(path, i)]
      <4>1. ASSUME NEW i \in Children(QueryAt(parent, path))
            PROVE  within[i] \in V[Append(path, i)]
        <5>1. PICK e : e = Append(path, i)
          OBVIOUS
        <5>2. e \in Lower(D, rank, path)
          BY <1>5, <5>1
        <5>3. w[e] \in V[e]
          BY <5>2 DEF Givens
        <5>4. QED  BY <3>1, <5>1, <5>3
      <4>2. QED  BY <4>1
    <3>3. Attached(QueryAt(parent, path), within, child, direct) \in V[path]
      BY <1>6, <3>2
    <3>4. F[path][w] = AttachedBelow(parent, child, direct, path, w)
      BY <1>4
    <3>5. QED  BY <3>1, <3>3, <3>4 DEF AttachedBelow
  <2>2. a \in Nat
    OBVIOUS
  <2>3. \A path \in D : rank[path] \in 0 .. a - 1
    BY <1>5
  <2>4. QED  BY <2>1, <2>2, <2>3 DEF Recursion
<1>8. PICK f : Defined(f, D, rank, F) /\ Typed(f, D, V)
  BY <1>7, RecursionDefines
<1>9. IsAttach(f, parent, child, direct)
  <2>1. ASSUME NEW path \in D
        PROVE  f[path] = Attached(QueryAt(parent, path),
                               [i \in Children(QueryAt(parent, path)) |-> f[Append(path, i)]], child, direct)
    <3>1. PICK w : w = [e \in Lower(D, rank, path) |-> f[e]]
      OBVIOUS
    <3>2. w \in Givens(D, rank, V, path)
      <4>1. \A e \in Lower(D, rank, path) : w[e] \in V[e] /\ w[e] \in UNION {V[c] : c \in D}
        BY <1>8, <3>1 DEF Lower, Typed
      <4>2. w \in [Lower(D, rank, path) -> UNION {V[e] : e \in D}]
        BY <3>1, <4>1
      <4>3. QED  BY <4>1, <4>2 DEF Givens
    <3>3. f[path] = AttachedBelow(parent, child, direct, path, w)
      <4>1. f[path] = F[path][w]
        BY <1>8, <3>1 DEF Defined
      <4>2. QED  BY <1>4, <3>2, <4>1
    <3>4. \A i \in Children(QueryAt(parent, path)) : w[Append(path, i)] = f[Append(path, i)]
      BY <1>5, <3>1
    <3>5. QED  BY <3>3, <3>4 DEF AttachedBelow
  <2>2. f = [path \in D |-> f[path]]
    BY <1>8 DEF Defined
  <2>3. QED  BY <1>1, <2>1, <2>2 DEF IsAttach
<1>10. PICK g : IsAttach(g, parent, child, direct) /\ AttachContains(parent, child, direct) = g[<<>>]
  BY <1>9 DEF IsAttach, AttachContains
<1>11. \A path \in D : g[path] = Attached(QueryAt(parent, path),
          [i \in Children(QueryAt(parent, path)) |-> g[Append(path, i)]], child, direct)
  BY <1>1, <1>10 DEF IsAttach
<1>12. Inherits(D, rank, a, V, g)
  <2>1. ASSUME NEW path \in D, \A e \in Lower(D, rank, path) : g[e] \in V[e]
        PROVE  g[path] \in V[path]
    <3>1. PICK within : within = [i \in Children(QueryAt(parent, path)) |-> g[Append(path, i)]]
      OBVIOUS
    <3>2. \A i \in Children(QueryAt(parent, path)) : within[i] \in V[Append(path, i)]
      BY <1>5, <2>1, <3>1
    <3>3. Attached(QueryAt(parent, path), within, child, direct) \in V[path]
      BY <1>6, <3>2
    <3>4. QED  BY <1>11, <3>1, <3>3
  <2>2. a \in Nat
    OBVIOUS
  <2>3. \A path \in D : rank[path] \in 0 .. a - 1
    BY <1>5
  <2>4. QED  BY <2>1, <2>2, <2>3 DEF Inherits
<1>13. <<>> \in D /\ Len(<<>>) = 0
  BY <1>1, PathStart, EmptySeq
<1>14. rank[<<>>] = (a - 1) - 0
  BY <1>1, <1>2, <1>13 DEF PathRank
<1>15. (rank[<<>>] + 1) + b = a + b
  BY <1>14
<1>16. V[<<>>] = Q[a + b]
  BY <1>3, <1>13, <1>15
<1>17. g[<<>>] \in V[<<>>]
  BY <1>12, <1>13, RecursionTypes DEF Typed
<1>18. QED  BY <1>10, <1>16, <1>17

-----------------------------------------------------------------------------
(* What the parser returns: queries of one token, of operands *)

\* What a parser of ts returns that starts at i: the query is no higher than
\* the tokens it has taken.
ParseResults(ts, Q) == [ok: BOOLEAN, q: UNION {Q[h] : h \in 0 .. Len(ts) + 1}, at: 0 .. Len(ts) + 1]

\* The query a parser returns is no higher than the tokens it took.
Parses(ts, Q, i) ==
  {r \in ParseResults(ts, Q) :
     r.ok => r.at \in i + 1 .. Len(ts) + 1 /\ r.q \in Q[r.at - i]}

\* The queries of the heights there can be.
Grammar(ts, Q) == ts \in Seq(Tokens) /\ Heights(Q, Len(ts) + 1)

\* The facts about tokens and heights that every parser needs.
LEMMA ParsingFacts ==
  ASSUME NEW ts, NEW Q, Grammar(ts, Q)
  PROVE  /\ Len(ts) \in Nat /\ Len(ts) + 1 \in Nat
         /\ DOMAIN ts = 1 .. Len(ts)
         /\ Heights(Q, Len(ts) + 1)
         /\ \A i \in DOMAIN ts : ts[i] \in Tokens
<1>1. ts \in Seq(Tokens)
  BY DEF Grammar
<1>2. Len(ts) \in Nat /\ DOMAIN ts = 1 .. Len(ts)
  BY <1>1, LenProperties
<1>3. \A i \in 1 .. Len(ts) : ts[i] \in Tokens
  BY <1>1, ElementOfSeq
<1>4. QED  BY <1>2, <1>3 DEF Grammar

\* A query no higher than the tokens taken is a result.
LEMMA Accepts ==
  ASSUME NEW ts, NEW Q, Grammar(ts, Q), NEW i \in 1 .. Len(ts) + 1,
         NEW k \in i + 1 .. Len(ts) + 1, NEW q \in Q[k - i]
  PROVE  Accepted(q, k) \in Parses(ts, Q, i)
<1>1. Len(ts) \in Nat
  BY ParsingFacts
<1>2. PICK len \in Nat : len = Len(ts)
  BY <1>1
<1>3. PICK h \in 0 .. len + 1 : h = k - i
  BY <1>2
<1>4. q \in UNION {Q[g] : g \in 0 .. len + 1}
  BY <1>3
<1>5. k \in 0 .. len + 1
  BY <1>2
<1>6. Accepted(q, k) \in ParseResults(ts, Q)
  BY <1>2, <1>4, <1>5 DEF Accepted, ParseResults
<1>7. Accepted(q, k).at = k /\ Accepted(q, k).q = q
  BY DEF Accepted
<1>8. QED  BY <1>6, <1>7 DEF Parses

\* A query that contains nothing.
LEMMA ShapeOf ==
  ASSUME NEW X, NEW op \in QueryOps, NEW sel \in QuerySels, NEW args \in Seq(X),
         op \in {"AND", "NOT"} => args # <<>>
  PROVE  [op |-> op, sel |-> sel, sub |-> <<>>, direct |-> FALSE, args |-> args] \in Shapes(X)
BY DEF Shapes

\* The queries of one token.
LEMMA SimpleTyped ==
  ASSUME NEW B \in Nat, B # 0, NEW Q, Heights(Q, B)
  PROVE  /\ Compound("", <<>>) \in Q[1]
         /\ \A t \in DOMAIN Selector : Simple(t) \in Q[1]
<1>1. 1 \in 0 .. B /\ 1 # 0 /\ 1 - 1 = 0
  OBVIOUS
<1>2. Q[1] = Shapes(Q[0])
  BY <1>1 DEF Heights
<1>3. <<>> \in Seq(Q[0])
  BY EmptySeq
<1>4. Compound("", <<>>) \in Shapes(Q[0])
  <2>1. PICK sel : sel = [kind |-> "", name |-> ""]
    OBVIOUS
  <2>2. sel \in QuerySels
    BY <2>1 DEF QuerySels
  <2>3. "" \in QueryOps /\ "" \notin {"AND", "NOT"}
    BY DEF QueryOps
  <2>4. Compound("", <<>>) = [op |-> "", sel |-> sel, sub |-> <<>>, direct |-> FALSE, args |-> <<>>]
    BY <2>1 DEF Compound
  <2>5. QED  BY <1>3, <2>2, <2>3, <2>4, ShapeOf
<1>5. ASSUME NEW t \in DOMAIN Selector
      PROVE  Simple(t) \in Shapes(Q[0])
  <2>1. PICK sel : sel = Selector[t]
    OBVIOUS
  <2>2. sel \in QuerySels
    BY <2>1 DEF QuerySels
  <2>3. "" \in QueryOps /\ "" \notin {"AND", "NOT"}
    BY DEF QueryOps
  <2>4. Simple(t) = [op |-> "", sel |-> sel, sub |-> <<>>, direct |-> FALSE, args |-> <<>>]
    BY <2>1 DEF Simple
  <2>5. QED  BY <1>3, <2>2, <2>3, <2>4, ShapeOf
<1>6. QED  BY <1>2, <1>4, <1>5

\* A failure is a result.
LEMMA FailParses ==
  ASSUME NEW ts, NEW Q, Grammar(ts, Q), NEW i
  PROVE  Fail \in Parses(ts, Q, i)
<1>1. Len(ts) + 1 \in Nat /\ Len(ts) + 1 # 0 /\ 1 \in 0 .. Len(ts) + 1 /\ 0 \in 0 .. Len(ts) + 1
      /\ Heights(Q, Len(ts) + 1)
  BY ParsingFacts
<1>2. PICK q : q = Compound("", <<>>)
  OBVIOUS
<1>3. q \in Q[1]
  BY <1>1, <1>2, SimpleTyped
<1>4. q \in UNION {Q[h] : h \in 0 .. Len(ts) + 1}
  BY <1>1, <1>3
<1>5. Fail = [ok |-> FALSE, q |-> q, at |-> 0]
  BY <1>2 DEF Fail
<1>6. QED  BY <1>1, <1>4, <1>5 DEF Parses, ParseResults

\* A negation, and two operands of | or & together.
LEMMA CompoundTyped ==
  ASSUME NEW B \in Nat, NEW Q, Heights(Q, B), NEW top \in 0 .. B, top # 0,
         NEW op \in QueryOps, NEW args \in Seq(Q[top - 1]), args # <<>>
  PROVE  Compound(op, args) \in Q[top]
<1>1. Q[top] = Shapes(Q[top - 1])
  BY DEF Heights
<1>2. PICK sel : sel = [kind |-> "", name |-> ""]
  OBVIOUS
<1>3. sel \in QuerySels
  BY <1>2 DEF QuerySels
<1>4. Compound(op, args) = [op |-> op, sel |-> sel, sub |-> <<>>, direct |-> FALSE, args |-> args]
  BY <1>2 DEF Compound
<1>5. QED  BY <1>1, <1>3, <1>4 DEF Shapes

\* Operands of | or & make a query no higher than all of them.
LEMMA MergeTyped ==
  ASSUME NEW B \in Nat, NEW Q, Heights(Q, B), NEW a \in 0 .. B, NEW b \in 0 .. B, a + b <= B,
         NEW left \in Q[a], NEW right \in Q[b], NEW op \in QueryOps
  PROVE  MergeBinary(op, left, right) \in Q[a + b]
<1>1. a # 0 /\ left \in Shapes(Q[a - 1])
  BY ChildrenLower
<1>2. b # 0
  BY ChildrenLower
<1>3. PICK top \in 0 .. B : top = a + b
  OBVIOUS
<1>4. PICK m \in 0 .. B : m = top - 1 /\ top # 0 /\ m \in a .. B /\ m \in b .. B
  BY <1>1, <1>2, <1>3
<1>5. PICK low \in 0 .. B : low = a - 1 /\ m \in low .. B
  BY <1>1, <1>2, <1>3, <1>4
<1>6. left \in Q[m] /\ right \in Q[m]
  BY <1>4, HeightsGrow
<1>7. Q[low] \subseteq Q[m]
  BY <1>5, HeightsGrow
<1>8. PICK args : args = IF left.op = op THEN Append(left.args, right) ELSE <<left, right>>
  OBVIOUS
<1>9. args \in Seq(Q[m]) /\ args # <<>>
  <2>1. CASE left.op = op
    <3>1. left.args \in Seq(Q[low])
      BY <1>1, <1>5 DEF Shapes
    <3>2. left.args \in Seq(Q[m])
      BY <1>7, <3>1, SeqMonotonic
    <3>3. args = Append(left.args, right)
      BY <1>8, <2>1
    <3>4. args \in Seq(Q[m]) /\ Len(args) = Len(left.args) + 1
      <4>1. PICK X : X = Q[m]
        OBVIOUS
      <4>2. PICK s : s = left.args
        OBVIOUS
      <4>3. s \in Seq(X) /\ right \in X
        BY <1>6, <3>2, <4>1, <4>2
      <4>4. Append(s, right) \in Seq(X) /\ Len(Append(s, right)) = Len(s) + 1
        BY <4>3, AppendProperties
      <4>5. QED  BY <3>3, <4>1, <4>2, <4>4
    <3>5. Len(left.args) \in Nat /\ Len(<<>>) = 0
      BY <3>2, LenProperties, EmptySeq
    <3>6. QED  BY <3>4, <3>5
  <2>2. CASE left.op # op
    <3>1. args = <<left, right>>
      BY <1>8, <2>2
    <3>2. PICK X : X = Q[m]
      OBVIOUS
    <3>3. left \in X /\ right \in X
      BY <1>6, <3>2
    <3>4. <<left, right>> \in Seq(X)
      BY <3>3
    <3>5. <<left, right>> # <<>>
      OBVIOUS
    <3>6. QED  BY <3>1, <3>2, <3>4, <3>5
  <2>3. QED  BY <2>1, <2>2
<1>10. Compound(op, args) \in Q[top]
  BY <1>4, <1>9, CompoundTyped
<1>11. MergeBinary(op, left, right) = Compound(op, args)
  BY <1>8 DEF MergeBinary
<1>12. QED  BY <1>3, <1>10, <1>11

\* So do operands of any level.
LEMMA CombineTyped ==
  ASSUME NEW B \in Nat, NEW Q, Heights(Q, B), NEW a \in 0 .. B, NEW b \in 0 .. B, a + b <= B,
         NEW left \in Q[a], NEW right \in Q[b], NEW token, NEW level \in {"or", "and", "contains"}
  PROVE  Combine(level, left, token, right) \in Q[a + b]
<1>1. CASE level = "or"
  <2>1. "OR" \in QueryOps
    BY DEF QueryOps
  <2>2. MergeBinary("OR", left, right) \in Q[a + b]
    BY <2>1, MergeTyped
  <2>3. QED  BY <1>1, <2>2 DEF Combine
<1>2. CASE level = "and"
  <2>1. "AND" \in QueryOps
    BY DEF QueryOps
  <2>2. MergeBinary("AND", left, right) \in Q[a + b]
    BY <2>1, MergeTyped
  <2>3. QED  BY <1>2, <2>2 DEF Combine
<1>3. CASE level = "contains"
  <2>1. PICK direct \in BOOLEAN : direct = (token = ">>")
    <3>1. CASE token = ">>"
      BY <3>1
    <3>2. CASE token # ">>"
      BY <3>2
    <3>3. QED  BY <3>1, <3>2
  <2>2. AttachContains(left, right, direct) \in Q[a + b]
    BY AttachRun
  <2>3. QED  BY <1>3, <2>1, <2>2 DEF Combine
<1>4. QED  BY <1>1, <1>2, <1>3

-----------------------------------------------------------------------------
(* The parser: one step of each level *)

\* parseUnary, if the parsers it calls return results.
LEMMA UnaryTyped ==
  ASSUME NEW ts, NEW Q, Grammar(ts, Q), NEW i \in 1 .. Len(ts) + 1, NEW parse,
         i + 1 <= Len(ts) + 1 => /\ parse[<<"unary", i + 1>>] \in Parses(ts, Q, i + 1)
                                 /\ parse[<<"or", i + 1>>] \in Parses(ts, Q, i + 1)
  PROVE  ParseUnary(ts, i, parse) \in Parses(ts, Q, i)
<1>1. PICK len \in Nat : len = Len(ts)
  BY ParsingFacts
<1>2. Heights(Q, len + 1)
  BY <1>1, ParsingFacts
<1>3. Fail \in Parses(ts, Q, i)
  BY FailParses
<1>4. CASE TokenAt(ts, i, "!")
  <2>1. i \in 1 .. len
    BY <1>1, <1>4 DEF TokenAt
  <2>2. PICK r : r = parse[<<"unary", i + 1>>]
    OBVIOUS
  <2>3. r \in Parses(ts, Q, i + 1)
    BY <1>1, <2>1, <2>2
  <2>4. ParseUnary(ts, i, parse) = IF r.ok THEN Accepted(Compound("NOT", <<r.q>>), r.at) ELSE Fail
    BY <1>4, <2>2 DEF ParseUnary
  <2>5. CASE r.ok
    <3>1. r.at \in (i + 1) + 1 .. len + 1 /\ r.q \in Q[r.at - (i + 1)]
      BY <1>1, <2>3, <2>5 DEF Parses
    <3>2. PICK k \in i + 1 .. len + 1 : k = r.at
      BY <2>1, <3>1
    <3>3. PICK top \in 0 .. len + 1 : top = k - i /\ top # 0 /\ top - 1 = k - (i + 1)
      BY <2>1, <3>2
    <3>4. PICK X : X = Q[top - 1]
      OBVIOUS
    <3>5. PICK q : q = r.q
      OBVIOUS
    <3>6. q \in X
      BY <3>1, <3>2, <3>3, <3>4, <3>5
    <3>7. PICK args : args = <<q>>
      OBVIOUS
    <3>8. args \in Seq(X) /\ args # <<>>
      <4>1. <<q>> \in Seq(X)
        BY <3>6
      <4>2. <<q>> # <<>>
        OBVIOUS
      <4>3. QED  BY <3>7, <4>1, <4>2
    <3>9. "NOT" \in QueryOps
      BY DEF QueryOps
    <3>10. args \in Seq(Q[top - 1])
      BY <3>4, <3>8
    <3>11. Compound("NOT", args) \in Q[top]
      BY <1>2, <3>3, <3>8, <3>9, <3>10, CompoundTyped
    <3>12. Accepted(Compound("NOT", args), k) \in Parses(ts, Q, i)
      BY <1>1, <3>3, <3>11, Accepts
    <3>13. QED  BY <2>4, <2>5, <3>2, <3>5, <3>7, <3>12
  <2>6. CASE ~r.ok
    BY <1>3, <2>4, <2>6
  <2>7. QED  BY <2>5, <2>6
<1>5. CASE ~TokenAt(ts, i, "!") /\ TokenAt(ts, i, "(")
  <2>1. i \in 1 .. len
    BY <1>1, <1>5 DEF TokenAt
  <2>2. PICK r : r = parse[<<"or", i + 1>>]
    OBVIOUS
  <2>3. r \in Parses(ts, Q, i + 1)
    BY <1>1, <2>1, <2>2
  <2>4. ParseUnary(ts, i, parse) = IF r.ok /\ TokenAt(ts, r.at, ")") THEN Accepted(r.q, r.at + 1) ELSE Fail
    BY <1>5, <2>2 DEF ParseUnary
  <2>5. CASE r.ok /\ TokenAt(ts, r.at, ")")
    <3>1. r.at \in (i + 1) + 1 .. len + 1 /\ r.q \in Q[r.at - (i + 1)]
      BY <1>1, <2>3, <2>5 DEF Parses
    <3>2. r.at <= len
      BY <1>1, <2>5 DEF TokenAt
    <3>3. PICK k \in i + 1 .. len + 1 : k = r.at + 1
      BY <2>1, <3>1, <3>2
    <3>4. PICK top \in 0 .. len + 1 : top = k - i
      BY <2>1, <3>3
    <3>5. PICK low \in 0 .. len + 1 : low = r.at - (i + 1) /\ top \in low .. len + 1
      BY <2>1, <3>1, <3>3, <3>4
    <3>6. Q[low] \subseteq Q[top]
      BY <1>2, <3>5, HeightsGrow
    <3>7. r.q \in Q[k - i]
      BY <3>1, <3>4, <3>5, <3>6
    <3>8. Accepted(r.q, k) \in Parses(ts, Q, i)
      BY <1>1, <3>7, Accepts
    <3>9. QED  BY <2>4, <2>5, <3>3, <3>8
  <2>6. CASE ~(r.ok /\ TokenAt(ts, r.at, ")"))
    BY <1>3, <2>4, <2>6
  <2>7. QED  BY <2>5, <2>6
<1>6. CASE ~TokenAt(ts, i, "!") /\ ~TokenAt(ts, i, "(")
  <2>1. ParseUnary(ts, i, parse)
        = IF i <= Len(ts) /\ ts[i] \in DOMAIN Selector THEN Accepted(Simple(ts[i]), i + 1) ELSE Fail
    BY <1>6 DEF ParseUnary
  <2>2. CASE i <= Len(ts) /\ ts[i] \in DOMAIN Selector
    <3>1. Simple(ts[i]) \in Q[1]
      <4>1. len + 1 \in Nat /\ len + 1 # 0
        OBVIOUS
      <4>2. QED  BY <1>2, <2>2, <4>1, SimpleTyped
    <3>2. PICK k \in i + 1 .. len + 1 : k = i + 1 /\ k - i = 1
      BY <1>1, <2>2
    <3>3. Simple(ts[i]) \in Q[k - i]
      BY <3>1, <3>2
    <3>4. Accepted(Simple(ts[i]), k) \in Parses(ts, Q, i)
      BY <1>1, <3>3, Accepts
    <3>5. QED  BY <2>1, <2>2, <3>2, <3>4
  <2>3. CASE ~(i <= Len(ts) /\ ts[i] \in DOMAIN Selector)
    BY <1>3, <2>1, <2>3
  <2>4. QED  BY <2>2, <2>3
<1>7. QED  BY <1>4, <1>5, <1>6

\* One operator and operand more, if the operands are results.
LEMMA ExtendTyped ==
  ASSUME NEW ts, NEW Q, Grammar(ts, Q), NEW i \in 1 .. Len(ts) + 1,
         NEW level \in {"or", "and", "contains"}, NEW operand,
         \A j \in i .. Len(ts) + 1 : operand[j] \in Parses(ts, Q, j),
         NEW l \in Parses(ts, Q, i)
  PROVE  Extend(ts, level, l, operand) \in Parses(ts, Q, i)
<1>1. PICK len \in Nat : len = Len(ts)
  BY ParsingFacts
<1>2. Heights(Q, len + 1)
  BY <1>1, ParsingFacts
<1>3. CASE l.ok /\ l.at <= Len(ts) /\ ts[l.at] \in Operators[level]
  <2>1. l.at \in i + 1 .. len /\ l.q \in Q[l.at - i]
    BY <1>1, <1>3 DEF Parses
  <2>2. PICK m \in i + 1 .. len : m = l.at
    BY <2>1
  <2>3. PICK n \in 1 .. len + 1 : n = m + 1 /\ n \in i .. len + 1
    BY <1>1, <2>2
  <2>4. PICK r : r = operand[n]
    OBVIOUS
  <2>5. r \in Parses(ts, Q, n)
    BY <1>1, <2>3, <2>4
  <2>6. Extend(ts, level, l, operand)
        = IF r.ok THEN Accepted(Combine(level, l.q, ts[l.at], r.q), r.at) ELSE Fail
    BY <1>3, <2>2, <2>3, <2>4 DEF Extend
  <2>7. CASE r.ok
    <3>1. r.at \in n + 1 .. len + 1 /\ r.q \in Q[r.at - n]
      BY <1>1, <2>5, <2>7 DEF Parses
    <3>2. PICK k \in i + 1 .. len + 1 : k = r.at
      BY <1>1, <2>2, <2>3, <3>1
    <3>3. PICK a \in 0 .. len + 1 : a = m - i
      BY <1>1, <2>2
    <3>4. PICK b \in 0 .. len + 1 : b = k - n
      BY <1>1, <2>3, <3>1, <3>2
    <3>5. a + b <= len + 1 /\ a + b \in 0 .. len + 1 /\ k - i = (a + b) + 1
      <4>1. i \in Int /\ 1 <= i /\ i + 1 <= m /\ m \in Int
        BY <1>1, <2>2
      <4>2. k \in Int /\ k <= len + 1 /\ n + 1 <= k
        BY <1>1, <3>1, <3>2
      <4>3. a = m - i /\ b = k - (m + 1)
        BY <2>3, <3>3, <3>4
      <4>4. a + b = k - (i + 1) /\ 0 <= a + b
        BY <4>1, <4>2, <4>3
      <4>5. k - i = (k - (i + 1)) + 1 /\ k - (i + 1) <= len + 1
        BY <4>1, <4>2
      <4>6. QED  BY <4>4, <4>5
    <3>6. l.q \in Q[a] /\ r.q \in Q[b]
      BY <2>1, <2>2, <3>1, <3>2, <3>3, <3>4
    <3>7. PICK q : q = Combine(level, l.q, ts[l.at], r.q)
      OBVIOUS
    <3>8. q \in Q[a + b]
      <4>1. len + 1 \in Nat
        OBVIOUS
      <4>2. QED  BY <1>2, <3>5, <3>6, <3>7, <4>1, CombineTyped
    <3>9. PICK s \in 0 .. len + 1 : s = a + b
      BY <3>5
    <3>10. PICK top \in s .. len + 1 : top = k - i
      <4>1. k - i <= len + 1
        BY <1>1
      <4>2. QED  BY <3>5, <3>9, <4>1
    <3>11. Q[s] \subseteq Q[top]
      <4>1. len + 1 \in Nat
        OBVIOUS
      <4>2. QED  BY <1>2, <4>1, HeightsGrow
    <3>12. q \in Q[k - i]
      BY <3>8, <3>9, <3>10, <3>11
    <3>13. Accepted(q, k) \in Parses(ts, Q, i)
      BY <1>1, <3>12, Accepts
    <3>14. QED  BY <2>6, <2>7, <3>2, <3>7, <3>13
  <2>8. CASE ~r.ok
    BY <2>6, <2>8, FailParses
  <2>9. QED  BY <2>7, <2>8
<1>4. CASE ~(l.ok /\ l.at <= Len(ts) /\ ts[l.at] \in Operators[level])
  BY <1>4 DEF Extend
<1>5. QED  BY <1>3, <1>4

-----------------------------------------------------------------------------
(* The parser: operands, and what calls what *)

\* The recursion of ParseOperands.
IsLeft(f, ts, level, i, operand) ==
  f = [n \in 0 .. Len(ts) |-> IF n = 0 THEN operand[i] ELSE Extend(ts, level, f[n - 1], operand)]

\* The recursion is well defined.
LEMMA LeftRun ==
  ASSUME NEW ts \in Seq(Tokens), NEW level, NEW i, NEW operand
  PROVE  \E g : IsLeft(g, ts, level, i, operand) /\ ParseOperands(ts, level, i, operand) = g[Len(ts)]
<1>1. PICK len \in Nat : len = Len(ts)
  BY LenProperties
<1> DEFINE Upon(f, k) == f = [n \in 0 .. k |-> IF n = 0 THEN operand[i]
                                               ELSE Extend(ts, level, f[n - 1], operand)]
           S == {k \in Nat : \E f : Upon(f, k)}
<1>2. 0 \in S
  <2>1. PICK f : f = [n \in 0 .. 0 |-> operand[i]]
    OBVIOUS
  <2>2. Upon(f, 0)
    BY <2>1
  <2>3. QED  BY <2>2
<1>3. ASSUME NEW k \in Nat, k \in S
      PROVE  k + 1 \in S
  <2>1. PICK f : Upon(f, k)
    BY <1>3
  <2>2. PICK g : g = [n \in 0 .. k + 1 |-> IF n = k + 1 THEN Extend(ts, level, f[k], operand) ELSE f[n]]
    OBVIOUS
  <2>3. ASSUME NEW n \in 0 .. k + 1
        PROVE  g[n] = IF n = 0 THEN operand[i] ELSE Extend(ts, level, g[n - 1], operand)
    <3>1. CASE n = k + 1
      <4>1. n - 1 = k /\ k \in 0 .. k + 1 /\ k # k + 1 /\ n # 0
        BY <3>1
      <4>2. g[k] = f[k] /\ g[n] = Extend(ts, level, f[k], operand)
        BY <2>2, <3>1, <4>1
      <4>3. QED  BY <4>1, <4>2
    <3>2. CASE n # k + 1
      <4>1. n \in 0 .. k
        BY <3>2
      <4>2. g[n] = f[n] /\ (n # 0 => g[n - 1] = f[n - 1])
        BY <2>2, <4>1
      <4>3. f[n] = IF n = 0 THEN operand[i] ELSE Extend(ts, level, f[n - 1], operand)
        BY <2>1, <4>1
      <4>4. QED  BY <4>2, <4>3
    <3>3. QED  BY <3>1, <3>2
  <2>4. g = [n \in 0 .. k + 1 |-> g[n]]
    BY <2>2
  <2>5. Upon(g, k + 1)
    BY <2>3, <2>4
  <2>6. k + 1 \in Nat
    OBVIOUS
  <2> HIDE DEF Upon
  <2>7. QED  BY <2>5, <2>6
<1>4. Nat \subseteq S
  <2> HIDE DEF S
  <2>1. QED  BY <1>2, <1>3, Induct
<1>5. \E f : IsLeft(f, ts, level, i, operand)
  <2>1. len \in S
    BY <1>4
  <2>2. QED  BY <1>1, <2>1 DEF IsLeft
<1>6. QED  BY <1>5 DEF IsLeft, ParseOperands

\* parseOr, parseAnd and parseContains, if the level below returns results.
LEMMA OperandsTyped ==
  ASSUME NEW ts, NEW Q, Grammar(ts, Q), NEW i \in 1 .. Len(ts) + 1,
         NEW level \in {"or", "and", "contains"}, NEW operand,
         \A j \in i .. Len(ts) + 1 : operand[j] \in Parses(ts, Q, j)
  PROVE  ParseOperands(ts, level, i, operand) \in Parses(ts, Q, i)
<1>1. PICK len \in Nat : len = Len(ts)
  BY ParsingFacts
<1>2. PICK g : /\ IsLeft(g, ts, level, i, operand)
               /\ ParseOperands(ts, level, i, operand) = g[Len(ts)]
  BY LeftRun DEF Grammar
<1>3. \A n \in 0 .. len : g[n] = IF n = 0 THEN operand[i] ELSE Extend(ts, level, g[n - 1], operand)
  BY <1>1, <1>2 DEF IsLeft
<1> DEFINE T == {n \in Nat : n <= len => g[n] \in Parses(ts, Q, i)}
<1>4. 0 \in T
  <2>1. 0 \in 0 .. len
    OBVIOUS
  <2>2. g[0] = operand[i]
    BY <1>3, <2>1
  <2>3. i \in i .. Len(ts) + 1
    BY <1>1
  <2>4. QED  BY <2>2, <2>3
<1>5. ASSUME NEW n \in Nat, n \in T
      PROVE  n + 1 \in T
  <2>1. SUFFICES ASSUME n + 1 <= len
                 PROVE  g[n + 1] \in Parses(ts, Q, i)
    OBVIOUS
  <2>2. PICK l : l = g[n]
    OBVIOUS
  <2>3. l \in Parses(ts, Q, i)
    BY <1>5, <2>1, <2>2
  <2>4. n + 1 \in 0 .. len /\ n + 1 # 0 /\ (n + 1) - 1 = n
    BY <2>1
  <2>5. g[n + 1] = Extend(ts, level, l, operand)
    BY <1>3, <2>2, <2>4
  <2>6. QED  BY <2>3, <2>5, ExtendTyped
<1>6. Nat \subseteq T
  <2> HIDE DEF T
  <2>1. QED  BY <1>4, <1>5, Induct
<1>7. len \in T
  BY <1>6
<1>8. g[len] \in Parses(ts, Q, i)
  BY <1>7
<1>9. QED  BY <1>1, <1>2, <1>8

\* The parsers, by what is left to parse and by level.
Starts(ts)     == {"or", "and", "contains", "unary"} \X (1 .. Len(ts) + 1)
LevelRank(level) == IF level = "or" THEN 3 ELSE IF level = "and" THEN 2
                    ELSE IF level = "contains" THEN 1 ELSE 0
ParseRank(ts)   == [c \in Starts(ts) |-> 4 * ((Len(ts) + 1) - c[2]) + LevelRank(c[1])]
ParseAt(ts, c, parse) ==
  IF c[1] = "unary" THEN ParseUnary(ts, c[2], parse)
  ELSE ParseOperands(ts, c[1], c[2], [j \in c[2] .. Len(ts) + 1 |-> parse[<<Below[c[1]], j>>]])
IsParse(f, ts) == f = [c \in {"or", "and", "contains", "unary"} \X (1 .. Len(ts) + 1) |->
        IF c[1] = "unary" THEN ParseUnary(ts, c[2], f)
        ELSE ParseOperands(ts, c[1], c[2],
                           [j \in c[2] .. Len(ts) + 1 |-> f[<<Below[c[1]], j>>]])]

\* A parser calls lower ones only.
LEMMA CallsLower ==
  ASSUME NEW ts, NEW Q, Grammar(ts, Q), NEW i \in 1 .. Len(ts) + 1
  PROVE  /\ \A level \in {"or", "and", "contains", "unary"} :
              /\ <<level, i>> \in Starts(ts)
              /\ ParseRank(ts)[<<level, i>>] \in 0 .. 4 * (Len(ts) + 1) - 1
         /\ i + 1 <= Len(ts) + 1 =>
              /\ <<"unary", i + 1>> \in Lower(Starts(ts), ParseRank(ts), <<"unary", i>>)
              /\ <<"or", i + 1>> \in Lower(Starts(ts), ParseRank(ts), <<"unary", i>>)
         /\ \A level \in {"or", "and", "contains"} : \A j \in i .. Len(ts) + 1 :
              <<Below[level], j>> \in Lower(Starts(ts), ParseRank(ts), <<level, i>>)
<1>1. PICK len \in Nat : len = Len(ts)
  BY ParsingFacts
<1>2. \A level \in {"or", "and", "contains", "unary"} : \A j \in 1 .. len + 1 :
        /\ <<level, j>> \in Starts(ts)
        /\ ParseRank(ts)[<<level, j>>] = 4 * ((len + 1) - j) + LevelRank(level)
  <2>1. ASSUME NEW level \in {"or", "and", "contains", "unary"}, NEW j \in 1 .. len + 1
        PROVE  /\ <<level, j>> \in Starts(ts)
               /\ ParseRank(ts)[<<level, j>>] = 4 * ((len + 1) - j) + LevelRank(level)
    <3>0. PICK c : c = <<level, j>>
      OBVIOUS
    <3>1. c = <<level, j>> /\ c[1] = level /\ c[2] = j
      BY <3>0
    <3>2. c \in Starts(ts)
      BY <1>1, <3>1 DEF Starts
    <3>3. ParseRank(ts)[c] = 4 * ((len + 1) - j) + LevelRank(level)
      BY <1>1, <3>1, <3>2 DEF ParseRank
    <3>4. QED  BY <3>1, <3>2, <3>3
  <2>2. QED  BY <2>1
<1>3. LevelRank("or") = 3 /\ LevelRank("and") = 2 /\ LevelRank("contains") = 1 /\ LevelRank("unary") = 0
  BY DEF LevelRank
<1>4. \A level \in {"or", "and", "contains", "unary"} : LevelRank(level) \in 0 .. 3
  BY DEF LevelRank
<1>5. ASSUME NEW level \in {"or", "and", "contains", "unary"}
      PROVE  ParseRank(ts)[<<level, i>>] \in 0 .. 4 * (len + 1) - 1
  <2>1. PICK v \in 0 .. 3 : v = LevelRank(level)
    BY <1>4
  <2>2. ParseRank(ts)[<<level, i>>] = 4 * ((len + 1) - i) + v
    BY <1>1, <1>2, <2>1
  <2>3. i \in 1 .. len + 1
    BY <1>1
  <2>4. 4 * ((len + 1) - i) + v \in 0 .. 4 * (len + 1) - 1
    BY <2>3
  <2>5. QED  BY <2>2, <2>4
<1>6. ASSUME i + 1 <= Len(ts) + 1
      PROVE  /\ <<"unary", i + 1>> \in Lower(Starts(ts), ParseRank(ts), <<"unary", i>>)
             /\ <<"or", i + 1>> \in Lower(Starts(ts), ParseRank(ts), <<"unary", i>>)
  <2>1. i \in 1 .. len + 1 /\ i + 1 \in 1 .. len + 1
    BY <1>1, <1>6
  <2>2. /\ ParseRank(ts)[<<"unary", i>>] = 4 * ((len + 1) - i)
        /\ ParseRank(ts)[<<"unary", i + 1>>] = 4 * ((len + 1) - (i + 1))
        /\ ParseRank(ts)[<<"or", i + 1>>] = 4 * ((len + 1) - (i + 1)) + 3
    BY <1>2, <1>3, <2>1
  <2>3. /\ ParseRank(ts)[<<"unary", i + 1>>] < ParseRank(ts)[<<"unary", i>>]
        /\ ParseRank(ts)[<<"or", i + 1>>] < ParseRank(ts)[<<"unary", i>>]
    BY <2>1, <2>2
  <2>4. <<"unary", i + 1>> \in Starts(ts) /\ <<"or", i + 1>> \in Starts(ts)
    BY <1>2, <2>1
  <2>5. QED  BY <2>3, <2>4 DEF Lower
<1>7. ASSUME NEW level \in {"or", "and", "contains"}, NEW j \in i .. Len(ts) + 1
      PROVE  <<Below[level], j>> \in Lower(Starts(ts), ParseRank(ts), <<level, i>>)
  <2>1. PICK low : low = Below[level]
    OBVIOUS
  <2>2. /\ low \in {"or", "and", "contains", "unary"}
        /\ LevelRank(low) + 1 = LevelRank(level)
    BY <1>3, <2>1 DEF Below
  <2>3. i \in 1 .. len + 1 /\ j \in 1 .. len + 1 /\ i <= j
    BY <1>1
  <2>4. PICK v \in 0 .. 3 : v = LevelRank(low) /\ LevelRank(level) = v + 1
    BY <1>4, <2>2
  <2>5. ParseRank(ts)[<<low, j>>] = 4 * ((len + 1) - j) + v
    BY <1>2, <2>2, <2>3, <2>4
  <2>6. ParseRank(ts)[<<level, i>>] = 4 * ((len + 1) - i) + (v + 1)
    BY <1>2, <2>3, <2>4
  <2>7. 4 * ((len + 1) - j) + v < 4 * ((len + 1) - i) + (v + 1)
    BY <2>3
  <2>8. <<low, j>> \in Starts(ts)
    BY <1>2, <2>2, <2>3
  <2>9. QED  BY <2>1, <2>5, <2>6, <2>7, <2>8 DEF Lower
<1>8. i \in 1 .. len + 1
  BY <1>1
<1>9. QED  BY <1>1, <1>2, <1>5, <1>6, <1>7, <1>8

-----------------------------------------------------------------------------
(* The parser as a whole *)

\* One parser, given what the lower ones return.
LEMMA ParseAtTyped ==
  ASSUME NEW ts, NEW Q, Grammar(ts, Q), NEW c \in Starts(ts), NEW w,
         \A e \in Lower(Starts(ts), ParseRank(ts), c) : w[e] \in Parses(ts, Q, e[2])
  PROVE  ParseAt(ts, c, w) \in Parses(ts, Q, c[2])
<1>1. PICK level \in {"or", "and", "contains", "unary"}, i \in 1 .. Len(ts) + 1 : c = <<level, i>>
  BY DEF Starts
<1>2. c[1] = level /\ c[2] = i
  BY <1>1
<1>3. Len(ts) \in Nat
  BY ParsingFacts
<1>4. CASE level = "unary"
  <2>1. ASSUME i + 1 <= Len(ts) + 1
        PROVE  /\ w[<<"unary", i + 1>>] \in Parses(ts, Q, i + 1)
               /\ w[<<"or", i + 1>>] \in Parses(ts, Q, i + 1)
    <3>1. PICK d, e : d = <<"unary", i + 1>> /\ e = <<"or", i + 1>>
      OBVIOUS
    <3>2. d \in Lower(Starts(ts), ParseRank(ts), c) /\ e \in Lower(Starts(ts), ParseRank(ts), c)
      BY <1>1, <1>4, <2>1, <3>1, CallsLower
    <3>3. d[2] = i + 1 /\ e[2] = i + 1
      BY <3>1
    <3>4. w[d] \in Parses(ts, Q, d[2]) /\ w[e] \in Parses(ts, Q, e[2])
      BY <3>2
    <3>5. QED  BY <3>1, <3>3, <3>4
  <2>2. ParseUnary(ts, i, w) \in Parses(ts, Q, i)
    BY <2>1, UnaryTyped
  <2>3. QED  BY <1>2, <1>4, <2>2 DEF ParseAt
<1>5. CASE level # "unary"
  <2>1. level \in {"or", "and", "contains"}
    BY <1>5
  <2>2. PICK operand : operand = [j \in i .. Len(ts) + 1 |-> w[<<Below[level], j>>]]
    OBVIOUS
  <2>3. ASSUME NEW j \in i .. Len(ts) + 1
        PROVE  operand[j] \in Parses(ts, Q, j)
    <3>1. PICK e : e = <<Below[level], j>>
      OBVIOUS
    <3>2. e[2] = j
      BY <3>1
    <3>3. e \in Lower(Starts(ts), ParseRank(ts), c)
      BY <1>1, <2>1, <3>1, CallsLower
    <3>4. w[e] \in Parses(ts, Q, j)
      BY <3>2, <3>3
    <3>5. QED  BY <2>2, <3>1, <3>4
  <2>4. ParseOperands(ts, level, i, operand) \in Parses(ts, Q, i)
    BY <2>1, <2>3, OperandsTyped
  <2>5. QED  BY <1>2, <1>5, <2>2, <2>4 DEF ParseAt
<1>6. QED  BY <1>4, <1>5

\* A parser depends on what it calls, and on nothing else.
LEMMA ParseAtSame ==
  ASSUME NEW ts, NEW Q, Grammar(ts, Q), NEW c \in Starts(ts), NEW w, NEW f,
         \A e \in Lower(Starts(ts), ParseRank(ts), c) : w[e] = f[e]
  PROVE  ParseAt(ts, c, w) = ParseAt(ts, c, f)
<1>1. PICK level \in {"or", "and", "contains", "unary"}, i \in 1 .. Len(ts) + 1 : c = <<level, i>>
  BY DEF Starts
<1>2. c[1] = level /\ c[2] = i
  BY <1>1
<1>3. PICK len \in Nat : len = Len(ts)
  BY ParsingFacts
<1>4. CASE level = "unary"
  <2>1. CASE i + 1 <= Len(ts) + 1
    <3>1. /\ w[<<"unary", i + 1>>] = f[<<"unary", i + 1>>]
          /\ w[<<"or", i + 1>>] = f[<<"or", i + 1>>]
      BY <1>1, <1>4, <2>1, CallsLower
    <3>2. ParseUnary(ts, i, w) = ParseUnary(ts, i, f)
      BY <3>1 DEF ParseUnary
    <3>3. QED  BY <1>2, <1>4, <3>2 DEF ParseAt
  <2>2. CASE ~(i + 1 <= Len(ts) + 1)
    <3>1. ~(i <= Len(ts))
      BY <1>3, <2>2
    <3>2. ~TokenAt(ts, i, "!") /\ ~TokenAt(ts, i, "(")
      BY <3>1 DEF TokenAt
    <3>3. ParseUnary(ts, i, w) = Fail /\ ParseUnary(ts, i, f) = Fail
      BY <3>1, <3>2 DEF ParseUnary
    <3>4. QED  BY <1>2, <1>4, <3>3 DEF ParseAt
  <2>3. QED  BY <2>1, <2>2
<1>5. CASE level # "unary"
  <2>1. level \in {"or", "and", "contains"}
    BY <1>5
  <2>2. \A j \in i .. Len(ts) + 1 : w[<<Below[level], j>>] = f[<<Below[level], j>>]
    BY <1>1, <2>1, CallsLower
  <2>3. [j \in i .. Len(ts) + 1 |-> w[<<Below[level], j>>]]
        = [j \in i .. Len(ts) + 1 |-> f[<<Below[level], j>>]]
    BY <2>2
  <2>4. QED  BY <1>2, <1>5, <2>3 DEF ParseAt
<1>6. QED  BY <1>4, <1>5

\* The parsers call each other with less to parse or at a lower level, so
\* that ParseDSL is defined.
LEMMA ParseRun ==
  ASSUME NEW ts, NEW Q, Grammar(ts, Q)
  PROVE  \E g : /\ ParseFrom(ts) = g[<<"or", 1>>]
               /\ \A c \in Starts(ts) : g[c] = ParseAt(ts, c, g) /\ g[c] \in Parses(ts, Q, c[2])
<1>1. PICK len \in Nat : len = Len(ts)
  BY ParsingFacts
<1>2. PICK D : D = Starts(ts)
  OBVIOUS
<1>3. PICK rank : rank = ParseRank(ts)
  OBVIOUS
<1>4. PICK h \in Nat : h = 4 * (len + 1)
  OBVIOUS
<1>5. PICK V : V = [c \in D |-> Parses(ts, Q, c[2])]
  OBVIOUS
<1>6. PICK F : F = [c \in D |-> [w \in Givens(D, rank, V, c) |-> ParseAt(ts, c, w)]]
  OBVIOUS
<1>7. \A c \in D : rank[c] \in 0 .. h - 1
  <2>1. ASSUME NEW c \in D
        PROVE  rank[c] \in 0 .. h - 1
    <3>1. PICK level \in {"or", "and", "contains", "unary"}, i \in 1 .. Len(ts) + 1 : c = <<level, i>>
      BY <1>2 DEF Starts
    <3>2. rank[c] \in 0 .. 4 * (Len(ts) + 1) - 1
      BY <1>3, <3>1, CallsLower
    <3>3. QED  BY <1>1, <1>4, <3>2
  <2>2. QED  BY <2>1
<1>8. ASSUME NEW c \in D, NEW w, \A e \in Lower(D, rank, c) : w[e] \in V[e]
      PROVE  ParseAt(ts, c, w) \in V[c]
  <2>1. \A e \in Lower(D, rank, c) : w[e] \in Parses(ts, Q, e[2])
    BY <1>5, <1>8 DEF Lower
  <2>2. ParseAt(ts, c, w) \in Parses(ts, Q, c[2])
    BY <1>2, <1>3, <2>1, ParseAtTyped
  <2>3. QED  BY <1>5, <2>2
<1>9. Recursion(D, rank, h, V, F)
  <2>1. ASSUME NEW c \in D, NEW w \in Givens(D, rank, V, c)
        PROVE  F[c][w] \in V[c]
    <3>1. \A e \in Lower(D, rank, c) : w[e] \in V[e]
      BY DEF Givens
    <3>2. F[c][w] = ParseAt(ts, c, w)
      BY <1>6
    <3>3. QED  BY <1>8, <3>1, <3>2
  <2>2. QED  BY <1>7, <2>1 DEF Recursion
<1>10. PICK f : Defined(f, D, rank, F) /\ Typed(f, D, V)
  BY <1>9, RecursionDefines
<1>11. IsParse(f, ts)
  <2>1. ASSUME NEW c \in D
        PROVE  f[c] = ParseAt(ts, c, f)
    <3>1. PICK w : w = [e \in Lower(D, rank, c) |-> f[e]]
      OBVIOUS
    <3>2. w \in Givens(D, rank, V, c)
      <4>1. \A e \in Lower(D, rank, c) : w[e] \in V[e] /\ w[e] \in UNION {V[d] : d \in D}
        BY <1>10, <3>1 DEF Lower, Typed
      <4>2. w \in [Lower(D, rank, c) -> UNION {V[e] : e \in D}]
        BY <3>1, <4>1
      <4>3. QED  BY <4>1, <4>2 DEF Givens
    <3>3. f[c] = ParseAt(ts, c, w)
      <4>1. f[c] = F[c][w]
        BY <1>10, <3>1 DEF Defined
      <4>2. QED  BY <1>6, <3>2, <4>1
    <3>4. \A e \in Lower(D, rank, c) : w[e] = f[e]
      BY <3>1
    <3>5. QED  BY <1>2, <1>3, <3>3, <3>4, ParseAtSame
  <2>2. f = [c \in D |-> f[c]]
    BY <1>10 DEF Defined
  <2>3. f = [c \in D |-> ParseAt(ts, c, f)]
    BY <2>1, <2>2
  <2>4. QED  BY <1>2, <2>3 DEF IsParse, ParseAt, Starts
<1>12. PICK g : IsParse(g, ts) /\ ParseFrom(ts) = g[<<"or", 1>>]
  BY <1>11 DEF IsParse, ParseFrom
<1>13. \A c \in D : g[c] = ParseAt(ts, c, g)
  BY <1>2, <1>12 DEF IsParse, ParseAt, Starts
<1>14. Inherits(D, rank, h, V, g)
  BY <1>7, <1>8, <1>13 DEF Inherits
<1>15. \A c \in D : g[c] \in Parses(ts, Q, c[2])
  BY <1>5, <1>14, RecursionTypes DEF Typed
<1>16. QED  BY <1>2, <1>12, <1>13, <1>15

\* It returns a result.
LEMMA ParseTyped ==
  ASSUME NEW ts, NEW Q, Grammar(ts, Q)
  PROVE  ParseDSL(ts) \in Parses(ts, Q, 1)
<1>1. PICK g : /\ ParseFrom(ts) = g[<<"or", 1>>]
               /\ \A c \in Starts(ts) : g[c] \in Parses(ts, Q, c[2])
  BY ParseRun
<1>2. PICK c : c = <<"or", 1>>
  OBVIOUS
<1>3. c \in Starts(ts) /\ c[2] = 1
  <2>1. 1 \in 1 .. Len(ts) + 1
    BY ParsingFacts
  <2>2. QED  BY <1>2, <2>1 DEF Starts
<1>4. ParseFrom(ts) \in Parses(ts, Q, 1)
  BY <1>1, <1>2, <1>3
<1>5. QED  BY <1>4, FailParses DEF ParseDSL

\* Whatever the selector, what is parsed is a query.
LEMMA QueryParsed ==
  ASSUME NEW ts \in Seq(Tokens)
  PROVE  \E B \in Nat : \E Q : Heights(Q, B) /\ \E h \in 0 .. B : ParseDSL(ts).q \in Q[h]
<1>1. PICK B \in Nat : B = Len(ts) + 1
  BY LenProperties
<1>2. PICK Q : Heights(Q, B)
  BY HeightsExist
<1>3. Grammar(ts, Q)
  BY <1>1, <1>2 DEF Grammar
<1>4. ParseDSL(ts) \in ParseResults(ts, Q)
  BY <1>3, ParseTyped DEF Parses
<1>5. ParseDSL(ts).q \in UNION {Q[h] : h \in 0 .. B}
  BY <1>1, <1>4 DEF ParseResults
<1>6. QED  BY <1>2, <1>5

\* Whatever the selector and the text, what is found are nodes, none twice.
LEMMA TargetsTyped ==
  ASSUME NEW ts \in Seq(Tokens), NEW text \in Seq(Symbols)
  PROVE  FindTargets(text, Nodes(text), ParseDSL(ts).q) \in TargetLists(text)
<1>1. PICK B \in Nat : \E Q : Heights(Q, B) /\ \E h \in 0 .. B : ParseDSL(ts).q \in Q[h]
  BY QueryParsed
<1>2. PICK Q : Heights(Q, B) /\ \E h \in 0 .. B : ParseDSL(ts).q \in Q[h]
  BY <1>1
<1>3. PICK h \in 0 .. B : ParseDSL(ts).q \in Q[h]
  BY <1>2
<1>4. QED  BY <1>2, <1>3, FindTyped

-----------------------------------------------------------------------------
(* The search, by the parts of a query *)

\* A sequence of one element.
LEMMA OneElement ==
  ASSUME NEW S, NEW e \in S
  PROVE  /\ <<e>> \in Seq(S) /\ <<e>> = Append(<<>>, e)
         /\ Len(<<e>>) = 1 /\ <<e>>[1] = e
<1>1. <<>> \in Seq(S) /\ Len(<<>>) = 0
  BY EmptySeq
<1>2. PICK one : one = <<e>>
  OBVIOUS
<1>3. one = Append(<<>>, e)
  BY <1>1, <1>2
<1>4. one \in Seq(S) /\ Len(one) = 1 /\ one[1] = e
  BY <1>1, <1>3, AppendProperties
<1>5. QED  BY <1>2, <1>3, <1>4

\* Paths through the i-th part of a query are the paths of that part.
LEMMA PathShift ==
  ASSUME NEW q, NEW i \in Children(q), i \in Nat
  PROVE  \A p \in Seq(Nat) :
           /\ <<i>> \o p \in Seq(Nat)
           /\ QueryAt(q, <<i>> \o p) = QueryAt(Child(q, i), p)
           /\ <<i>> \o p \in Paths(q) <=> p \in Paths(Child(q, i))
<1> DEFINE Shifts(p) == /\ <<i>> \o p \in Seq(Nat)
                        /\ QueryAt(q, <<i>> \o p) = QueryAt(Child(q, i), p)
                        /\ <<i>> \o p \in Paths(q) <=> p \in Paths(Child(q, i))
           S == {k \in Nat : \A p \in Seq(Nat) : Len(p) = k => Shifts(p)}
<1>1. 0 \in S
  <2>1. SUFFICES ASSUME NEW p \in Seq(Nat), Len(p) = 0 PROVE Shifts(p)
    OBVIOUS
  <2>2. p = <<>>
    BY <2>1, EmptySeq
  <2>3. <<>> \in Seq(Nat)
    BY EmptySeq
  <2>4. PICK one \in Seq(Nat) : one = <<i>> /\ one = Append(<<>>, i)
    BY OneElement
  <2>5. one \o p = one
    BY <2>2, <2>4
  <2>6. QueryAt(q, one) = Child(q, i)
    <3>1. QueryAt(q, Append(<<>>, i)) = Child(QueryAt(q, <<>>), i)
      BY <2>3, AtNext
    <3>2. QED  BY <2>4, <3>1, AtStart
  <2>7. one \in Paths(q)
    <3>1. i \in Children(QueryAt(q, <<>>)) /\ <<>> \in Paths(q)
      BY AtStart, PathStart
    <3>2. Append(<<>>, i) \in Paths(q)
      BY <2>3, <3>1, PathNext
    <3>3. QED  BY <2>4, <3>2
  <2>8. QueryAt(Child(q, i), p) = Child(q, i) /\ p \in Paths(Child(q, i))
    BY <2>2, AtStart, PathStart
  <2>9. QED  BY <2>4, <2>5, <2>6, <2>7, <2>8
<1>2. ASSUME NEW k \in Nat, k \in S
      PROVE  k + 1 \in S
  <2>1. SUFFICES ASSUME NEW p \in Seq(Nat), Len(p) = k + 1 PROVE Shifts(p)
    OBVIOUS
  <2>2. PICK front \in Seq(Nat), last \in Nat : p = Append(front, last) /\ Len(front) = k
    <3>1. p # <<>>
      BY <2>1, EmptySeq
    <3>2. PICK front \in Seq(Nat), last \in Nat : p = Append(front, last)
      BY <3>1, SequenceEmptyOrAppend
    <3>3. PICK len \in Nat : len = Len(front)
      BY LenProperties
    <3>4. Len(p) = len + 1
      BY <3>2, <3>3, AppendProperties
    <3>5. QED  BY <2>1, <3>2, <3>3, <3>4
  <2>3. Shifts(front)
    BY <1>2, <2>2
  <2> DEFINE shifted == <<i>> \o front
  <2>4. <<i>> \o p = Append(shifted, last)
    <3>1. PICK one \in Seq(Nat) : one = <<i>>
      BY OneElement
    <3>2. PICK end \in Seq(Nat) : end = <<last>>
      BY OneElement
    <3>3. Append(front, last) = front \o end /\ Append(one \o front, last) = (one \o front) \o end
      <4>1. one \o front \in Seq(Nat)
        BY ConcatProperties
      <4>2. QED  BY <3>2, <4>1, AppendIsConcat
    <3>4. one \o (front \o end) = (one \o front) \o end
      <4>1. Associates(Nat)
        BY Joining
      <4>2. QED  BY <4>1 DEF Associates
    <3>5. QED  BY <2>2, <3>1, <3>3, <3>4
  <2>5. shifted \in Seq(Nat) /\ QueryAt(q, shifted) = QueryAt(Child(q, i), front)
        /\ (shifted \in Paths(q) <=> front \in Paths(Child(q, i)))
    BY <2>3
  <2> HIDE DEF shifted
  <2>6. QueryAt(q, Append(shifted, last)) = QueryAt(Child(q, i), Append(front, last))
    BY <2>5, AtNext
  <2>7. Append(shifted, last) \in Paths(q) <=> Append(front, last) \in Paths(Child(q, i))
    BY <2>5, PathNext
  <2>8. Append(shifted, last) \in Seq(Nat)
    BY <2>5, AppendProperties
  <2>9. QED  BY <2>2, <2>4, <2>6, <2>7, <2>8
<1>3. Nat \subseteq S
  <2> HIDE DEF S
  <2>1. QED  BY <1>1, <1>2, Induct
<1>4. \A p \in Seq(Nat) : Shifts(p)
  <2>1. ASSUME NEW p \in Seq(Nat) PROVE Shifts(p)
    <3>1. PICK k \in Nat : k = Len(p)
      BY LenProperties
    <3>2. k \in S
      BY <1>3
    <3>3. QED  BY <3>1, <3>2
  <2>2. QED  BY <2>1
<1>5. QED  BY <1>4

\* What the search of q finds along a path through its i-th part is what the
\* search of that part finds.
LEMMA FindShift ==
  ASSUME NEW B \in Nat, NEW Q, Heights(Q, B), NEW h \in 0 .. B, NEW q \in Q[h],
         NEW text \in Seq(Symbols), NEW i \in Children(q),
         NEW g, Searching(g, text, q), NEW f, Searching(f, text, Child(q, i))
  PROVE  g[<<i>>] = f[<<>>]
<1>1. PICK low \in 0 .. B : low = h - 1
  BY ChildrenLower
<1>2. PICK c \in Q[low] : c = Child(q, i) /\ i \in Nat
  BY <1>1, ChildrenLower
<1>3. PICK D : D = Paths(c)
  OBVIOUS
<1>4. PICK rank : rank = PathRank(c, low)
  OBVIOUS
<1>5. PICK V : V = [p \in D |-> {f[p]}]
  OBVIOUS
<1>6. PICK r : r = [p \in D |-> g[<<i>> \o p]]
  OBVIOUS
<1>7. ASSUME NEW p \in D
      PROVE  /\ rank[p] \in 0 .. low - 1
             /\ \A j \in Children(QueryAt(c, p)) :
                  j \in Nat /\ Append(p, j) \in Lower(D, rank, p)
  BY <1>3, <1>4, PathsBelow
<1>8. Inherits(D, rank, low, V, r)
  <2>1. ASSUME NEW p \in D, \A e \in Lower(D, rank, p) : r[e] \in V[e]
        PROVE  r[p] \in V[p]
    <3>1. PICK k : k = QueryAt(c, p)
      OBVIOUS
    <3>2. p \in Seq(Nat)
      BY <1>3 DEF Paths
    <3>3. PICK m : m = <<i>> \o p
      OBVIOUS
    <3>4. m \in Seq(Nat) /\ QueryAt(q, m) = k /\ m \in Paths(q)
      BY <1>2, <1>3, <3>1, <3>2, <3>3, PathShift
    <3>5. ASSUME NEW j \in Children(k)
          PROVE  g[Append(m, j)] = f[Append(p, j)]
      <4>1. PICK e : e = Append(p, j)
        OBVIOUS
      <4>2. j \in Nat /\ e \in Lower(D, rank, p)
        BY <1>7, <3>1, <4>1
      <4>3. e \in D
        BY <4>2 DEF Lower
      <4>4. r[e] = f[e]
        BY <1>5, <2>1, <4>2, <4>3
      <4>5. r[e] = g[<<i>> \o e]
        BY <1>6, <4>3
      <4>6. <<i>> \o e = Append(m, j)
        <5>1. PICK one \in Seq(Nat) : one = <<i>>
          BY <1>2, OneElement
        <5>2. PICK end \in Seq(Nat) : end = <<j>>
          BY <4>2, OneElement
        <5>3. Append(p, j) = p \o end /\ Append(m, j) = m \o end
          BY <3>2, <3>4, <4>2, <5>2, AppendIsConcat
        <5>4. one \o (p \o end) = (one \o p) \o end
          <6>1. Associates(Nat)
            BY Joining
          <6>2. QED  BY <3>2, <6>1 DEF Associates
        <5>5. QED  BY <3>3, <4>1, <5>1, <5>3, <5>4
      <4>7. QED  BY <4>1, <4>4, <4>5, <4>6
    <3>6. g[m] = Found(text, k, [j \in Children(k) |-> g[Append(m, j)]])
      BY <3>4 DEF Searching, IsFind
    <3>7. f[p] = Found(text, k, [j \in Children(k) |-> f[Append(p, j)]])
      BY <1>2, <1>3, <3>1 DEF Searching, IsFind
    <3>8. [j \in Children(k) |-> g[Append(m, j)]] = [j \in Children(k) |-> f[Append(p, j)]]
      BY <3>5
    <3>9. r[p] = f[p]
      BY <1>6, <3>3, <3>6, <3>7, <3>8
    <3>10. QED  BY <1>5, <3>9
  <2>2. low \in Nat
    OBVIOUS
  <2>3. \A p \in D : rank[p] \in 0 .. low - 1
    BY <1>7
  <2>4. QED  BY <2>1, <2>2, <2>3 DEF Inherits
<1>9. <<>> \in D
  BY <1>3, PathStart
<1>10. r[<<>>] \in V[<<>>]
  BY <1>8, <1>9, RecursionTypes DEF Typed
<1>11. <<i>> \o <<>> = <<i>>
  <2>1. PICK one \in Seq(Nat) : one = <<i>>
    BY <1>2, OneElement
  <2>2. one \o <<>> = one
    OBVIOUS
  <2>3. QED  BY <2>1, <2>2
<1>12. QED  BY <1>5, <1>6, <1>9, <1>10, <1>11

\* The searches of the parts of a query.
Within(text, q) == [i \in Children(q) |-> [U \in SUBSET Nodes(text) |-> FindTargets(text, U, Child(q, i))]]

\* A search makes what it finds of what the searches of its parts find.
LEMMA FindParts ==
  ASSUME NEW B \in Nat, NEW Q, Heights(Q, B), NEW h \in 0 .. B, NEW q \in Q[h],
         NEW text \in Seq(Symbols), NEW T \in SUBSET Nodes(text)
  PROVE  FindTargets(text, T, q) = Found(text, q, Within(text, q))[T]
<1>1. PICK low \in 0 .. B : low = h - 1
  BY ChildrenLower
<1>2. PICK g : Searching(g, text, q)
  BY FindRun
<1>3. ASSUME NEW i \in Children(q)
      PROVE  g[Append(<<>>, i)] = [U \in SUBSET Nodes(text) |-> FindTargets(text, U, Child(q, i))]
  <2>1. PICK c \in Q[low] : c = Child(q, i) /\ i \in Nat
    BY <1>1, ChildrenLower
  <2>2. PICK f : Searching(f, text, c)
    BY FindRun
  <2>3. g[<<i>>] = f[<<>>]
    BY <1>2, <2>1, <2>2, FindShift
  <2>4. f[<<>>] \in Searches(text) /\ \A U \in SUBSET Nodes(text) : FindTargets(text, U, c) = f[<<>>][U]
    BY <2>2, PathStart DEF Searching
  <2>5. f[<<>>] = [U \in SUBSET Nodes(text) |-> FindTargets(text, U, c)]
    BY <2>4 DEF Searches
  <2>6. <<i>> = Append(<<>>, i)
    BY <2>1, OneElement
  <2>7. QED  BY <2>1, <2>3, <2>5, <2>6
<1>4. [i \in Children(q) |-> g[Append(<<>>, i)]] = Within(text, q)
  BY <1>3 DEF Within
<1>5. g[<<>>] = Found(text, q, [i \in Children(q) |-> g[Append(<<>>, i)]])
  BY <1>2, AtStart, PathStart DEF Searching, IsFind
<1>6. FindTargets(text, T, q) = g[<<>>][T]
  BY <1>2 DEF Searching
<1>7. QED  BY <1>4, <1>5, <1>6

-----------------------------------------------------------------------------
(* A chain, by the parts of a query *)

\* What attachContains makes along a path through the i-th part of a query is
\* what it makes of that part.
LEMMA AttachShift ==
  ASSUME NEW B \in Nat, NEW Q, Heights(Q, B), NEW h \in 0 .. B, NEW q \in Q[h],
         NEW i \in Children(q), NEW child, NEW direct,
         NEW g, IsAttach(g, q, child, direct), NEW f, IsAttach(f, Child(q, i), child, direct)
  PROVE  g[<<i>>] = f[<<>>]
<1>1. PICK low \in 0 .. B : low = h - 1
  BY ChildrenLower
<1>2. PICK c \in Q[low] : c = Child(q, i) /\ i \in Nat
  BY <1>1, ChildrenLower
<1>3. PICK D : D = Paths(c)
  OBVIOUS
<1>4. PICK rank : rank = PathRank(c, low)
  OBVIOUS
<1>5. PICK V : V = [p \in D |-> {f[p]}]
  OBVIOUS
<1>6. PICK r : r = [p \in D |-> g[<<i>> \o p]]
  OBVIOUS
<1>7. ASSUME NEW p \in D
      PROVE  /\ rank[p] \in 0 .. low - 1
             /\ \A j \in Children(QueryAt(c, p)) :
                  j \in Nat /\ Append(p, j) \in Lower(D, rank, p)
  BY <1>3, <1>4, PathsBelow
<1>8. Inherits(D, rank, low, V, r)
  <2>1. ASSUME NEW p \in D, \A e \in Lower(D, rank, p) : r[e] \in V[e]
        PROVE  r[p] \in V[p]
    <3>1. PICK k : k = QueryAt(c, p)
      OBVIOUS
    <3>2. p \in Seq(Nat)
      BY <1>3 DEF Paths
    <3>3. PICK m : m = <<i>> \o p
      OBVIOUS
    <3>4. m \in Seq(Nat) /\ QueryAt(q, m) = k /\ m \in Paths(q)
      BY <1>2, <1>3, <3>1, <3>2, <3>3, PathShift
    <3>5. ASSUME NEW j \in Children(k)
          PROVE  g[Append(m, j)] = f[Append(p, j)]
      <4>1. PICK e : e = Append(p, j)
        OBVIOUS
      <4>2. j \in Nat /\ e \in Lower(D, rank, p)
        BY <1>7, <3>1, <4>1
      <4>3. e \in D
        BY <4>2 DEF Lower
      <4>4. r[e] = f[e]
        BY <1>5, <2>1, <4>2, <4>3
      <4>5. r[e] = g[<<i>> \o e]
        BY <1>6, <4>3
      <4>6. <<i>> \o e = Append(m, j)
        <5>1. PICK one \in Seq(Nat) : one = <<i>>
          BY <1>2, OneElement
        <5>2. PICK end \in Seq(Nat) : end = <<j>>
          BY <4>2, OneElement
        <5>3. Append(p, j) = p \o end /\ Append(m, j) = m \o end
          BY <3>2, <3>4, <4>2, <5>2, AppendIsConcat
        <5>4. one \o (p \o end) = (one \o p) \o end
          <6>1. Associates(Nat)
            BY Joining
          <6>2. QED  BY <3>2, <6>1 DEF Associates
        <5>5. QED  BY <3>3, <4>1, <5>1, <5>3, <5>4
      <4>7. QED  BY <4>1, <4>4, <4>5, <4>6
    <3>6. g[m] = Attached(k, [j \in Children(k) |-> g[Append(m, j)]], child, direct)
      BY <3>4 DEF IsAttach
    <3>7. f[p] = Attached(k, [j \in Children(k) |-> f[Append(p, j)]], child, direct)
      BY <1>2, <1>3, <3>1 DEF IsAttach
    <3>8. [j \in Children(k) |-> g[Append(m, j)]] = [j \in Children(k) |-> f[Append(p, j)]]
      BY <3>5
    <3>9. r[p] = f[p]
      BY <1>6, <3>3, <3>6, <3>7, <3>8
    <3>10. QED  BY <1>5, <3>9
  <2>2. low \in Nat
    OBVIOUS
  <2>3. \A p \in D : rank[p] \in 0 .. low - 1
    BY <1>7
  <2>4. QED  BY <2>1, <2>2, <2>3 DEF Inherits
<1>9. <<>> \in D
  BY <1>3, PathStart
<1>10. r[<<>>] \in V[<<>>]
  BY <1>8, <1>9, RecursionTypes DEF Typed
<1>11. <<i>> \o <<>> = <<i>>
  <2>1. PICK one \in Seq(Nat) : one = <<i>>
    BY <1>2, OneElement
  <2>2. one \o <<>> = one
    OBVIOUS
  <2>3. QED  BY <2>1, <2>2
<1>12. QED  BY <1>5, <1>6, <1>9, <1>10, <1>11

\* attachContains makes what it makes of what it makes of the parts.
LEMMA AttachParts ==
  ASSUME NEW B \in Nat, NEW Q, Heights(Q, B), NEW a \in 0 .. B, NEW b \in 0 .. B, a + b <= B,
         NEW q \in Q[a], NEW child \in Q[b], NEW direct \in BOOLEAN
  PROVE  AttachContains(q, child, direct)
         = Attached(q, [i \in Children(q) |-> AttachContains(Child(q, i), child, direct)], child, direct)
<1>1. PICK low \in 0 .. B : low = a - 1 /\ low + b <= B
  BY ChildrenLower
<1>2. PICK g : IsAttach(g, q, child, direct) /\ AttachContains(q, child, direct) = g[<<>>]
  BY AttachRun
<1>3. ASSUME NEW i \in Children(q)
      PROVE  g[Append(<<>>, i)] = AttachContains(Child(q, i), child, direct)
  <2>1. PICK c \in Q[low] : c = Child(q, i) /\ i \in Nat
    BY <1>1, ChildrenLower
  <2>2. PICK f : IsAttach(f, c, child, direct) /\ AttachContains(c, child, direct) = f[<<>>]
    BY <1>1, AttachRun
  <2>3. g[<<i>>] = f[<<>>]
    BY <1>2, <2>1, <2>2, AttachShift
  <2>4. <<i>> = Append(<<>>, i)
    BY <2>1, OneElement
  <2>5. QED  BY <2>1, <2>2, <2>3, <2>4
<1>4. g[<<>>] = Attached(q, [i \in Children(q) |-> g[Append(<<>>, i)]], child, direct)
  BY <1>2, AtStart, PathStart DEF IsAttach
<1>5. QED  BY <1>2, <1>3, <1>4

-----------------------------------------------------------------------------
(* What a query selects *)

\* The nodes a query selects in a text.
Selects(text, q) == SetOf(FindTargets(text, Nodes(text), q))

\* The nodes that contain one of C, as a child or anywhere.
Has(text, direct, C) ==
  {n \in Nodes(text) : \E m \in C : IF direct THEN ChildOf(m, n, text) ELSE Inside(m, n)}

\* The nodes a simple query is about, and those that contain what it must; A
\* has the nodes its child selects.
Named(text, sel) == {n \in Nodes(text) : n.kind = sel.kind /\ sel.name \in {"*", n.name}}
Containing(text, q, A) ==
  IF q.direct
  THEN Has(text, TRUE, {m \in Named(text, q.sub[1].sel) : q.sub[1].sub # <<>> => m \in A[0]})
  ELSE Has(text, FALSE, A[0])

\* What a query selects if its parts select A.
Selected(text, q, A) ==
  CASE q.op = "AND" -> {n \in Nodes(text) : \A i \in DOMAIN q.args : n \in A[i]}
    [] q.op = "OR"  -> {n \in Nodes(text) : \E i \in DOMAIN q.args : n \in A[i]}
    [] q.op = "NOT" -> {n \in Nodes(text) : /\ q.args[1].sel.kind # ""
                                            /\ n.kind = q.args[1].sel.kind /\ n \notin A[1]}
    [] OTHER -> IF q.sub = <<>> THEN Named(text, q.sel)
                ELSE Named(text, q.sel) \intersect Containing(text, q, A)

\* A search of some nodes finds those of them the query selects, if this is so
\* of its parts.
LEMMA FoundSelected ==
  ASSUME NEW text \in Seq(Symbols), NEW X, NEW q \in Shapes(X), NEW W, NEW A,
         \A i \in Children(q) : W[i] \in Searches(text) /\ A[i] \in SUBSET Nodes(text),
         \A i \in Children(q) : \A T \in SUBSET Nodes(text) : SetOf(W[i][T]) = T \intersect A[i],
         NEW S \in SUBSET Nodes(text)
  PROVE  SetOf(Found(text, q, W)[S]) = S \intersect Selected(text, q, A)
<1>1. q.op \in QueryOps /\ q.args \in Seq(X) /\ (q.op \in {"AND", "NOT"} => q.args # <<>>)
  BY DEF Shapes
<1>2. DOMAIN q.args = 1 .. Len(q.args) /\ Len(q.args) \in Nat
  BY <1>1, LenProperties
<1>3. \A i \in DOMAIN q.args : i \in Children(q)
  BY DEF Children
<1>4. q.args # <<>> => 1 \in DOMAIN q.args
  <2>1. q.args # <<>> => Len(q.args) # 0
    BY <1>1, EmptySeq
  <2>2. QED  BY <1>2, <2>1
<1>5. \A T \in SUBSET Nodes(text) : SetOf(InOrder(T)) = T
  BY InOrderMeans
<1>6. CASE q.op = "AND"
  <2>1. PICK T : T = {n \in S : \A i \in 2 .. Len(q.args) : ElementOf(n, W[i][S])}
    OBVIOUS
  <2>2. Found(text, q, W)[S] = Kept(W[1][S], T)
    BY <1>6, <2>1 DEF Found
  <2>3. 1 \in DOMAIN q.args /\ 1 \in Children(q)
    BY <1>1, <1>3, <1>4, <1>6
  <2>4. W[1][S] \in TargetLists(text)
    BY <2>3 DEF Searches
  <2>5. W[1][S] \in Seq(Nodes(text))
    BY <2>4 DEF TargetLists
  <2>6. SetOf(Kept(W[1][S], T)) = SetOf(W[1][S]) \intersect T
    BY <2>5, KeptMeans
  <2>7. \A i \in DOMAIN q.args : \A n \in S : ElementOf(n, W[i][S]) <=> n \in A[i]
    BY <1>3, ElementIn
  <2>8. SetOf(W[1][S]) = S \intersect A[1]
    BY <2>3
  <2>9. \A i \in DOMAIN q.args : i = 1 \/ i \in 2 .. Len(q.args)
    BY <1>2
  <2>10. \A i \in 2 .. Len(q.args) : i \in DOMAIN q.args
    BY <1>2
  <2>11. T = {n \in S : \A i \in 2 .. Len(q.args) : n \in A[i]}
    BY <2>1, <2>7, <2>10
  <2>12. Selected(text, q, A) = {n \in Nodes(text) : \A i \in DOMAIN q.args : n \in A[i]}
    BY <1>6 DEF Selected
  <2>13. SetOf(Kept(W[1][S], T)) = S \intersect {n \in Nodes(text) : \A i \in DOMAIN q.args : n \in A[i]}
    BY <2>3, <2>6, <2>8, <2>9, <2>10, <2>11
  <2>14. QED  BY <2>2, <2>12, <2>13
<1>7. CASE q.op = "OR"
  <2>1. PICK us : us = [i \in DOMAIN q.args |-> W[i][S]]
    OBVIOUS
  <2>2. Found(text, q, W)[S] = Unions(us)
    BY <1>7, <2>1 DEF Found, Unions
  <2>3. us \in Seq(Seq(Nodes(text)))
    <3>1. \A i \in DOMAIN q.args : W[i][S] \in Seq(Nodes(text))
      BY <1>3 DEF Searches, TargetLists
    <3>2. us \in [1 .. Len(q.args) -> Seq(Nodes(text))]
      BY <1>2, <2>1, <3>1
    <3>3. PICK len \in Nat : len = Len(q.args)
      BY <1>2
    <3>4. us \in [1 .. len -> Seq(Nodes(text))]
      BY <3>2, <3>3
    <3>5. QED  BY <3>4, SeqDef
  <2>4. SetOf(Unions(us)) = UNION {SetOf(us[i]) : i \in DOMAIN us}
    BY <2>3, UnionsMean
  <2>5. DOMAIN us = DOMAIN q.args /\ \A i \in DOMAIN q.args : SetOf(us[i]) = S \intersect A[i]
    BY <1>3, <2>1
  <2>6. Selected(text, q, A) = {n \in Nodes(text) : \E i \in DOMAIN q.args : n \in A[i]}
    BY <1>7 DEF Selected
  <2>7. UNION {SetOf(us[i]) : i \in DOMAIN us} = S \intersect {n \in Nodes(text) : \E i \in DOMAIN q.args : n \in A[i]}
    BY <2>5
  <2>8. QED  BY <2>2, <2>4, <2>6, <2>7
<1>8. CASE q.op = "NOT"
  <2>1. PICK T : T = {n \in S : n.kind = q.args[1].sel.kind /\ ~ElementOf(n, W[1][S])}
    OBVIOUS
  <2>2. Found(text, q, W)[S] = IF q.args[1].sel.kind = "" THEN <<>> ELSE InOrder(T)
    BY <1>8, <2>1 DEF Found
  <2>3. 1 \in DOMAIN q.args /\ 1 \in Children(q)
    BY <1>1, <1>3, <1>4, <1>8
  <2>4. \A n \in S : ElementOf(n, W[1][S]) <=> n \in A[1]
    BY <2>3, ElementIn
  <2>5. T = {n \in S : n.kind = q.args[1].sel.kind /\ n \notin A[1]}
    BY <2>1, <2>4
  <2>6. Selected(text, q, A) = {n \in Nodes(text) : /\ q.args[1].sel.kind # ""
                                            /\ n.kind = q.args[1].sel.kind /\ n \notin A[1]}
    BY <1>8 DEF Selected
  <2>7. SetOf(InOrder(T)) = T
    BY <1>5, <2>1
  <2>8. SetOf(<<>>) = {}
    BY DEF SetOf
  <2>9. QED  BY <2>2, <2>5, <2>6, <2>7, <2>8
<1>9. CASE q.op = ""
  <2>1. PICK T : T = {n \in S : Candidate(text, n, q, W[0])}
    OBVIOUS
  <2>2. SetOf(Found(text, q, W)[S]) = T
    <3>1. Found(text, q, W)[S] = InOrder(T)
      BY <1>9, <2>1 DEF Found
    <3>2. QED  BY <1>5, <2>1, <3>1
  <2>3. CASE q.sub = <<>>
    <3>1. Selected(text, q, A) = Named(text, q.sel)
      BY <1>9, <2>3 DEF Selected
    <3>2. \A n \in S : Candidate(text, n, q, W[0]) <=> n \in Named(text, q.sel)
      BY <2>3 DEF Candidate, Named
    <3>3. QED  BY <2>1, <2>2, <3>1, <3>2
  <2>4. CASE q.sub # <<>>
    <3>1. Selected(text, q, A) = Named(text, q.sel) \intersect Containing(text, q, A)
      BY <1>9, <2>4 DEF Selected
    <3>2. 0 \in Children(q)
      BY <2>4 DEF Children
    <3>3. \A U \in SUBSET Nodes(text) : W[0][U] # <<>> <=> U \intersect A[0] # {}
      <4>1. ASSUME NEW U \in SUBSET Nodes(text)
            PROVE  W[0][U] # <<>> <=> U \intersect A[0] # {}
        <5>1. W[0][U] \in Seq(Nodes(text))
          BY <3>2 DEF Searches, TargetLists
        <5>2. PICK s \in Seq(Nodes(text)) : s = W[0][U]
          BY <5>1
        <5>3. s = <<>> <=> SetOf(s) = {}
          <6>1. PICK len \in Nat : len = Len(s) /\ DOMAIN s = 1 .. len
            BY LenProperties
          <6>2. s = <<>> <=> len = 0
            BY <6>1, EmptySeq
          <6>3. len # 0 => 1 \in DOMAIN s
            BY <6>1
          <6>4. len # 0 => s[1] \in SetOf(s)
            BY <6>3 DEF SetOf
          <6>5. len = 0 => DOMAIN s = {}
            BY <6>1
          <6>6. len = 0 => SetOf(s) = {}
            BY <6>5 DEF SetOf
          <6>7. QED  BY <6>2, <6>4, <6>6
        <5>4. SetOf(s) = U \intersect A[0]
          BY <3>2, <5>2
        <5>5. QED  BY <5>2, <5>3, <5>4
      <4>2. QED  BY <4>1
    <3>4. ASSUME NEW n \in S
          PROVE  Candidate(text, n, q, W[0]) <=> n \in Named(text, q.sel) /\ n \in Containing(text, q, A)
      <4>1. PICK below : below = {m \in Nodes(text) : Inside(m, n)}
        OBVIOUS
      <4>2. PICK c : c = q.sub[1]
        OBVIOUS
      <4>3. n \in Named(text, q.sel) <=> n.kind = q.sel.kind /\ q.sel.name \in {"*", n.name}
        BY DEF Named
      <4>4. CASE q.direct
        <5>1. Candidate(text, n, q, W[0])
              <=> /\ n.kind = q.sel.kind /\ q.sel.name \in {"*", n.name}
                  /\ \E m \in below : /\ ChildOf(m, n, text)
                                      /\ m.kind = c.sel.kind /\ c.sel.name \in {"*", m.name}
                                      /\ c.sub # <<>> => W[0][{m}] # <<>>
          BY <2>4, <4>1, <4>2, <4>4 DEF Candidate
        <5>2. \A m \in below : m \in Nodes(text) /\ (W[0][{m}] # <<>> <=> m \in A[0])
          BY <3>3, <4>1
        <5>3. \A m \in Nodes(text) : ChildOf(m, n, text) => m \in below
          BY <4>1 DEF ChildOf
        <5>4. n \in Containing(text, q, A)
              <=> \E m \in Nodes(text) : /\ ChildOf(m, n, text)
                                         /\ m.kind = c.sel.kind /\ c.sel.name \in {"*", m.name}
                                         /\ c.sub # <<>> => m \in A[0]
          BY <4>2, <4>4 DEF Containing, Has, Named
        <5>5. QED  BY <4>3, <5>1, <5>2, <5>3, <5>4
      <4>5. CASE ~q.direct
        <5>1. Candidate(text, n, q, W[0])
              <=> /\ n.kind = q.sel.kind /\ q.sel.name \in {"*", n.name}
                  /\ W[0][below] # <<>>
          BY <2>4, <4>1, <4>5 DEF Candidate
        <5>2. W[0][below] # <<>> <=> \E m \in A[0] : m \in below
          BY <3>3, <4>1
        <5>3. n \in Containing(text, q, A) <=> \E m \in A[0] : Inside(m, n)
          BY <4>5 DEF Containing, Has
        <5>4. \A m \in A[0] : m \in Nodes(text)
          BY <3>2
        <5>5. QED  BY <4>1, <4>3, <5>1, <5>2, <5>3, <5>4
      <4>6. QED  BY <4>4, <4>5
    <3>5. QED  BY <2>1, <2>2, <3>1, <3>4
  <2>5. QED  BY <2>3, <2>4
<1>10. QED  BY <1>1, <1>6, <1>7, <1>8, <1>9 DEF QueryOps

\* What the parts of a query select.
PartsSelect(text, q) == [i \in Children(q) |-> Selects(text, Child(q, i))]

\* What is selected are nodes of the text.
LEMMA SelectedNodes ==
  ASSUME NEW text, NEW X, NEW q \in Shapes(X), NEW A
  PROVE  Selected(text, q, A) \in SUBSET Nodes(text)
<1>1. q.op \in QueryOps
  BY DEF Shapes
<1>2. CASE q.op = "AND"
  BY <1>2 DEF Selected
<1>3. CASE q.op = "OR"
  BY <1>3 DEF Selected
<1>4. CASE q.op = "NOT"
  BY <1>4 DEF Selected
<1>5. CASE q.op = ""
  BY <1>5 DEF Selected, Named
<1>6. QED  BY <1>1, <1>2, <1>3, <1>4, <1>5 DEF QueryOps

\* A search of some nodes finds those of them that the query selects.
LEMMA SelectsPart ==
  ASSUME NEW B \in Nat, NEW Q, Heights(Q, B), NEW h \in 0 .. B, NEW q \in Q[h],
         NEW text \in Seq(Symbols), NEW T \in SUBSET Nodes(text)
  PROVE  /\ SetOf(FindTargets(text, T, q)) = T \intersect Selects(text, q)
         /\ Selects(text, q) = Selected(text, q, PartsSelect(text, q))
<1> DEFINE Finds(p) == /\ Selects(text, p) = Selected(text, p, PartsSelect(text, p))
                       /\ \A U \in SUBSET Nodes(text) :
                            SetOf(FindTargets(text, U, p)) = U \intersect Selects(text, p)
           S == {k \in Nat : k <= B => \A p \in Q[k] : Finds(p)}
<1>1. 0 \in S
  <2>1. 0 \in 0 .. B
    OBVIOUS
  <2>2. \A p \in Q[0] : FALSE
    BY <2>1, ChildrenLower
  <2>3. QED  BY <2>2
<1>2. ASSUME NEW k \in Nat, k \in S
      PROVE  k + 1 \in S
  <2>1. SUFFICES ASSUME k + 1 <= B, NEW p \in Q[k + 1]
                 PROVE  Finds(p)
    OBVIOUS
  <2>2. PICK top \in 0 .. B, low \in 0 .. B : top = k + 1 /\ low = k /\ low = top - 1
    BY <2>1
  <2>3. p \in Q[top]
    BY <2>1, <2>2
  <2>4. p \in Shapes(Q[low]) /\ \A i \in Children(p) : i \in Nat /\ Child(p, i) \in Q[low]
    BY <2>2, <2>3, ChildrenLower
  <2>5. \A c \in Q[low] : Finds(c)
    BY <1>2, <2>1, <2>2
  <2>6. PICK W : W = Within(text, p)
    OBVIOUS
  <2>7. PICK A : A = PartsSelect(text, p)
    OBVIOUS
  <2>8. ASSUME NEW i \in Children(p)
        PROVE  /\ W[i] \in Searches(text) /\ A[i] \in SUBSET Nodes(text)
               /\ \A U \in SUBSET Nodes(text) : SetOf(W[i][U]) = U \intersect A[i]
    <3>1. PICK c \in Q[low] : c = Child(p, i)
      BY <2>4
    <3>2. \A U \in SUBSET Nodes(text) : FindTargets(text, U, c) \in TargetLists(text)
      BY FindTyped
    <3>3. W[i] = [U \in SUBSET Nodes(text) |-> FindTargets(text, U, c)]
      BY <2>6, <3>1 DEF Within
    <3>4. A[i] = Selects(text, c)
      BY <2>7, <3>1 DEF PartsSelect
    <3>5. \A U \in SUBSET Nodes(text) : SetOf(FindTargets(text, U, c)) = U \intersect Selects(text, c)
      BY <2>5
    <3>6. W[i] \in Searches(text)
      BY <3>2, <3>3 DEF Searches
    <3>7. A[i] \in SUBSET Nodes(text)
      <4>1. Selects(text, c) = Selected(text, c, PartsSelect(text, c))
        BY <2>5
      <4>2. \E X : c \in Shapes(X)
        BY ChildrenLower
      <4>3. QED  BY <3>4, <4>1, <4>2, SelectedNodes
    <3>8. QED  BY <3>3, <3>4, <3>5, <3>6, <3>7
  <2>9. ASSUME NEW U \in SUBSET Nodes(text)
        PROVE  SetOf(FindTargets(text, U, p)) = U \intersect Selected(text, p, A)
    <3>1. SetOf(Found(text, p, W)[U]) = U \intersect Selected(text, p, A)
      BY <2>4, <2>8, FoundSelected
    <3>2. FindTargets(text, U, p) = Found(text, p, W)[U]
      <4>1. FindTargets(text, U, p) = Found(text, p, Within(text, p))[U]
        BY <2>3, FindParts
      <4>2. QED  BY <2>6, <4>1
    <3>3. QED  BY <3>1, <3>2
  <2>10. Selected(text, p, A) \subseteq Nodes(text)
    BY <2>4, SelectedNodes
  <2>11. Selects(text, p) = Selected(text, p, A)
    BY <2>9, <2>10 DEF Selects
  <2>12. QED  BY <2>7, <2>9, <2>11
<1>3. Nat \subseteq S
  <2> HIDE DEF S
  <2>1. QED  BY <1>1, <1>2, Induct
<1>4. h \in S
  BY <1>3
<1>5. QED  BY <1>4

\* What some, or all, of the operands of a query select, and what is not
\* selected of the kind of the first.
SomeSelect(text, q) == {n \in Nodes(text) : \E i \in DOMAIN q.args : n \in Selects(text, q.args[i])}
AllSelect(text, q)  == {n \in Nodes(text) : \A i \in DOMAIN q.args : n \in Selects(text, q.args[i])}
RestOfKind(text, q) == {n \in Nodes(text) : /\ q.args[1].sel.kind # ""
                                            /\ n.kind = q.args[1].sel.kind
                                            /\ n \notin Selects(text, q.args[1])}
HasPart(text, q) == Containing(text, q, [i \in {0} |-> Selects(text, q.sub[1])])

\* What a query selects, by what it is.
LEMMA SelectsBy ==
  ASSUME NEW B \in Nat, NEW Q, Heights(Q, B), NEW h \in 0 .. B, NEW q \in Q[h],
         NEW text \in Seq(Symbols)
  PROVE  /\ Selects(text, q) \in SUBSET Nodes(text)
         /\ q.op = "OR" => Selects(text, q) = SomeSelect(text, q)
         /\ q.op = "AND" => Selects(text, q) = AllSelect(text, q)
         /\ q.op = "NOT" => Selects(text, q) = RestOfKind(text, q)
         /\ q.op = "" /\ q.sub = <<>> => Selects(text, q) = Named(text, q.sel)
         /\ q.op = "" /\ q.sub # <<>> =>
              Selects(text, q) = Named(text, q.sel) \intersect HasPart(text, q)
<1>1. PICK X : q \in Shapes(X)
  BY ChildrenLower
<1>2. PICK A : A = PartsSelect(text, q)
  OBVIOUS
<1>3. Nodes(text) \in SUBSET Nodes(text)
  OBVIOUS
<1>4. Selects(text, q) = Selected(text, q, A)
  BY <1>2, <1>3, SelectsPart
<1>5. Selects(text, q) \in SUBSET Nodes(text)
  BY <1>1, <1>4, SelectedNodes
<1>6. q.args \in Seq(X) /\ (q.op \in {"AND", "NOT"} => q.args # <<>>)
  BY <1>1 DEF Shapes
<1>7. PICK len \in Nat : len = Len(q.args) /\ DOMAIN q.args = 1 .. len
  BY <1>6, LenProperties
<1>8. ASSUME NEW i \in DOMAIN q.args
      PROVE  A[i] = Selects(text, q.args[i])
  <2>1. i \in Children(q) /\ i # 0
    BY <1>7 DEF Children
  <2>2. Child(q, i) = q.args[i]
    BY <2>1 DEF Child
  <2>3. QED  BY <1>2, <2>1, <2>2 DEF PartsSelect
<1>9. ASSUME q.op = "OR"
      PROVE  Selects(text, q) = SomeSelect(text, q)
  <2>1. Selected(text, q, A) = {n \in Nodes(text) : \E i \in DOMAIN q.args : n \in A[i]}
    BY <1>9 DEF Selected
  <2>2. QED  BY <1>4, <1>8, <2>1 DEF SomeSelect
<1>10. ASSUME q.op = "AND"
       PROVE  Selects(text, q) = AllSelect(text, q)
  <2>1. Selected(text, q, A) = {n \in Nodes(text) : \A i \in DOMAIN q.args : n \in A[i]}
    BY <1>10 DEF Selected
  <2>2. QED  BY <1>4, <1>8, <2>1 DEF AllSelect
<1>11. ASSUME q.op = "NOT"
       PROVE  Selects(text, q) = RestOfKind(text, q)
  <2>1. Selected(text, q, A) = {n \in Nodes(text) : /\ q.args[1].sel.kind # ""
                                                    /\ n.kind = q.args[1].sel.kind /\ n \notin A[1]}
    BY <1>11 DEF Selected
  <2>2. len # 0
    BY <1>6, <1>7, <1>11, EmptySeq
  <2>3. 1 \in DOMAIN q.args
    BY <1>7, <2>2
  <2>4. A[1] = Selects(text, q.args[1])
    BY <1>8, <2>3
  <2>5. QED  BY <1>4, <2>1, <2>4 DEF RestOfKind
<1>12. ASSUME q.op = "", q.sub = <<>>
       PROVE  Selects(text, q) = Named(text, q.sel)
  BY <1>4, <1>12 DEF Selected
<1>13. ASSUME q.op = "", q.sub # <<>>
       PROVE  Selects(text, q) = Named(text, q.sel) \intersect HasPart(text, q)
  <2>1. Selected(text, q, A) = Named(text, q.sel) \intersect Containing(text, q, A)
    BY <1>13 DEF Selected
  <2>2. 0 \in Children(q)
    BY <1>13 DEF Children
  <2>3. A[0] = Selects(text, q.sub[1])
    BY <1>2, <2>2 DEF PartsSelect, Child
  <2>4. PICK C : C = [i \in {0} |-> Selects(text, q.sub[1])]
    OBVIOUS
  <2>5. C[0] = A[0]
    BY <2>3, <2>4
  <2>6. Containing(text, q, A) = Containing(text, q, C)
    BY <2>5 DEF Containing
  <2>7. QED  BY <1>4, <2>1, <2>4, <2>6 DEF HasPart
<1>14. QED  BY <1>5, <1>9, <1>10, <1>11, <1>12, <1>13

\* One operand more, and two operands.
OneMore(args, first, r) ==
  \E len \in Nat : /\ DOMAIN args = 1 .. len + 1 /\ DOMAIN first = 1 .. len
                   /\ \A i \in 1 .. len : args[i] = first[i]
                   /\ args[len + 1] = r
Pair(args, l, r) == DOMAIN args = 1 .. 2 /\ args[1] = l /\ args[2] = r

\* The operands of two queries together.
LEMMA MergeArgs ==
  ASSUME NEW X, NEW l \in X, NEW r \in X, l.args \in Seq(X), NEW op
  PROVE  /\ MergeBinary(op, l, r).op = op
         /\ l.op = op => OneMore(MergeBinary(op, l, r).args, l.args, r)
         /\ l.op # op => Pair(MergeBinary(op, l, r).args, l, r)
<1>1. PICK args : args = IF l.op = op THEN Append(l.args, r) ELSE <<l, r>>
  OBVIOUS
<1>2. MergeBinary(op, l, r).op = op /\ MergeBinary(op, l, r).args = args
  BY <1>1 DEF MergeBinary, Compound
<1>3. CASE l.op = op
  <2>1. PICK s \in Seq(X) : s = l.args
    OBVIOUS
  <2>2. args = Append(s, r)
    BY <1>1, <1>3, <2>1
  <2>3. PICK len \in Nat : len = Len(s) /\ DOMAIN s = 1 .. len
    BY LenProperties
  <2>4. /\ args \in Seq(X) /\ Len(args) = len + 1
        /\ \A i \in 1 .. len : args[i] = s[i]
        /\ args[len + 1] = r
    BY <2>2, <2>3, AppendProperties
  <2>5. DOMAIN args = 1 .. len + 1
    BY <2>4, LenProperties
  <2>6. OneMore(args, s, r)
    BY <2>3, <2>4, <2>5 DEF OneMore
  <2>7. QED  BY <1>2, <1>3, <2>1, <2>6
<1>4. CASE l.op # op
  <2>1. args = <<l, r>>
    BY <1>1, <1>4
  <2>2. DOMAIN args = 1 .. 2 /\ args[1] = l /\ args[2] = r
    BY <2>1
  <2>3. Pair(args, l, r)
    BY <2>2 DEF Pair
  <2>4. QED  BY <1>2, <1>4, <2>3
<1>5. QED  BY <1>3, <1>4

\* a | b selects what a or b selects, a & b what both do.
LEMMA MergeSelects ==
  ASSUME NEW B \in Nat, NEW Q, Heights(Q, B), NEW a \in 0 .. B, NEW b \in 0 .. B,
         NEW l \in Q[a], NEW r \in Q[b], NEW text \in Seq(Symbols), NEW top \in 0 .. B
  PROVE  /\ MergeBinary("OR", l, r) \in Q[top] =>
              Selects(text, MergeBinary("OR", l, r)) = Selects(text, l) \union Selects(text, r)
         /\ MergeBinary("AND", l, r) \in Q[top] =>
              Selects(text, MergeBinary("AND", l, r)) = Selects(text, l) \intersect Selects(text, r)
<1>3. PICK X : l \in X /\ r \in X /\ l.args \in Seq(X)
  <2>1. PICK Y : l.args \in Seq(Y)
    <3>1. l \in Shapes(Q[a - 1])
      BY ChildrenLower
    <3>2. l.args \in Seq(Q[a - 1])
      BY <3>1 DEF Shapes
    <3>3. QED  BY <3>2
  <2>2. PICK X : X = Y \union {l, r}
    OBVIOUS
  <2>3. l.args \in Seq(X)
    BY <2>1, <2>2, SeqMonotonic
  <2>4. QED  BY <2>2, <2>3
<1>4. PICK L, R : L = Selects(text, l) /\ R = Selects(text, r)
  OBVIOUS
<1>5. L \subseteq Nodes(text) /\ R \subseteq Nodes(text)
  BY <1>4, SelectsBy
<1>6. ASSUME MergeBinary("OR", l, r) \in Q[top]
      PROVE  Selects(text, MergeBinary("OR", l, r)) = L \union R
  <2>1. PICK q : q = MergeBinary("OR", l, r)
    OBVIOUS
  <2>2. q \in Q[top] /\ q.op = "OR"
    BY <1>6, <1>3, <2>1, MergeArgs
  <2>3. Selects(text, q) = {n \in Nodes(text) : \E i \in DOMAIN q.args : n \in Selects(text, q.args[i])}
    <3>1. Selects(text, q) = SomeSelect(text, q)
      BY <2>2, SelectsBy
    <3>2. QED  BY <3>1 DEF SomeSelect
  <2>4. CASE l.op = "OR"
    <3>1. PICK len \in Nat : /\ DOMAIN q.args = 1 .. len + 1 /\ DOMAIN l.args = 1 .. len
                             /\ \A i \in 1 .. len : q.args[i] = l.args[i]
                             /\ q.args[len + 1] = r
      <4>1. OneMore(q.args, l.args, r)
        BY <1>3, <2>1, <2>4, MergeArgs
      <4>2. QED  BY <4>1 DEF OneMore
    <3>2. L = {n \in Nodes(text) : \E i \in 1 .. len : n \in Selects(text, l.args[i])}
      <4>1. L = SomeSelect(text, l)
        BY <1>4, <2>4, SelectsBy
      <4>2. QED  BY <3>1, <4>1 DEF SomeSelect
    <3>3. ASSUME NEW n \in Nodes(text)
          PROVE  (\E i \in 1 .. len + 1 : n \in Selects(text, q.args[i])) <=> n \in L \union R
      <4>1. \A i \in 1 .. len + 1 : i \in 1 .. len \/ i = len + 1
        OBVIOUS
      <4>2. \A i \in 1 .. len : Selects(text, q.args[i]) = Selects(text, l.args[i]) /\ i \in 1 .. len + 1
        BY <3>1
      <4>3. Selects(text, q.args[len + 1]) = R /\ len + 1 \in 1 .. len + 1
        BY <1>4, <3>1
      <4>4. n \in L <=> \E i \in 1 .. len : n \in Selects(text, q.args[i])
        BY <3>2, <4>2
      <4>5. QED  BY <4>1, <4>2, <4>3, <4>4
    <3>4. QED  BY <1>5, <2>1, <2>3, <3>1, <3>3
  <2>5. CASE l.op # "OR"
    <3>1. DOMAIN q.args = 1 .. 2 /\ q.args[1] = l /\ q.args[2] = r
      <4>1. Pair(q.args, l, r)
        BY <1>3, <2>1, <2>5, MergeArgs
      <4>2. QED  BY <4>1 DEF Pair
    <3>2. \A i : i \in 1 .. 2 <=> i = 1 \/ i = 2
      OBVIOUS
    <3>3. \A n : (\E i \in DOMAIN q.args : n \in Selects(text, q.args[i])) <=> n \in L \union R
      BY <1>4, <3>1, <3>2
    <3>4. QED  BY <1>5, <2>1, <2>3, <3>3
  <2>6. QED  BY <2>4, <2>5
<1>7. ASSUME MergeBinary("AND", l, r) \in Q[top]
      PROVE  Selects(text, MergeBinary("AND", l, r)) = L \intersect R
  <2>1. PICK q : q = MergeBinary("AND", l, r)
    OBVIOUS
  <2>2. q \in Q[top] /\ q.op = "AND"
    BY <1>7, <1>3, <2>1, MergeArgs
  <2>3. Selects(text, q) = {n \in Nodes(text) : \A i \in DOMAIN q.args : n \in Selects(text, q.args[i])}
    <3>1. Selects(text, q) = AllSelect(text, q)
      BY <2>2, SelectsBy
    <3>2. QED  BY <3>1 DEF AllSelect
  <2>4. CASE l.op = "AND"
    <3>1. PICK len \in Nat : /\ DOMAIN q.args = 1 .. len + 1 /\ DOMAIN l.args = 1 .. len
                             /\ \A i \in 1 .. len : q.args[i] = l.args[i]
                             /\ q.args[len + 1] = r
      <4>1. OneMore(q.args, l.args, r)
        BY <1>3, <2>1, <2>4, MergeArgs
      <4>2. QED  BY <4>1 DEF OneMore
    <3>2. L = {n \in Nodes(text) : \A i \in 1 .. len : n \in Selects(text, l.args[i])}
      <4>1. L = AllSelect(text, l)
        BY <1>4, <2>4, SelectsBy
      <4>2. QED  BY <3>1, <4>1 DEF AllSelect
    <3>3. ASSUME NEW n \in Nodes(text)
          PROVE  (\A i \in 1 .. len + 1 : n \in Selects(text, q.args[i])) <=> n \in L \intersect R
      <4>1. \A i \in 1 .. len + 1 : i \in 1 .. len \/ i = len + 1
        OBVIOUS
      <4>2. \A i \in 1 .. len : Selects(text, q.args[i]) = Selects(text, l.args[i]) /\ i \in 1 .. len + 1
        BY <3>1
      <4>3. Selects(text, q.args[len + 1]) = R /\ len + 1 \in 1 .. len + 1
        BY <1>4, <3>1
      <4>4. n \in L <=> \A i \in 1 .. len : n \in Selects(text, q.args[i])
        BY <3>2, <4>2
      <4>5. QED  BY <4>1, <4>2, <4>3, <4>4
    <3>4. QED  BY <1>5, <2>1, <2>3, <3>1, <3>3
  <2>5. CASE l.op # "AND"
    <3>1. DOMAIN q.args = 1 .. 2 /\ q.args[1] = l /\ q.args[2] = r
      <4>1. Pair(q.args, l, r)
        BY <1>3, <2>1, <2>5, MergeArgs
      <4>2. QED  BY <4>1 DEF Pair
    <3>2. \A i : i \in 1 .. 2 <=> i = 1 \/ i = 2
      OBVIOUS
    <3>3. \A n : (\A i \in DOMAIN q.args : n \in Selects(text, q.args[i])) <=> n \in L \intersect R
      BY <1>4, <3>1, <3>2
    <3>4. QED  BY <1>5, <2>1, <2>3, <3>3
  <2>6. QED  BY <2>4, <2>5
<1>8. QED  BY <1>4, <1>6, <1>7

-----------------------------------------------------------------------------
(* A child attached *)

\* The child in every operand, as the only part, and in the part there is.
InOperands(q, c, d) == [q EXCEPT !.args = [i \in DOMAIN q.args |-> AttachContains(q.args[i], c, d)]]
AsPart(q, c, d)     == [q EXCEPT !.sub = <<c>>, !.direct = d]
InPart(q, c, d)     == [q EXCEPT !.sub = <<AttachContains(q.sub[1], c, d)>>]

\* What contains a child is, by what it was.
LEMMA AttachBy ==
  ASSUME NEW B \in Nat, NEW Q, Heights(Q, B), NEW a \in 0 .. B, NEW b \in 0 .. B, a + b <= B,
         NEW q \in Q[a], NEW c \in Q[b], NEW d \in BOOLEAN
  PROVE  /\ AttachContains(q, c, d).op = q.op
         /\ q.op \in {"AND", "OR"} => AttachContains(q, c, d) = InOperands(q, c, d)
         /\ q.op \notin {"AND", "OR"} /\ q.sub = <<>> => AttachContains(q, c, d) = AsPart(q, c, d)
         /\ q.op \notin {"AND", "OR"} /\ q.sub # <<>> => AttachContains(q, c, d) = InPart(q, c, d)
<1>1. PICK W : W = [i \in Children(q) |-> AttachContains(Child(q, i), c, d)]
  OBVIOUS
<1>2. AttachContains(q, c, d) = Attached(q, W, c, d)
  BY <1>1, AttachParts
<1>3. PICK X : q \in Shapes(X)
  BY ChildrenLower
<1>4. q \in [op: QueryOps, sel: QuerySels, sub: {<<>>} \union {<<x>> : x \in X}, direct: BOOLEAN, args: Seq(X)]
  BY <1>3 DEF Shapes
<1>5. PICK len \in Nat : DOMAIN q.args = 1 .. len
  BY <1>4, LenProperties
<1>6. CASE q.op \in {"AND", "OR"}
  <2>1. \A i \in DOMAIN q.args : W[i] = AttachContains(q.args[i], c, d)
    <3>1. \A i \in DOMAIN q.args : i \in Children(q) /\ i # 0
      BY <1>5 DEF Children
    <3>2. QED  BY <1>1, <3>1 DEF Child
  <2>2. Attached(q, W, c, d) = [q EXCEPT !.args = [i \in DOMAIN q.args |-> W[i]]]
    BY <1>6 DEF Attached
  <2>3. [i \in DOMAIN q.args |-> W[i]] = [i \in DOMAIN q.args |-> AttachContains(q.args[i], c, d)]
    BY <2>1
  <2>4. AttachContains(q, c, d) = InOperands(q, c, d)
    BY <1>2, <2>2, <2>3 DEF InOperands
  <2>5. InOperands(q, c, d).op = q.op
    BY <1>4 DEF InOperands
  <2>6. QED  BY <1>6, <2>4, <2>5
<1>7. CASE q.op \notin {"AND", "OR"} /\ q.sub = <<>>
  <2>1. AttachContains(q, c, d) = AsPart(q, c, d)
    BY <1>2, <1>7 DEF Attached, AsPart
  <2>2. AsPart(q, c, d).op = q.op
    BY <1>4 DEF AsPart
  <2>3. QED  BY <1>7, <2>1, <2>2
<1>8. CASE q.op \notin {"AND", "OR"} /\ q.sub # <<>>
  <2>1. 0 \in Children(q)
    BY <1>8 DEF Children
  <2>2. W[0] = AttachContains(q.sub[1], c, d)
    BY <1>1, <2>1 DEF Child
  <2>3. AttachContains(q, c, d) = InPart(q, c, d)
    BY <1>2, <1>8, <2>2 DEF Attached, InPart
  <2>4. InPart(q, c, d).op = q.op
    BY <1>4 DEF InPart
  <2>5. QED  BY <1>8, <2>3, <2>4
<1>9. QED  BY <1>6, <1>7, <1>8

\* (a > b) > c is a > (b > c).
LEMMA AttachAssociates ==
  ASSUME NEW B \in Nat, NEW Q, Heights(Q, B), NEW a \in 0 .. B, NEW b \in 0 .. B, NEW g \in 0 .. B,
         a + b + g <= B, NEW q \in Q[a], NEW c \in Q[b], NEW e \in Q[g],
         NEW d \in BOOLEAN, NEW d2 \in BOOLEAN
  PROVE  AttachContains(AttachContains(q, c, d), e, d2) = AttachContains(q, AttachContains(c, e, d2), d)
<1>1. PICK z : z = AttachContains(c, e, d2)
  OBVIOUS
<1>2. PICK bg \in 0 .. B : bg = b + g
  OBVIOUS
<1>3. z \in Q[bg]
  BY <1>1, <1>2, AttachRun
<1> DEFINE Assoc(p) == AttachContains(AttachContains(p, c, d), e, d2) = AttachContains(p, z, d)
           S == {k \in Nat : k <= a => \A p \in Q[k] : Assoc(p)}
<1>4. 0 \in S
  <2>1. 0 \in 0 .. B
    OBVIOUS
  <2>2. \A p \in Q[0] : FALSE
    BY <2>1, ChildrenLower
  <2>3. QED  BY <2>2
<1>5. ASSUME NEW k \in Nat, k \in S
      PROVE  k + 1 \in S
  <2>1. SUFFICES ASSUME k + 1 <= a, NEW p \in Q[k + 1]
                 PROVE  Assoc(p)
    OBVIOUS
  <2>2. PICK top \in 0 .. B, low \in 0 .. B : top = k + 1 /\ low = k /\ low = top - 1
    BY <2>1
  <2>3. p \in Q[top]
    BY <2>1, <2>2
  <2>4. p \in Shapes(Q[low]) /\ \A i \in Children(p) : i \in Nat /\ Child(p, i) \in Q[low]
    BY <2>2, <2>3, ChildrenLower
  <2>5. \A x \in Q[low] : Assoc(x)
    BY <1>5, <2>1, <2>2
  <2>6. PICK tb \in 0 .. B : tb = top + b /\ tb + g <= B /\ top + bg <= B /\ top + b <= B
    BY <1>2, <2>1, <2>2
  <2>7. PICK r : r = AttachContains(p, c, d)
    OBVIOUS
  <2>8. r \in Q[tb]
    BY <2>3, <2>6, <2>7, AttachRun
  <2>9. r.op = p.op
    BY <2>3, <2>6, <2>7, AttachBy
  <2>10. PICK X : X = Q[low]
    OBVIOUS
  <2>11. p \in [op: QueryOps, sel: QuerySels, sub: {<<>>} \union {<<x>> : x \in X}, direct: BOOLEAN, args: Seq(X)]
    BY <2>4, <2>10 DEF Shapes
  <2>12. CASE p.op \in {"AND", "OR"}
    <3>1. r = InOperands(p, c, d)
      BY <2>3, <2>6, <2>7, <2>12, AttachBy
    <3>2. AttachContains(r, e, d2) = InOperands(r, e, d2)
      BY <2>6, <2>8, <2>9, <2>12, AttachBy
    <3>3. AttachContains(p, z, d) = InOperands(p, z, d)
      BY <1>3, <2>3, <2>6, <2>12, AttachBy
    <3>4. PICK F : F = [i \in DOMAIN p.args |-> AttachContains(p.args[i], c, d)]
      OBVIOUS
    <3>5. PICK G : G = [i \in DOMAIN r.args |-> AttachContains(r.args[i], e, d2)]
      OBVIOUS
    <3>6. PICK H : H = [i \in DOMAIN p.args |-> AttachContains(p.args[i], z, d)]
      OBVIOUS
    <3>7. r = [p EXCEPT !.args = F] /\ r.args = F
      BY <2>11, <3>1, <3>4 DEF InOperands
    <3>8. \A i \in DOMAIN p.args : Assoc(p.args[i])
      <4>1. PICK len \in Nat : DOMAIN p.args = 1 .. len
        BY <2>11, LenProperties
      <4>2. \A i \in DOMAIN p.args : i \in Children(p) /\ i # 0
        BY <4>1 DEF Children
      <4>3. \A i \in DOMAIN p.args : Child(p, i) = p.args[i] /\ Child(p, i) \in Q[low]
        BY <2>4, <4>2 DEF Child
      <4>4. QED  BY <2>5, <4>3
    <3>9. G = H
      BY <3>4, <3>5, <3>6, <3>7, <3>8
    <3>10. AttachContains(r, e, d2) = [r EXCEPT !.args = G]
      BY <3>2, <3>5 DEF InOperands
    <3>11. AttachContains(p, z, d) = [p EXCEPT !.args = H]
      BY <3>3, <3>6 DEF InOperands
    <3>12. [r EXCEPT !.args = G] = [p EXCEPT !.args = G]
      BY <2>11, <3>7
    <3>13. QED  BY <2>7, <3>9, <3>10, <3>11, <3>12
  <2>13. CASE p.op \notin {"AND", "OR"} /\ p.sub = <<>>
    <3>1. r = AsPart(p, c, d)
      BY <2>3, <2>6, <2>7, <2>13, AttachBy
    <3>2. PICK s : s = <<c>>
      OBVIOUS
    <3>3. s # <<>> /\ s[1] = c
      BY <3>2
    <3>4. r = [p EXCEPT !.sub = s, !.direct = d] /\ r.sub = s
      BY <2>11, <3>1, <3>2 DEF AsPart
    <3>5. AttachContains(r, e, d2) = InPart(r, e, d2)
      <4>1. r.op \notin {"AND", "OR"} /\ r.sub # <<>>
        BY <2>9, <2>13, <3>3, <3>4
      <4>2. QED  BY <2>6, <2>8, <4>1, AttachBy
    <3>6. PICK t : t = <<z>>
      OBVIOUS
    <3>7. AttachContains(r, e, d2) = [r EXCEPT !.sub = t]
      BY <1>1, <3>3, <3>4, <3>5, <3>6 DEF InPart
    <3>8. AttachContains(p, z, d) = AsPart(p, z, d)
      BY <1>3, <2>3, <2>6, <2>13, AttachBy
    <3>9. AttachContains(p, z, d) = [p EXCEPT !.sub = t, !.direct = d]
      BY <3>6, <3>8 DEF AsPart
    <3>10. [r EXCEPT !.sub = t] = [p EXCEPT !.sub = t, !.direct = d]
      BY <2>11, <3>4
    <3>11. QED  BY <2>7, <3>7, <3>9, <3>10
  <2>14. CASE p.op \notin {"AND", "OR"} /\ p.sub # <<>>
    <3>1. PICK x \in Q[low] : p.sub[1] = x
      <4>1. 0 \in Children(p)
        BY <2>14 DEF Children
      <4>2. QED  BY <2>4, <4>1 DEF Child
    <3>2. PICK y : y = AttachContains(x, c, d)
      OBVIOUS
    <3>3. r = InPart(p, c, d)
      BY <2>3, <2>6, <2>7, <2>14, AttachBy
    <3>4. PICK s : s = <<y>>
      OBVIOUS
    <3>5. s # <<>> /\ s[1] = y
      BY <3>4
    <3>6. r = [p EXCEPT !.sub = s] /\ r.sub = s
      BY <2>11, <3>1, <3>2, <3>3, <3>4 DEF InPart
    <3>7. AttachContains(r, e, d2) = InPart(r, e, d2)
      <4>1. r.op \notin {"AND", "OR"} /\ r.sub # <<>>
        BY <2>9, <2>14, <3>5, <3>6
      <4>2. QED  BY <2>6, <2>8, <4>1, AttachBy
    <3>8. PICK t : t = <<AttachContains(y, e, d2)>>
      OBVIOUS
    <3>9. AttachContains(r, e, d2) = [r EXCEPT !.sub = t]
      BY <3>5, <3>6, <3>7, <3>8 DEF InPart
    <3>10. AttachContains(p, z, d) = InPart(p, z, d)
      BY <1>3, <2>3, <2>6, <2>14, AttachBy
    <3>11. AttachContains(y, e, d2) = AttachContains(x, z, d)
      BY <2>5, <3>2
    <3>12. AttachContains(p, z, d) = [p EXCEPT !.sub = t]
      BY <3>1, <3>8, <3>10, <3>11 DEF InPart
    <3>13. [r EXCEPT !.sub = t] = [p EXCEPT !.sub = t]
      BY <2>11, <3>6
    <3>14. QED  BY <2>7, <3>9, <3>12, <3>13
  <2>15. QED  BY <2>12, <2>13, <2>14
<1>6. Nat \subseteq S
  <2> HIDE DEF S
  <2>1. QED  BY <1>4, <1>5, Induct
<1>7. a \in S
  BY <1>6
<1>8. QED  BY <1>1, <1>7

\* Other operands.
LEMMA OtherArgs ==
  ASSUME NEW op, NEW args, NEW F
  PROVE  [Compound(op, args) EXCEPT !.args = F] = Compound(op, F)
<1>1. PICK sel, sub, direct : sel = [kind |-> "", name |-> ""] /\ sub = <<>> /\ direct = FALSE
  OBVIOUS
<1>2. \A x : Compound(op, x) = [op |-> op, sel |-> sel, sub |-> sub, direct |-> direct, args |-> x]
  BY <1>1 DEF Compound
<1>3. [[op |-> op, sel |-> sel, sub |-> sub, direct |-> direct, args |-> args] EXCEPT !.args = F]
      = [op |-> op, sel |-> sel, sub |-> sub, direct |-> direct, args |-> F]
  OBVIOUS
<1>4. QED  BY <1>2, <1>3

\* A child of a | b, or of a & b, is a child of both.
LEMMA AttachMerge ==
  ASSUME NEW B \in Nat, NEW Q, Heights(Q, B), NEW a \in 0 .. B, NEW b \in 0 .. B, NEW g \in 0 .. B,
         a + b + g <= B, NEW l \in Q[a], NEW r \in Q[b], NEW c \in Q[g], NEW d \in BOOLEAN,
         NEW op \in {"OR", "AND"}
  PROVE  AttachContains(MergeBinary(op, l, r), c, d)
         = MergeBinary(op, AttachContains(l, c, d), AttachContains(r, c, d))
<1>1. PICK top \in 0 .. B : top = a + b /\ a + b <= B /\ top + g <= B /\ a + g <= B /\ b + g <= B
  OBVIOUS
<1>2. PICK q : q = MergeBinary(op, l, r)
  OBVIOUS
<1>3. q \in Q[top]
  <2>1. op \in QueryOps
    BY DEF QueryOps
  <2>2. QED  BY <1>1, <1>2, <2>1, MergeTyped
<1>4. PICK args : args = IF l.op = op THEN Append(l.args, r) ELSE <<l, r>>
  OBVIOUS
<1>5. q = Compound(op, args) /\ q.op = op /\ q.args = args
  BY <1>2, <1>4 DEF MergeBinary, Compound
<1>6. PICK F : F = [i \in DOMAIN args |-> AttachContains(args[i], c, d)]
  OBVIOUS
<1>7. AttachContains(q, c, d) = Compound(op, F)
  <2>1. AttachContains(q, c, d) = InOperands(q, c, d)
    BY <1>1, <1>3, <1>5, AttachBy
  <2>2. InOperands(q, c, d) = [q EXCEPT !.args = F]
    BY <1>5, <1>6 DEF InOperands
  <2>3. [q EXCEPT !.args = F] = Compound(op, F)
    BY <1>5, OtherArgs
  <2>4. QED  BY <2>1, <2>2, <2>3
<1>8. PICK al, ar : al = AttachContains(l, c, d) /\ ar = AttachContains(r, c, d)
  OBVIOUS
<1>9. al.op = l.op
  BY <1>1, <1>8, AttachBy
<1>10. CASE l.op = op
  <2>1. al = InOperands(l, c, d)
    BY <1>1, <1>8, <1>10, AttachBy
  <2>2. PICK Y : l.args \in Seq(Y)
    <3>1. PICK Z : l \in Shapes(Z)
      BY ChildrenLower
    <3>2. l.args \in Seq(Z)
      BY <3>1 DEF Shapes
    <3>3. QED  BY <3>2
  <2>3. PICK X : X = Y \union {r}
    OBVIOUS
  <2>4. PICK s \in Seq(X) : s = l.args
    BY <2>2, <2>3, SeqMonotonic
  <2>5. PICK len \in Nat : len = Len(s) /\ DOMAIN s = 1 .. len
    BY LenProperties
  <2>6. args = Append(s, r) /\ r \in X
    BY <1>4, <1>10, <2>3, <2>4
  <2>7. /\ args \in Seq(X) /\ Len(args) = len + 1
        /\ \A i \in 1 .. len : args[i] = s[i]
        /\ args[len + 1] = r
    BY <2>5, <2>6, AppendProperties
  <2>8. DOMAIN args = 1 .. len + 1
    BY <2>7, LenProperties
  <2>9. PICK t : t = [i \in 1 .. len |-> AttachContains(s[i], c, d)]
    OBVIOUS
  <2>10. al.args = t
    <3>1. PICK Z : l \in Shapes(Z)
      BY ChildrenLower
    <3>2. l \in [op: QueryOps, sel: QuerySels, sub: {<<>>} \union {<<x>> : x \in Z}, direct: BOOLEAN, args: Seq(Z)]
      BY <3>1 DEF Shapes
    <3>3. InOperands(l, c, d) = [l EXCEPT !.args = t]
      BY <2>4, <2>5, <2>9 DEF InOperands
    <3>4. QED  BY <2>1, <3>2, <3>3
  <2>11. PICK E : E = {t[i] : i \in 1 .. len} \union {ar}
    OBVIOUS
  <2>12. t \in Seq(E)
    <3>1. t \in [1 .. len -> E]
      BY <2>9, <2>11
    <3>2. QED  BY <3>1, SeqDef
  <2>13. Len(t) = len
    <3>1. DOMAIN t = 1 .. len
      BY <2>9
    <3>2. QED  BY <2>12, <3>1, LenProperties
  <2>14. /\ Append(t, ar) \in Seq(E) /\ Len(Append(t, ar)) = len + 1
         /\ \A i \in 1 .. len : Append(t, ar)[i] = t[i]
         /\ Append(t, ar)[len + 1] = ar
    BY <2>11, <2>12, <2>13, AppendProperties
  <2>15. PICK u : u = Append(t, ar)
    OBVIOUS
  <2>16. u \in [1 .. len + 1 -> E]
    BY <2>14, <2>15, LenProperties
  <2>17. ASSUME NEW i \in 1 .. len + 1
         PROVE  F[i] = u[i]
    <3>1. F[i] = AttachContains(args[i], c, d)
      BY <1>6, <2>8
    <3>2. CASE i = len + 1
      BY <1>8, <2>7, <2>14, <2>15, <3>1, <3>2
    <3>3. CASE i # len + 1
      <4>1. i \in 1 .. len
        BY <3>3
      <4>2. QED  BY <2>7, <2>9, <2>14, <2>15, <3>1, <4>1
    <3>4. QED  BY <3>2, <3>3
  <2>18. F = u
    <3>1. F = [i \in 1 .. len + 1 |-> F[i]]
      BY <1>6, <2>8
    <3>2. u = [i \in 1 .. len + 1 |-> u[i]]
      BY <2>16
    <3>3. QED  BY <2>17, <3>1, <3>2
  <2>19. MergeBinary(op, al, ar) = Compound(op, u)
    BY <1>9, <1>10, <2>10, <2>15 DEF MergeBinary
  <2>20. QED  BY <1>2, <1>7, <1>8, <2>18, <2>19
<1>11. CASE l.op # op
  <2>1. args = <<l, r>>
    BY <1>4, <1>11
  <2>2. DOMAIN args = 1 .. 2 /\ args[1] = l /\ args[2] = r
    BY <2>1
  <2>3. F = [i \in 1 .. 2 |-> IF i = 1 THEN al ELSE ar]
    BY <1>6, <1>8, <2>2
  <2>4. PICK u : u = <<al, ar>>
    OBVIOUS
  <2>5. u = [i \in 1 .. 2 |-> IF i = 1 THEN al ELSE ar]
    BY <2>4
  <2>6. MergeBinary(op, al, ar) = Compound(op, u)
    BY <1>9, <1>11, <2>4 DEF MergeBinary
  <2>7. QED  BY <1>2, <1>7, <1>8, <2>3, <2>5, <2>6
<1>12. QED  BY <1>10, <1>11

-----------------------------------------------------------------------------
(* Queries that contain a child in every part *)

\* A direct child is a query of one selector.
Fits(d, c) == d => c.op = ""

\* A query that contains a child in every part of it: it selects what it
\* selected and has the child.
Plain(text, Q, B, a, q) ==
  \A b \in 0 .. B : a + b <= B =>
    \A c \in Q[b] : \A d \in BOOLEAN : Fits(d, c) =>
      Selects(text, AttachContains(q, c, d)) = Selects(text, q) \intersect Has(text, d, Selects(text, c))

\* A query of one token is plain.
LEMMA PlainSimple ==
  ASSUME NEW B \in Nat, NEW Q, Heights(Q, B), NEW a \in 1 .. B, NEW t \in DOMAIN Selector,
         NEW text \in Seq(Symbols)
  PROVE  Plain(text, Q, B, a, Simple(t)) /\ Selects(text, Simple(t)) = Named(text, Selector[t])
<1>1. PICK q : q = Simple(t)
  OBVIOUS
<1>2. q \in Q[1] /\ 1 \in 0 .. B
  <2>1. B # 0 /\ 1 \in 0 .. B
    OBVIOUS
  <2>2. QED  BY <1>1, <2>1, SimpleTyped
<1>3. q.op = "" /\ q.sub = <<>> /\ q.sel = Selector[t]
  BY <1>1 DEF Simple
<1>4. Selects(text, q) = Named(text, Selector[t])
  <2>1. Selects(text, q) = Named(text, q.sel)
    BY <1>2, <1>3, SelectsBy
  <2>2. QED  BY <1>3, <2>1
<1>5. ASSUME NEW b \in 0 .. B, a + b <= B, NEW c \in Q[b], NEW d \in BOOLEAN, Fits(d, c)
      PROVE  Selects(text, AttachContains(q, c, d)) = Selects(text, q) \intersect Has(text, d, Selects(text, c))
  <2>1. PICK top \in 0 .. B : top = 1 + b /\ 1 + b <= B
    BY <1>5
  <2>2. PICK r : r = AttachContains(q, c, d)
    OBVIOUS
  <2>3. r \in Q[top] /\ r.op = ""
    <3>1. r \in Q[1 + b]
      BY <1>2, <2>1, <2>2, AttachRun
    <3>2. r.op = q.op
      BY <1>2, <2>1, <2>2, AttachBy
    <3>3. QED  BY <1>3, <2>1, <3>1, <3>2
  <2>4. r = AsPart(q, c, d)
    <3>1. q.op \notin {"AND", "OR"} /\ q.sub = <<>>
      BY <1>3
    <3>2. QED  BY <1>2, <2>1, <2>2, <3>1, AttachBy
  <2>5. PICK s : s = <<c>>
    OBVIOUS
  <2>6. s # <<>> /\ s[1] = c
    BY <2>5
  <2>7. r.sub = s /\ r.direct = d /\ r.sel = q.sel
    <3>1. PICK X : q \in Shapes(X)
      BY <1>2, ChildrenLower
    <3>2. q \in [op: QueryOps, sel: QuerySels, sub: {<<>>} \union {<<x>> : x \in X}, direct: BOOLEAN, args: Seq(X)]
      BY <3>1 DEF Shapes
    <3>3. r = [q EXCEPT !.sub = s, !.direct = d]
      BY <2>4, <2>5 DEF AsPart
    <3>4. QED  BY <3>2, <3>3
  <2>8. Selects(text, r) = Named(text, r.sel) \intersect HasPart(text, r)
    BY <2>3, <2>6, <2>7, SelectsBy
  <2>9. Containing(text, r, [i \in {0} |-> Selects(text, c)]) = Has(text, d, Selects(text, c))
    <3>1. PICK A : A = [i \in {0} |-> Selects(text, c)]
      OBVIOUS
    <3>2. A[0] = Selects(text, c)
      BY <3>1
    <3>3. CASE d
      <4>0. c.op = ""
        BY <1>5, <3>3 DEF Fits
      <4>1. {m \in Named(text, c.sel) : c.sub # <<>> => m \in A[0]} = Selects(text, c)
        <5>1. CASE c.sub = <<>>
          <6>1. Selects(text, c) = Named(text, c.sel)
            BY <4>0, <5>1, SelectsBy
          <6>2. QED  BY <5>1, <6>1
        <5>2. CASE c.sub # <<>>
          <6>1. Selects(text, c) = Named(text, c.sel) \intersect HasPart(text, c)
            BY <4>0, <5>2, SelectsBy
          <6>2. QED  BY <3>2, <5>2, <6>1
        <5>3. QED  BY <5>1, <5>2
      <4>2. Containing(text, r, A) = Has(text, TRUE, {m \in Named(text, c.sel) : c.sub # <<>> => m \in A[0]})
        <5>1. r.direct
          BY <2>7, <3>3
        <5>2. r.sub[1] = c
          BY <2>6, <2>7
        <5>3. QED  BY <5>1, <5>2 DEF Containing
      <4>3. d = TRUE
        BY <3>3
      <4>4. QED  BY <3>1, <4>1, <4>2, <4>3
    <3>4. CASE ~d
      <4>1. ~r.direct
        BY <2>7, <3>4
      <4>2. Containing(text, r, A) = Has(text, FALSE, A[0])
        BY <4>1 DEF Containing
      <4>3. d = FALSE
        BY <3>4
      <4>4. QED  BY <3>1, <3>2, <4>2, <4>3
    <3>5. QED  BY <3>3, <3>4
  <2>10. HasPart(text, r) = Has(text, d, Selects(text, c))
    BY <2>6, <2>7, <2>9 DEF HasPart
  <2>11. QED  BY <1>3, <1>4, <2>2, <2>7, <2>8, <2>10
<1>6. QED  BY <1>1, <1>4, <1>5 DEF Plain

\* What is plain in a height is plain in every greater one.
LEMMA PlainGrow ==
  ASSUME NEW B \in Nat, NEW Q, NEW a \in 0 .. B, NEW k \in a .. B, NEW q, NEW text,
         Plain(text, Q, B, a, q)
  PROVE  Plain(text, Q, B, k, q)
<1>1. \A b \in 0 .. B : k + b <= B => a + b <= B
  OBVIOUS
<1>2. QED  BY <1>1 DEF Plain

\* Operands of | or & are plain together if they are plain.
LEMMA PlainMerge ==
  ASSUME NEW B \in Nat, NEW Q, Heights(Q, B), NEW a \in 0 .. B, NEW b \in 0 .. B, a + b <= B,
         NEW l \in Q[a], NEW r \in Q[b], NEW text \in Seq(Symbols), NEW op \in {"OR", "AND"},
         Plain(text, Q, B, a, l), Plain(text, Q, B, b, r)
  PROVE  Plain(text, Q, B, a + b, MergeBinary(op, l, r))
<1>1. PICK top \in 0 .. B : top = a + b
  OBVIOUS
<1>2. PICK q : q = MergeBinary(op, l, r)
  OBVIOUS
<1>3. q \in Q[top]
  <2>1. op \in QueryOps
    BY DEF QueryOps
  <2>2. QED  BY <1>1, <1>2, <2>1, MergeTyped
<1>4. ASSUME NEW g \in 0 .. B, top + g <= B, NEW c \in Q[g], NEW d \in BOOLEAN, Fits(d, c)
      PROVE  Selects(text, AttachContains(q, c, d)) = Selects(text, q) \intersect Has(text, d, Selects(text, c))
  <2>1. PICK ag \in 0 .. B, bg \in 0 .. B, tg \in 0 .. B :
          /\ ag = a + g /\ bg = b + g /\ tg = top + g
          /\ a + g <= B /\ b + g <= B /\ a + b + g <= B
    BY <1>1, <1>4
  <2>2. PICK al, ar : al = AttachContains(l, c, d) /\ ar = AttachContains(r, c, d)
    OBVIOUS
  <2>3. al \in Q[ag] /\ ar \in Q[bg]
    BY <2>1, <2>2, AttachRun
  <2>4. AttachContains(q, c, d) \in Q[tg]
    BY <1>3, <1>4, <2>1, AttachRun
  <2>5. AttachContains(q, c, d) = MergeBinary(op, al, ar)
    BY <1>2, <2>1, <2>2, AttachMerge
  <2>6. PICK H, L, R : H = Has(text, d, Selects(text, c)) /\ L = Selects(text, l) /\ R = Selects(text, r)
    OBVIOUS
  <2>7. Selects(text, al) = L \intersect H
    BY <1>4, <2>1, <2>2, <2>6 DEF Plain
  <2>8. Selects(text, ar) = R \intersect H
    BY <1>4, <2>1, <2>2, <2>6 DEF Plain
  <2>9. CASE op = "OR"
    <3>1. Selects(text, q) = L \union R
      BY <1>2, <1>3, <2>6, <2>9, MergeSelects
    <3>2. Selects(text, MergeBinary(op, al, ar)) = (L \intersect H) \union (R \intersect H)
      BY <2>3, <2>4, <2>5, <2>7, <2>8, <2>9, MergeSelects
    <3>3. QED  BY <2>5, <2>6, <3>1, <3>2
  <2>10. CASE op = "AND"
    <3>1. Selects(text, q) = L \intersect R
      BY <1>2, <1>3, <2>6, <2>10, MergeSelects
    <3>2. Selects(text, MergeBinary(op, al, ar)) = (L \intersect H) \intersect (R \intersect H)
      BY <2>3, <2>4, <2>5, <2>7, <2>8, <2>10, MergeSelects
    <3>3. QED  BY <2>5, <2>6, <3>1, <3>2
  <2>11. QED  BY <2>9, <2>10
<1>5. QED  BY <1>1, <1>2, <1>4 DEF Plain

\* What an operator means.
Joined(text, level, token, L, R) ==
  CASE level = "or"       -> L \union R
    [] level = "and"      -> L \intersect R
    [] level = "contains" -> L \intersect Has(text, token = ">>", R)

\* Two operands select what the operator between them means.
LEMMA CombineSelects ==
  ASSUME NEW B \in Nat, NEW Q, Heights(Q, B), NEW a \in 0 .. B, NEW b \in 0 .. B, a + b <= B,
         NEW l \in Q[a], NEW r \in Q[b], NEW text \in Seq(Symbols), NEW token,
         NEW level \in {"or", "and", "contains"},
         level = "contains" => Plain(text, Q, B, a, l) /\ Fits(token = ">>", r)
  PROVE  Selects(text, Combine(level, l, token, r))
         = Joined(text, level, token, Selects(text, l), Selects(text, r))
<1>1. PICK top \in 0 .. B : top = a + b
  OBVIOUS
<1>2. Combine(level, l, token, r) \in Q[top]
  BY <1>1, CombineTyped
<1>3. CASE level = "or"
  <2>1. Combine(level, l, token, r) = MergeBinary("OR", l, r)
    BY <1>3 DEF Combine
  <2>2. Selects(text, MergeBinary("OR", l, r)) = Selects(text, l) \union Selects(text, r)
    BY <1>2, <2>1, MergeSelects
  <2>3. QED  BY <1>3, <2>1, <2>2 DEF Joined
<1>4. CASE level = "and"
  <2>1. Combine(level, l, token, r) = MergeBinary("AND", l, r)
    BY <1>4 DEF Combine
  <2>2. Selects(text, MergeBinary("AND", l, r)) = Selects(text, l) \intersect Selects(text, r)
    BY <1>2, <2>1, MergeSelects
  <2>3. QED  BY <1>4, <2>1, <2>2 DEF Joined
<1>5. CASE level = "contains"
  <2>1. PICK d \in BOOLEAN : d = (token = ">>")
    <3>1. CASE token = ">>"
      BY <3>1
    <3>2. CASE token # ">>"
      BY <3>2
    <3>3. QED  BY <3>1, <3>2
  <2>2. Combine(level, l, token, r) = AttachContains(l, r, d)
    BY <1>5, <2>1 DEF Combine
  <2>3. Fits(d, r)
    BY <1>5, <2>1
  <2>4. Selects(text, AttachContains(l, r, d)) = Selects(text, l) \intersect Has(text, d, Selects(text, r))
    BY <1>5, <2>3 DEF Plain
  <2>5. QED  BY <1>5, <2>1, <2>2, <2>4 DEF Joined
<1>6. QED  BY <1>3, <1>4, <1>5

\* Operands may be taken from the right as well as from the left.
LEMMA CombineAssociates ==
  ASSUME NEW B \in Nat, NEW Q, Heights(Q, B), NEW a \in 0 .. B, NEW b \in 0 .. B, NEW g \in 0 .. B,
         a + b + g <= B, NEW l \in Q[a], NEW r \in Q[b], NEW c \in Q[g],
         NEW text \in Seq(Symbols), NEW t, NEW t2, NEW level \in {"or", "and", "contains"}
  PROVE  Selects(text, Combine(level, Combine(level, l, t, r), t2, c))
         = Selects(text, Combine(level, l, t, Combine(level, r, t2, c)))
<1>1. PICK ab \in 0 .. B, bg \in 0 .. B :
        /\ ab = a + b /\ bg = b + g /\ a + b <= B /\ b + g <= B /\ ab + g <= B /\ a + bg <= B
  OBVIOUS
<1>2. PICK x, y : x = Combine(level, l, t, r) /\ y = Combine(level, r, t2, c)
  OBVIOUS
<1>3. x \in Q[ab] /\ y \in Q[bg]
  BY <1>1, <1>2, CombineTyped
<1>4. CASE level \in {"or", "and"}
  <2>1. level # "contains"
    BY <1>4
  <2>2. PICK L, R, C : L = Selects(text, l) /\ R = Selects(text, r) /\ C = Selects(text, c)
    OBVIOUS
  <2>3. Selects(text, x) = Joined(text, level, t, L, R)
    BY <1>1, <1>2, <2>1, <2>2, CombineSelects
  <2>4. Selects(text, y) = Joined(text, level, t2, R, C)
    BY <1>1, <1>2, <2>1, <2>2, CombineSelects
  <2>5. Selects(text, Combine(level, x, t2, c)) = Joined(text, level, t2, Joined(text, level, t, L, R), C)
    BY <1>1, <1>3, <2>1, <2>2, <2>3, CombineSelects
  <2>6. Selects(text, Combine(level, l, t, y)) = Joined(text, level, t, L, Joined(text, level, t2, R, C))
    BY <1>1, <1>3, <2>1, <2>2, <2>4, CombineSelects
  <2>7. Joined(text, level, t2, Joined(text, level, t, L, R), C)
        = Joined(text, level, t, L, Joined(text, level, t2, R, C))
    <3>1. CASE level = "or"
      BY <3>1 DEF Joined
    <3>2. CASE level = "and"
      BY <3>2 DEF Joined
    <3>3. QED  BY <1>4, <3>1, <3>2
  <2>8. QED  BY <1>2, <2>5, <2>6, <2>7
<1>5. CASE level = "contains"
  <2>1. \A z : \E d \in BOOLEAN : d = (z = ">>")
    <3>1. ASSUME NEW z
          PROVE  \E d \in BOOLEAN : d = (z = ">>")
      <4>1. CASE z = ">>"
        BY <4>1
      <4>2. CASE z # ">>"
        BY <4>2
      <4>3. QED  BY <4>1, <4>2
    <3>2. QED  BY <3>1
  <2>2. PICK d \in BOOLEAN : d = (t = ">>")
    BY <2>1
  <2>3. PICK d2 \in BOOLEAN : d2 = (t2 = ">>")
    BY <2>1
  <2>4. /\ x = AttachContains(l, r, d) /\ y = AttachContains(r, c, d2)
        /\ Combine(level, x, t2, c) = AttachContains(x, c, d2)
        /\ Combine(level, l, t, y) = AttachContains(l, y, d)
    BY <1>2, <1>5, <2>2, <2>3 DEF Combine
  <2>5. AttachContains(AttachContains(l, r, d), c, d2) = AttachContains(l, AttachContains(r, c, d2), d)
    <3>1. \A p \in BOOLEAN : \A z \in BOOLEAN :
            AttachContains(AttachContains(l, r, p), c, z) = AttachContains(l, AttachContains(r, c, z), p)
      BY AttachAssociates
    <3>2. QED  BY <3>1
  <2>6. QED  BY <1>2, <2>4, <2>5
<1>6. QED  BY <1>4, <1>5

-----------------------------------------------------------------------------
(* The parts of a selector, and the parentheses in them *)

\* Parentheses that are open after the first k tokens.
Occurring(ts, token, k) == {i \in 1 .. k : ts[i] = token}
Nest(ts, k) == Cardinality(Occurring(ts, "(", k)) - Cardinality(Occurring(ts, ")", k))
Weight(token) == IF token = "(" THEN 1 ELSE IF token = ")" THEN -1 ELSE 0

\* One token more.
LEMMA OccurringNext ==
  ASSUME NEW ts, NEW token, NEW k \in Nat
  PROVE  /\ Cardinality(Occurring(ts, token, k)) \in Nat
         /\ Cardinality(Occurring(ts, token, k + 1))
            = Cardinality(Occurring(ts, token, k)) + (IF ts[k + 1] = token THEN 1 ELSE 0)
<1>1. PICK S : S = Occurring(ts, token, k)
  OBVIOUS
<1>2. IsFiniteSet(1 .. k)
  BY FS_Interval
<1>3. S \subseteq 1 .. k
  BY <1>1 DEF Occurring
<1>4. IsFiniteSet(S)
  BY <1>2, <1>3, FS_Subset
<1>5. Cardinality(S) \in Nat
  BY <1>4, FS_CardinalityType
<1>6. \A i : i \in 1 .. k + 1 <=> i \in 1 .. k \/ i = k + 1
  OBVIOUS
<1>7. k + 1 \notin S
  BY <1>3
<1>8. CASE ts[k + 1] = token
  <2>1. Occurring(ts, token, k + 1) = S \union {k + 1}
    BY <1>1, <1>6, <1>8 DEF Occurring
  <2>2. Cardinality(S \union {k + 1}) = Cardinality(S) + 1
    BY <1>4, <1>7, FS_AddElement
  <2>3. QED  BY <1>1, <1>5, <1>8, <2>1, <2>2
<1>9. CASE ts[k + 1] # token
  <2>1. Occurring(ts, token, k + 1) = S
    BY <1>1, <1>6, <1>9 DEF Occurring
  <2>2. QED  BY <1>1, <1>5, <1>9, <2>1
<1>10. QED  BY <1>8, <1>9

\* A token opens a parenthesis, closes one, or neither.
LEMMA NestNext ==
  ASSUME NEW ts, NEW k \in Nat
  PROVE  Nest(ts, k) \in Int /\ Nest(ts, k + 1) = Nest(ts, k) + Weight(ts[k + 1])
<1>1. PICK a \in Nat, b \in Nat : /\ a = Cardinality(Occurring(ts, "(", k))
                                  /\ b = Cardinality(Occurring(ts, ")", k))
  BY OccurringNext
<1>2. Nest(ts, k) = a - b
  BY <1>1 DEF Nest
<1>3. PICK c, d : c = Cardinality(Occurring(ts, "(", k + 1)) /\ d = Cardinality(Occurring(ts, ")", k + 1))
  OBVIOUS
<1>4. c = a + (IF ts[k + 1] = "(" THEN 1 ELSE 0)
  BY <1>1, <1>3, OccurringNext
<1>5. d = b + (IF ts[k + 1] = ")" THEN 1 ELSE 0)
  BY <1>1, <1>3, OccurringNext
<1>6. Nest(ts, k + 1) = c - d
  BY <1>3 DEF Nest
<1>7. QED  BY <1>2, <1>4, <1>5, <1>6 DEF Weight

\* The tokens from i to before k.
Part(ts, i, k) == SubSeq(ts, i, k - 1)

\* The tokens of a part are those of the selector from there on.
LEMMA PartTokens ==
  ASSUME NEW ts \in Seq(Tokens), NEW i \in 1 .. Len(ts), NEW k \in i + 1 .. Len(ts) + 1
  PROVE  /\ Part(ts, i, k) \in Seq(Tokens) /\ Len(Part(ts, i, k)) = k - i
         /\ DOMAIN Part(ts, i, k) = 1 .. k - i /\ Part(ts, i, k) # <<>>
         /\ \A m \in 1 .. k - i : Part(ts, i, k)[m] = ts[(i - 1) + m]
<1>1. PICK len \in Nat : len = Len(ts)
  BY LenProperties
<1>2. PICK s : s = SubSeq(ts, i, k - 1)
  OBVIOUS
<1>3. i \in 1 .. len /\ k \in i + 1 .. len + 1 /\ k - 1 \in Int /\ i <= k - 1
  BY <1>1
<1>4. \A m \in i .. k - 1 : ts[m] \in Tokens
  <2>1. \A m \in i .. k - 1 : m \in 1 .. len
    BY <1>3
  <2>2. QED  BY <1>1, <2>1, ElementOfSeq
<1>5. /\ s \in Seq(Tokens) /\ Len(s) = (IF i <= k - 1 THEN (k - 1) - i + 1 ELSE 0)
      /\ \A m \in 1 .. (k - 1) - i + 1 : s[m] = ts[i + m - 1]
  BY <1>2, <1>3, <1>4, SubSeqProperties
<1>6. (k - 1) - i + 1 = k - i
  BY <1>3
<1>7. Len(s) = k - i
  BY <1>3, <1>5, <1>6
<1>8. \A m \in 1 .. k - i : s[m] = ts[(i - 1) + m]
  <2>1. \A m \in 1 .. k - i : i + m - 1 = (i - 1) + m
    BY <1>3
  <2>2. QED  BY <1>5, <1>6, <2>1
<1>9. DOMAIN s = 1 .. k - i
  BY <1>5, <1>7, LenProperties
<1>10. s # <<>>
  <2>1. k - i # 0
    BY <1>3
  <2>2. QED  BY <1>7, <2>1, EmptySeq
<1>11. QED  BY <1>2, <1>5, <1>7, <1>8, <1>9, <1>10 DEF Part

\* Parentheses open within a part.
LEMMA PartNest ==
  ASSUME NEW ts \in Seq(Tokens), NEW i \in 1 .. Len(ts), NEW k \in i + 1 .. Len(ts) + 1
  PROVE  \A m \in 0 .. k - i : Nest(Part(ts, i, k), m) = Nest(ts, (i - 1) + m) - Nest(ts, i - 1)
<1>1. PICK len \in Nat : len = Len(ts)
  BY LenProperties
<1>2. PICK s : s = Part(ts, i, k)
  OBVIOUS
<1>3. PICK p \in Nat : p = i - 1
  BY <1>1
<1>4. PICK w \in Nat : w = k - i
  BY <1>1
<1>5. \A m \in 1 .. w : s[m] = ts[p + m]
  BY <1>2, <1>3, <1>4, PartTokens
<1> DEFINE S == {m \in Nat : m <= w => Nest(s, m) = Nest(ts, p + m) - Nest(ts, p)}
<1>6. \A n \in Nat : Nest(ts, n) \in Int /\ Nest(s, n) \in Int
  BY NestNext
<1>7. 0 \in S
  <2>1. Occurring(s, "(", 0) = {} /\ Occurring(s, ")", 0) = {}
    BY DEF Occurring
  <2>2. Cardinality({}) = 0
    BY FS_EmptySet
  <2>3. Nest(s, 0) = 0
    <3>1. Nest(s, 0) = Cardinality({}) - Cardinality({})
      BY <2>1 DEF Nest
    <3>2. QED  BY <2>2, <3>1
  <2>4. p + 0 = p /\ Nest(ts, p) \in Int
    BY <1>6
  <2>5. QED  BY <2>3, <2>4
<1>8. ASSUME NEW m \in Nat, m \in S
      PROVE  m + 1 \in S
  <2>1. SUFFICES ASSUME m + 1 <= w
                 PROVE  Nest(s, m + 1) = Nest(ts, p + (m + 1)) - Nest(ts, p)
    OBVIOUS
  <2>2. Nest(s, m) = Nest(ts, p + m) - Nest(ts, p)
    BY <1>8, <2>1
  <2>3. s[m + 1] = ts[p + (m + 1)]
    BY <1>5, <2>1
  <2>4. PICK v : v = Weight(s[m + 1])
    OBVIOUS
  <2>5. v \in Int
    BY <2>4 DEF Weight
  <2>6. Nest(s, m + 1) = Nest(s, m) + v
    BY <2>4, NestNext
  <2>7. Nest(ts, (p + m) + 1) = Nest(ts, p + m) + Weight(ts[(p + m) + 1])
    <3>1. p + m \in Nat
      OBVIOUS
    <3>2. QED  BY <3>1, NestNext
  <2>8. (p + m) + 1 = p + (m + 1)
    OBVIOUS
  <2>9. Nest(ts, p + (m + 1)) = Nest(ts, p + m) + v
    BY <2>3, <2>4, <2>7, <2>8
  <2>10. PICK x \in Int, y \in Int : x = Nest(ts, p + m) /\ y = Nest(ts, p)
    <3>1. p + m \in Nat
      OBVIOUS
    <3>2. QED  BY <1>6, <3>1
  <2>11. Nest(s, m + 1) = (x - y) + v /\ Nest(ts, p + (m + 1)) = x + v
    BY <2>2, <2>6, <2>9, <2>10
  <2>12. (x - y) + v = (x + v) - y
    BY <2>5
  <2>13. QED  BY <2>10, <2>11, <2>12
<1>9. Nat \subseteq S
  <2> HIDE DEF S
  <2>1. QED  BY <1>7, <1>8, Induct
<1>10. \A m \in 0 .. w : Nest(s, m) = Nest(ts, p + m) - Nest(ts, p)
  BY <1>9
<1>11. QED  BY <1>2, <1>3, <1>4, <1>10

\* The operators of ops that are in no parentheses of the part from i to before k.
Tops(ts, i, k, ops) == {m \in i .. k - 1 : ts[m] \in ops /\ Nest(ts, m) = Nest(ts, i - 1)}

\* They are the outermost ones of that part.
LEMMA PartOutermost ==
  ASSUME NEW ts \in Seq(Tokens), NEW i \in 1 .. Len(ts), NEW k \in i + 1 .. Len(ts) + 1, NEW ops
  PROVE  \A m \in Int : m \in Outermost(Part(ts, i, k), ops) <=> (i - 1) + m \in Tops(ts, i, k, ops)
<1>1. PICK len \in Nat : len = Len(ts)
  BY LenProperties
<1>2. PICK s : s = Part(ts, i, k)
  OBVIOUS
<1>3. PICK w \in Nat, p \in Nat : w = k - i /\ p = i - 1
  BY <1>1
<1>4. DOMAIN s = 1 .. w /\ \A m \in 1 .. w : s[m] = ts[p + m]
  BY <1>2, <1>3, PartTokens
<1>5. \A m \in 0 .. w : Nest(s, m) = Nest(ts, p + m) - Nest(ts, p)
  BY <1>2, <1>3, PartNest
<1>6. ASSUME NEW m \in 1 .. w
      PROVE  m \in Outermost(s, ops) <=> p + m \in Tops(ts, i, k, ops)
  <2>1. PICK a \in Nat, b \in Nat : /\ a = Cardinality(Occurring(s, "(", m))
                                    /\ b = Cardinality(Occurring(s, ")", m))
    BY OccurringNext
  <2>2. m \in Outermost(s, ops) <=> s[m] \in ops /\ a = b
    BY <1>4, <2>1 DEF Outermost, Occurring
  <2>3. Nest(s, m) = a - b
    BY <2>1 DEF Nest
  <2>4. PICK x \in Int, y \in Int : x = Nest(ts, p + m) /\ y = Nest(ts, p)
    <3>1. p + m \in Nat
      OBVIOUS
    <3>2. QED  BY <3>1, NestNext
  <2>5. a = b <=> x = y
    <3>1. a - b = x - y
      BY <1>5, <2>3, <2>4
    <3>2. QED  BY <3>1
  <2>6. p + m \in i .. k - 1
    BY <1>1, <1>3
  <2>7. p + m \in Tops(ts, i, k, ops) <=> ts[p + m] \in ops /\ x = y
    BY <1>3, <2>4, <2>6 DEF Tops
  <2>8. QED  BY <1>4, <2>2, <2>5, <2>7
<1>7. ASSUME NEW m \in Int, m \notin 1 .. w
      PROVE  m \notin Outermost(s, ops) /\ p + m \notin Tops(ts, i, k, ops)
  <2>1. m \notin Outermost(s, ops)
    BY <1>4, <1>7 DEF Outermost
  <2>2. p + m \notin i .. k - 1
    BY <1>1, <1>3, <1>7
  <2>3. QED  BY <2>1, <2>2 DEF Tops
<1>8. QED  BY <1>2, <1>3, <1>6, <1>7

-----------------------------------------------------------------------------
(* Recursion with no common bound *)

\* A recursion over what has no common bound.
Ranked(D, rank, V, F) ==
  /\ \A d \in D : rank[d] \in Nat
  /\ \A d \in D : \A w \in Givens(D, rank, V, d) : F[d][w] \in V[d]

\* It defines its values too: below every bound it does, and these agree.
LEMMA RankedDefines ==
  ASSUME NEW D, NEW rank, NEW V, NEW F, Ranked(D, rank, V, F)
  PROVE  \E f : Defined(f, D, rank, F) /\ Typed(f, D, V)
<1>0. \A d \in D : rank[d] \in Nat
  BY DEF Ranked
<1> DEFINE To(n) == {d \in D : rank[d] < n}
           Steps(f, n) == Defined(f, To(n), rank, F) /\ Typed(f, To(n), V)
<1>1. ASSUME NEW n \in Nat, NEW d \in To(n)
      PROVE  Lower(To(n), rank, d) = Lower(D, rank, d)
  BY <1>0 DEF Lower
<1>2. ASSUME NEW n \in Nat
      PROVE  \E f : Steps(f, n)
  <2>1. ASSUME NEW d \in To(n), NEW w \in Givens(To(n), rank, V, d)
        PROVE  F[d][w] \in V[d]
    <3>1. w \in [Lower(D, rank, d) -> UNION {V[e] : e \in To(n)}]
      BY <1>1 DEF Givens
    <3>2. UNION {V[e] : e \in To(n)} \subseteq UNION {V[e] : e \in D}
      OBVIOUS
    <3>3. w \in [Lower(D, rank, d) -> UNION {V[e] : e \in D}]
      BY <3>1, <3>2
    <3>4. \A e \in Lower(D, rank, d) : w[e] \in V[e]
      BY <1>1 DEF Givens
    <3>5. w \in Givens(D, rank, V, d)
      BY <3>3, <3>4 DEF Givens
    <3>6. QED  BY <3>5 DEF Ranked
  <2>2. \A d \in To(n) : rank[d] \in 0 .. n - 1
    BY <1>0
  <2> HIDE DEF To
  <2>3. Recursion(To(n), rank, n, V, F)
    BY <2>1, <2>2 DEF Recursion
  <2>4. QED  BY <2>3, RecursionDefines
<1>3. PICK G : G = [n \in Nat |-> CHOOSE f : Steps(f, n)]
  OBVIOUS
<1>4. \A n \in Nat : Steps(G[n], n)
  <2> HIDE DEF Steps
  <2>1. QED  BY <1>2, <1>3
<1>5. ASSUME NEW n \in Nat, NEW d \in To(n)
      PROVE  G[n][d] = F[d][[e \in Lower(D, rank, d) |-> G[n][e]]] /\ G[n][d] \in V[d]
  <2>1. Defined(G[n], To(n), rank, F) /\ Typed(G[n], To(n), V)
    BY <1>4
  <2>2. PICK L : L = Lower(D, rank, d)
    OBVIOUS
  <2>3. Lower(To(n), rank, d) = L
    BY <1>1, <2>2
  <2>4. G[n][d] \in V[d]
    BY <2>1 DEF Typed
  <2>5. G[n][d] = F[d][[e \in Lower(To(n), rank, d) |-> G[n][e]]]
    <3>1. PICK T : T = To(n)
      OBVIOUS
    <3>2. PICK g : g = G[n]
      OBVIOUS
    <3>3. Defined(g, T, rank, F) /\ d \in T
      BY <2>1, <3>1, <3>2
    <3>4. g[d] = F[d][[e \in Lower(T, rank, d) |-> g[e]]]
      BY <3>3 DEF Defined
    <3>5. QED  BY <3>1, <3>2, <3>4
  <2>6. QED  BY <2>2, <2>3, <2>4, <2>5
<1>6. ASSUME NEW m \in Nat, NEW n \in Nat, m <= n
      PROVE  \A d \in To(m) : G[n][d] = G[m][d]
  <2>1. PICK W : W = [d \in To(m) |-> {G[m][d]}]
    OBVIOUS
  <2>2. ASSUME NEW d \in To(m), \A e \in Lower(To(m), rank, d) : G[n][e] \in W[e]
        PROVE  G[n][d] \in W[d]
    <3>1. d \in To(n)
      BY <1>0, <1>6
    <3>2. \A e \in Lower(D, rank, d) : G[n][e] = G[m][e]
      <4>1. \A e \in Lower(To(m), rank, d) : e \in To(m)
        BY DEF Lower
      <4>2. \A e \in Lower(To(m), rank, d) : G[n][e] = G[m][e]
        BY <2>1, <2>2, <4>1
      <4>3. QED  BY <1>1, <4>2
    <3>3. [e \in Lower(D, rank, d) |-> G[n][e]] = [e \in Lower(D, rank, d) |-> G[m][e]]
      BY <3>2
    <3>4. G[n][d] = F[d][[e \in Lower(D, rank, d) |-> G[n][e]]]
      BY <1>5, <3>1
    <3>5. G[m][d] = F[d][[e \in Lower(D, rank, d) |-> G[m][e]]]
      BY <1>5
    <3>6. QED  BY <2>1, <3>3, <3>4, <3>5
  <2>3. \A d \in To(m) : rank[d] \in 0 .. m - 1
    BY <1>0
  <2>4. Inherits(To(m), rank, m, W, G[n])
    <3> HIDE DEF To
    <3>1. QED  BY <2>2, <2>3 DEF Inherits
  <2>5. Typed(G[n], To(m), W)
    <3> HIDE DEF To
    <3>1. QED  BY <2>4, RecursionTypes
  <2>6. QED  BY <2>1, <2>5 DEF Typed
<1>7. PICK f : f = [d \in D |-> G[rank[d] + 1][d]]
  OBVIOUS
<1>8. ASSUME NEW d \in D
      PROVE  f[d] = F[d][[e \in Lower(D, rank, d) |-> f[e]]] /\ f[d] \in V[d]
  <2>1. PICK n \in Nat : n = rank[d] + 1 /\ d \in To(n)
    BY <1>0
  <2>2. f[d] = G[n][d]
    BY <1>7, <2>1
  <2>3. ASSUME NEW e \in Lower(D, rank, d)
        PROVE  f[e] = G[n][e]
    <3>1. PICK m \in Nat : m = rank[e] + 1 /\ m <= n /\ e \in To(m) /\ e \in D
      BY <1>0, <2>1 DEF Lower
    <3>2. f[e] = G[m][e]
      BY <1>7, <3>1
    <3>3. QED  BY <1>6, <3>1, <3>2
  <2>4. [e \in Lower(D, rank, d) |-> f[e]] = [e \in Lower(D, rank, d) |-> G[n][e]]
    BY <2>3
  <2>5. G[n][d] = F[d][[e \in Lower(D, rank, d) |-> G[n][e]]] /\ G[n][d] \in V[d]
    BY <1>5, <2>1
  <2>6. QED  BY <2>2, <2>4, <2>5
<1>9. f = [d \in D |-> f[d]]
  BY <1>7
<1>10. Defined(f, D, rank, F)
  BY <1>8, <1>9 DEF Defined
<1>11. QED  BY <1>8, <1>10 DEF Typed

-----------------------------------------------------------------------------
(* What a selector means is defined *)

\* What a selector means, if means is what the shorter ones do.
MeansFrom(text, ts, means) ==
  LET ors == Outermost(ts, {"|"})  ands == Outermost(ts, {"&"})
      has == Outermost(ts, {">", ">>"})
      left(S)  == means[Before(ts, Least(S))]
      right(S) == means[After(ts, Least(S))]
  IN  IF ts = <<>> THEN {}
      ELSE IF ors # {} THEN left(ors) \union right(ors)
      ELSE IF ands # {} THEN left(ands) \intersect right(ands)
      ELSE IF has # {}
      THEN {n \in left(has) : \E m \in right(has) :
              IF ts[Least(has)] = ">>" THEN ChildOf(m, n, text) ELSE Inside(m, n)}
      ELSE IF ts[1] = "!"
      THEN {n \in Nodes(text) : n.kind = Selector[ts[2]].kind} \ means[Tail(ts)]
      ELSE IF ts[1] = "(" THEN means[SubSeq(ts, 2, Len(ts) - 1)]
      ELSE {n \in Nodes(text) : /\ n.kind = Selector[ts[1]].kind
                                /\ Selector[ts[1]].name \in {"*", n.name}}
IsMeans(means, text) == means = [ts \in Seq(Tokens) |->
        LET ors == Outermost(ts, {"|"})  ands == Outermost(ts, {"&"})
            has == Outermost(ts, {">", ">>"})
            left(S)  == means[Before(ts, Least(S))]
            right(S) == means[After(ts, Least(S))]
        IN  IF ts = <<>> THEN {}
            ELSE IF ors # {} THEN left(ors) \union right(ors)
            ELSE IF ands # {} THEN left(ands) \intersect right(ands)
            ELSE IF has # {}
            THEN {n \in left(has) : \E m \in right(has) :
                    IF ts[Least(has)] = ">>" THEN ChildOf(m, n, text) ELSE Inside(m, n)}
            ELSE IF ts[1] = "!"
            THEN {n \in Nodes(text) : n.kind = Selector[ts[2]].kind} \ means[Tail(ts)]
            ELSE IF ts[1] = "(" THEN means[SubSeq(ts, 2, Len(ts) - 1)]
            ELSE {n \in Nodes(text) : /\ n.kind = Selector[ts[1]].kind
                                      /\ Selector[ts[1]].name \in {"*", n.name}}]

TokenRank == [ts \in Seq(Tokens) |-> Len(ts)]
Shorter(ts) == Lower(Seq(Tokens), TokenRank, ts)

\* The least of some positions is one of them.
LEMMA LeastOf ==
  ASSUME NEW n \in Nat, NEW S \in SUBSET (1 .. n), S # {}
  PROVE  Least(S) \in S /\ \A i \in S : Least(S) <= i
<1> DEFINE T == {k \in Nat : \A i \in S : k <= i}
<1>1. \E k \in S : \A i \in S : k <= i
  <2>1. SUFFICES ASSUME \A k \in S : \E i \in S : i < k
                 PROVE  FALSE
    OBVIOUS
  <2>2. 0 \in T
    OBVIOUS
  <2>3. ASSUME NEW k \in Nat, k \in T
        PROVE  k + 1 \in T
    <3>1. k \notin S
      BY <2>1, <2>3
    <3>2. \A i \in S : k + 1 <= i
      BY <2>3, <3>1
    <3>3. QED  BY <3>2
  <2>4. Nat \subseteq T
    <3> HIDE DEF T
    <3>1. QED  BY <2>2, <2>3, Induct
  <2>5. n + 1 \in T
    BY <2>4
  <2>6. PICK i \in S : i \in 1 .. n
    OBVIOUS
  <2>7. n + 1 <= i
    BY <2>5
  <2>8. QED  BY <2>6, <2>7
<1>2. QED  BY <1>1 DEF Least

\* The selectors that one is made of are shorter.
LEMMA PartsShorter ==
  ASSUME NEW ts \in Seq(Tokens), ts # <<>>
  PROVE  /\ \A ops : Outermost(ts, ops) # {} =>
              /\ Before(ts, Least(Outermost(ts, ops))) \in Shorter(ts)
              /\ After(ts, Least(Outermost(ts, ops))) \in Shorter(ts)
         /\ Tail(ts) \in Shorter(ts)
         /\ SubSeq(ts, 2, Len(ts) - 1) \in Shorter(ts)
<1>1. PICK len \in Nat : len = Len(ts) /\ len # 0
  BY LenProperties, EmptySeq
<1>2. \A m \in 1 .. len : ts[m] \in Tokens
  BY <1>1, ElementOfSeq
<1>3. ASSUME NEW i \in 1 .. len + 1, NEW j \in 0 .. len, i # 1 \/ j # len
      PROVE  SubSeq(ts, i, j) \in Shorter(ts)
  <2>1. PICK s : s = SubSeq(ts, i, j)
    OBVIOUS
  <2>2. \A m \in i .. j : ts[m] \in Tokens
    <3>1. \A m \in i .. j : m \in 1 .. len
      OBVIOUS
    <3>2. QED  BY <1>2, <3>1
  <2>3. i \in Int /\ j \in Int
    OBVIOUS
  <2>4. s \in Seq(Tokens) /\ Len(s) = (IF i <= j THEN j - i + 1 ELSE 0)
    BY <2>1, <2>2, <2>3, SubSeqProperties
  <2>5. Len(s) < len
    BY <1>1, <1>3, <2>4
  <2>6. TokenRank[s] < TokenRank[ts]
    BY <1>1, <2>4, <2>5 DEF TokenRank
  <2>7. QED  BY <2>1, <2>4, <2>6 DEF Shorter, Lower
<1>4. ASSUME NEW ops, Outermost(ts, ops) # {}
      PROVE  /\ Before(ts, Least(Outermost(ts, ops))) \in Shorter(ts)
             /\ After(ts, Least(Outermost(ts, ops))) \in Shorter(ts)
  <2>1. PICK S : S = Outermost(ts, ops)
    OBVIOUS
  <2>2. S \in SUBSET (1 .. len)
    <3>1. DOMAIN ts = 1 .. len
      BY <1>1, LenProperties
    <3>2. QED  BY <2>1, <3>1 DEF Outermost
  <2>3. PICK k \in 1 .. len : k = Least(S)
    BY <1>4, <2>1, <2>2, LeastOf
  <2>4. k - 1 \in 0 .. len /\ k - 1 # len /\ k + 1 \in 1 .. len + 1 /\ k + 1 # 1 /\ 1 \in 1 .. len + 1
    BY <1>1, <2>3
  <2>5. SubSeq(ts, 1, k - 1) \in Shorter(ts)
    BY <1>3, <2>4
  <2>6. SubSeq(ts, k + 1, len) \in Shorter(ts)
    <3>1. len \in 0 .. len
      OBVIOUS
    <3>2. QED  BY <1>3, <2>4, <3>1
  <2>7. QED  BY <1>1, <2>1, <2>3, <2>5, <2>6 DEF Before, After
<1>5. Tail(ts) \in Shorter(ts)
  <2>1. Tail(ts) = SubSeq(ts, 2, len)
    BY <1>1, TailIsSubSeq
  <2>2. 2 \in 1 .. len + 1 /\ len \in 0 .. len /\ 2 # 1
    BY <1>1
  <2>3. QED  BY <1>3, <2>1, <2>2
<1>6. SubSeq(ts, 2, Len(ts) - 1) \in Shorter(ts)
  <2>1. 2 \in 1 .. len + 1 /\ len - 1 \in 0 .. len /\ 2 # 1
    BY <1>1
  <2>2. QED  BY <1>1, <1>3, <2>1
<1>7. QED  BY <1>4, <1>5, <1>6

\* What a selector means depends on what shorter ones do, and is nodes.
LEMMA MeansFromShorter ==
  ASSUME NEW text, NEW ts \in Seq(Tokens), NEW w, NEW f,
         \A e \in Shorter(ts) : w[e] = f[e] /\ w[e] \in SUBSET Nodes(text)
  PROVE  /\ MeansFrom(text, ts, w) = MeansFrom(text, ts, f)
         /\ MeansFrom(text, ts, w) \in SUBSET Nodes(text)
<1>1. CASE ts = <<>>
  BY <1>1 DEF MeansFrom
<1>2. CASE ts # <<>>
  <2>1. ASSUME NEW ops, Outermost(ts, ops) # {}
        PROVE  /\ w[Before(ts, Least(Outermost(ts, ops)))] = f[Before(ts, Least(Outermost(ts, ops)))]
               /\ w[After(ts, Least(Outermost(ts, ops)))] = f[After(ts, Least(Outermost(ts, ops)))]
               /\ w[Before(ts, Least(Outermost(ts, ops)))] \in SUBSET Nodes(text)
               /\ w[After(ts, Least(Outermost(ts, ops)))] \in SUBSET Nodes(text)
    BY <1>2, <2>1, PartsShorter
  <2>2. /\ w[Tail(ts)] = f[Tail(ts)]
        /\ w[SubSeq(ts, 2, Len(ts) - 1)] = f[SubSeq(ts, 2, Len(ts) - 1)]
        /\ w[SubSeq(ts, 2, Len(ts) - 1)] \in SUBSET Nodes(text)
    BY <1>2, PartsShorter
  <2>3. CASE Outermost(ts, {"|"}) # {}
    BY <1>2, <2>1, <2>3 DEF MeansFrom
  <2>4. CASE Outermost(ts, {"|"}) = {} /\ Outermost(ts, {"&"}) # {}
    BY <1>2, <2>1, <2>4 DEF MeansFrom
  <2>5. CASE Outermost(ts, {"|"}) = {} /\ Outermost(ts, {"&"}) = {} /\ Outermost(ts, {">", ">>"}) # {}
    BY <1>2, <2>1, <2>5 DEF MeansFrom
  <2>6. CASE Outermost(ts, {"|"}) = {} /\ Outermost(ts, {"&"}) = {} /\ Outermost(ts, {">", ">>"}) = {}
    BY <1>2, <2>2, <2>6 DEF MeansFrom
  <2>7. QED  BY <2>3, <2>4, <2>5, <2>6
<1>3. QED  BY <1>1, <1>2

\* Means is what its recursion says, and nodes of the text.
LEMMA MeansRun ==
  ASSUME NEW text
  PROVE  \E F : \A ts \in Seq(Tokens) :
           /\ Means(text, ts) = F[ts] /\ F[ts] = MeansFrom(text, ts, F)
           /\ F[ts] \in SUBSET Nodes(text)
<1>1. PICK D : D = Seq(Tokens)
  OBVIOUS
<1>2. PICK rank : rank = TokenRank
  OBVIOUS
<1>3. PICK V : V = [ts \in D |-> SUBSET Nodes(text)]
  OBVIOUS
<1>4. PICK F : F = [ts \in D |-> [w \in Givens(D, rank, V, ts) |-> MeansFrom(text, ts, w)]]
  OBVIOUS
<1>5. \A ts \in D : rank[ts] \in Nat
  BY <1>1, <1>2, LenProperties DEF TokenRank
<1>6. \A ts \in D : Shorter(ts) = Lower(D, rank, ts)
  BY <1>1, <1>2 DEF Shorter
<1>7. ASSUME NEW ts \in D, NEW w \in Givens(D, rank, V, ts)
      PROVE  F[ts][w] = MeansFrom(text, ts, w) /\ F[ts][w] \in V[ts]
  <2>1. F[ts][w] = MeansFrom(text, ts, w)
    BY <1>4
  <2>2. \A e \in Shorter(ts) : w[e] \in SUBSET Nodes(text)
    BY <1>3, <1>6 DEF Givens, Lower
  <2>3. MeansFrom(text, ts, w) \in SUBSET Nodes(text)
    BY <1>1, <2>2, MeansFromShorter
  <2>4. QED  BY <1>3, <2>1, <2>3
<1>8. Ranked(D, rank, V, F)
  BY <1>5, <1>7 DEF Ranked
<1>9. PICK f : Defined(f, D, rank, F) /\ Typed(f, D, V)
  BY <1>8, RankedDefines
<1>10. ASSUME NEW ts \in D
       PROVE  f[ts] = MeansFrom(text, ts, f)
  <2>1. PICK w : w = [e \in Lower(D, rank, ts) |-> f[e]]
    OBVIOUS
  <2>2. w \in Givens(D, rank, V, ts)
    <3>1. \A e \in Lower(D, rank, ts) : w[e] \in V[e] /\ w[e] \in UNION {V[d] : d \in D}
      BY <1>9, <2>1 DEF Lower, Typed
    <3>2. w \in [Lower(D, rank, ts) -> UNION {V[e] : e \in D}]
      BY <2>1, <3>1
    <3>3. QED  BY <3>1, <3>2 DEF Givens
  <2>3. f[ts] = MeansFrom(text, ts, w)
    <3>1. f[ts] = F[ts][w]
      BY <1>9, <2>1 DEF Defined
    <3>2. QED  BY <1>7, <2>2, <3>1
  <2>4. \A e \in Shorter(ts) : w[e] = f[e] /\ w[e] \in SUBSET Nodes(text)
    BY <1>3, <1>6, <1>9, <2>1 DEF Typed, Lower
  <2>5. QED  BY <1>1, <2>3, <2>4, MeansFromShorter
<1>11. IsMeans(f, text)
  <2>1. f = [ts \in D |-> f[ts]]
    BY <1>9 DEF Defined
  <2>2. f = [ts \in Seq(Tokens) |-> MeansFrom(text, ts, f)]
    BY <1>1, <1>10, <2>1
  <2>3. QED  BY <2>2 DEF IsMeans, MeansFrom
<1>12. PICK g : IsMeans(g, text) /\ \A ts : Means(text, ts) = g[ts]
  BY <1>11, Zenon DEF IsMeans, Means
<1>13. \A ts \in D : g[ts] = MeansFrom(text, ts, g)
  BY <1>1, <1>12, Zenon DEF IsMeans, MeansFrom
<1>14. \A ts \in D : g[ts] \in SUBSET Nodes(text)
  <2> DEFINE S == {k \in Nat : \A ts \in D : rank[ts] < k => g[ts] \in SUBSET Nodes(text)}
  <2>1. 0 \in S
    BY <1>5
  <2>2. ASSUME NEW k \in Nat, k \in S
        PROVE  k + 1 \in S
    <3>1. SUFFICES ASSUME NEW ts \in D, rank[ts] < k + 1
                   PROVE  g[ts] \in SUBSET Nodes(text)
      OBVIOUS
    <3>2. \A e \in Shorter(ts) : e \in D /\ rank[e] < k
      BY <1>5, <1>6, <3>1 DEF Lower
    <3>3. \A e \in Shorter(ts) : g[e] \in SUBSET Nodes(text)
      BY <2>2, <3>2
    <3>4. MeansFrom(text, ts, g) \in SUBSET Nodes(text)
      BY <1>1, <3>3, MeansFromShorter
    <3>5. QED  BY <1>13, <3>4
  <2>3. Nat \subseteq S
    <3> HIDE DEF S
    <3>1. QED  BY <2>1, <2>2, Induct
  <2>4. ASSUME NEW ts \in D
        PROVE  g[ts] \in SUBSET Nodes(text)
    <3>1. PICK k \in Nat : k = rank[ts] + 1 /\ rank[ts] < k
      BY <1>5
    <3>2. k \in S
      BY <2>3
    <3>3. QED  BY <3>1, <3>2
  <2>5. QED  BY <2>4
<1>15. QED  BY <1>1, <1>12, <1>13, <1>14

-----------------------------------------------------------------------------
(* What the parts of a selector mean *)

\* The operators that bind looser than those of a level.
Loose == [or |-> {}, and |-> {"|"}, contains |-> {"|", "&"}, unary |-> {"|", "&", ">", ">>"}]
Levels == {"or", "and", "contains"}

\* The operators of the levels, and those that bind looser.
LEMMA LevelFacts ==
  /\ Loose["or"] = {} /\ Loose["and"] = {"|"} /\ Loose["contains"] = {"|", "&"}
  /\ Loose["unary"] = {"|", "&", ">", ">>"}
  /\ Operators["or"] = {"|"} /\ Operators["and"] = {"&"} /\ Operators["contains"] = {">", ">>"}
  /\ \A level \in Levels : Loose[Below[level]] = Loose[level] \union Operators[level]
  /\ \A level \in Levels : \A t \in Operators[level] : t \notin Loose[level] /\ Weight(t) = 0
<1>1. /\ Loose["or"] = {} /\ Loose["and"] = {"|"} /\ Loose["contains"] = {"|", "&"}
      /\ Loose["unary"] = {"|", "&", ">", ">>"}
  BY DEF Loose
<1>2. Operators["or"] = {"|"} /\ Operators["and"] = {"&"} /\ Operators["contains"] = {">", ">>"}
  BY DEF Operators
<1>3. Below["or"] = "and" /\ Below["and"] = "contains" /\ Below["contains"] = "unary"
  BY DEF Below
<1>4. ASSUME NEW level \in Levels
      PROVE  /\ Loose[Below[level]] = Loose[level] \union Operators[level]
             /\ \A t \in Operators[level] : t \notin Loose[level] /\ Weight(t) = 0
  <2>1. CASE level = "or"
    BY <1>1, <1>2, <1>3, <2>1 DEF Weight
  <2>2. CASE level = "and"
    BY <1>1, <1>2, <1>3, <2>2 DEF Weight
  <2>3. CASE level = "contains"
    BY <1>1, <1>2, <1>3, <2>3 DEF Weight
  <2>4. QED  BY <2>1, <2>2, <2>3 DEF Levels
<1>5. QED  BY <1>1, <1>2, <1>4

\* No operator of ops is outermost.
Without(ts, ops) == Outermost(ts, ops) = {}

\* What a selector means by its loosest operator.
LEMMA MeansOperator ==
  ASSUME NEW text, NEW ts \in Seq(Tokens), ts # <<>>, NEW level \in Levels,
         ~Without(ts, Operators[level]), \A t \in Loose[level] : Without(ts, {t}),
         NEW k, k = Least(Outermost(ts, Operators[level]))
  PROVE  Means(text, ts) = Joined(text, level, ts[k], Means(text, Before(ts, k)), Means(text, After(ts, k)))
<1>1. PICK F : \A s \in Seq(Tokens) : /\ Means(text, s) = F[s] /\ F[s] = MeansFrom(text, s, F)
                                      /\ F[s] \in SUBSET Nodes(text)
  BY MeansRun
<1>2. Before(ts, k) \in Seq(Tokens) /\ After(ts, k) \in Seq(Tokens)
  BY PartsShorter DEF Shorter, Lower, Without
<1>3. PICK L, R : L = F[Before(ts, k)] /\ R = F[After(ts, k)]
  OBVIOUS
<1>4. L = Means(text, Before(ts, k)) /\ R = Means(text, After(ts, k)) /\ L \subseteq Nodes(text)
  BY <1>1, <1>2, <1>3
<1>5. CASE level = "or"
  <2>1. Operators[level] = {"|"}
    BY <1>5, LevelFacts
  <2>2. MeansFrom(text, ts, F) = L \union R
    BY <1>3, <2>1 DEF MeansFrom, Without
  <2>3. QED  BY <1>1, <1>4, <1>5, <2>2 DEF Joined
<1>6. CASE level = "and"
  <2>1. Operators[level] = {"&"} /\ Loose[level] = {"|"}
    BY <1>6, LevelFacts
  <2>2. Outermost(ts, {"|"}) = {}
    BY <2>1 DEF Without
  <2>3. MeansFrom(text, ts, F) = L \intersect R
    BY <1>3, <2>1, <2>2 DEF MeansFrom, Without
  <2>4. QED  BY <1>1, <1>4, <1>6, <2>3 DEF Joined
<1>7. CASE level = "contains"
  <2>1. Operators[level] = {">", ">>"} /\ Loose[level] = {"|", "&"}
    BY <1>7, LevelFacts
  <2>2. Outermost(ts, {"|"}) = {} /\ Outermost(ts, {"&"}) = {}
    BY <2>1 DEF Without
  <2>3. MeansFrom(text, ts, F)
        = {n \in L : \E m \in R : IF ts[k] = ">>" THEN ChildOf(m, n, text) ELSE Inside(m, n)}
    BY <1>3, <2>1, <2>2 DEF MeansFrom, Without
  <2>4. {n \in L : \E m \in R : IF ts[k] = ">>" THEN ChildOf(m, n, text) ELSE Inside(m, n)}
        = L \intersect Has(text, ts[k] = ">>", R)
    BY <1>4 DEF Has
  <2>5. QED  BY <1>1, <1>4, <1>7, <2>3, <2>4 DEF Joined
<1>8. QED  BY <1>5, <1>6, <1>7 DEF Levels

\* What a selector without an operator means.
LEMMA MeansUnary ==
  ASSUME NEW text, NEW ts \in Seq(Tokens), ts # <<>>, \A t \in Loose["unary"] : Without(ts, {t})
  PROVE  /\ ts[1] = "!" => Means(text, ts) = {n \in Nodes(text) : n.kind = Selector[ts[2]].kind} \ Means(text, Tail(ts))
         /\ ts[1] = "(" => Means(text, ts) = Means(text, SubSeq(ts, 2, Len(ts) - 1))
         /\ ts[1] \in DOMAIN Selector => Means(text, ts) = Named(text, Selector[ts[1]])
<1>1. PICK F : \A s \in Seq(Tokens) : Means(text, s) = F[s] /\ F[s] = MeansFrom(text, s, F)
  BY MeansRun
<1>2. Tail(ts) \in Seq(Tokens) /\ SubSeq(ts, 2, Len(ts) - 1) \in Seq(Tokens)
  BY PartsShorter DEF Shorter, Lower
<1>3. Outermost(ts, {"|"}) = {} /\ Outermost(ts, {"&"}) = {} /\ Outermost(ts, {">", ">>"}) = {}
  <2>1. \A t \in {"|", "&", ">", ">>"} : Outermost(ts, {t}) = {}
    BY LevelFacts DEF Without
  <2>2. Outermost(ts, {">", ">>"}) = Outermost(ts, {">"}) \union Outermost(ts, {">>"})
    BY DEF Outermost
  <2>3. QED  BY <2>1, <2>2
<1>4. ASSUME ts[1] = "!"
      PROVE  Means(text, ts) = {n \in Nodes(text) : n.kind = Selector[ts[2]].kind} \ Means(text, Tail(ts))
  <2>1. MeansFrom(text, ts, F) = {n \in Nodes(text) : n.kind = Selector[ts[2]].kind} \ F[Tail(ts)]
    BY <1>3, <1>4 DEF MeansFrom
  <2>2. QED  BY <1>1, <1>2, <2>1
<1>5. ASSUME ts[1] = "("
      PROVE  Means(text, ts) = Means(text, SubSeq(ts, 2, Len(ts) - 1))
  <2>1. MeansFrom(text, ts, F) = F[SubSeq(ts, 2, Len(ts) - 1)]
    BY <1>3, <1>5 DEF MeansFrom
  <2>2. QED  BY <1>1, <1>2, <2>1
<1>6. ASSUME ts[1] \in DOMAIN Selector
      PROVE  Means(text, ts) = Named(text, Selector[ts[1]])
  <2>1. ts[1] # "!" /\ ts[1] # "("
    BY <1>6 DEF Selector
  <2>2. MeansFrom(text, ts, F) = Named(text, Selector[ts[1]])
    BY <1>3, <2>1 DEF MeansFrom, Named
  <2>3. QED  BY <1>1, <2>2
<1>7. QED  BY <1>4, <1>5, <1>6

\* A part of a part.
LEMMA PartOfPart ==
  ASSUME NEW ts \in Seq(Tokens), NEW i \in 1 .. Len(ts), NEW k \in i + 1 .. Len(ts) + 1,
         NEW m \in 1 .. k - i, NEW n \in m .. k - i
  PROVE  SubSeq(Part(ts, i, k), m, n) = Part(ts, (i - 1) + m, i + n)
<1>1. PICK len \in Nat : len = Len(ts)
  BY LenProperties
<1>2. PICK j \in Nat : j = k - 1 /\ i \in 1 .. len /\ j \in 1 .. len /\ i <= j
  BY <1>1
<1>3. m \in 1 .. j - i + 1 /\ n \in 1 .. j - i + 1
  BY <1>1, <1>2
<1>4. SubSeq(SubSeq(ts, i, j), m, n) = SubSeq(ts, i + m - 1, i + n - 1)
  BY <1>1, <1>2, <1>3, SubSeqOfSubSeq
<1>5. i + m - 1 = (i - 1) + m /\ i + n - 1 = (i + n) - 1
  BY <1>1, <1>2, <1>3
<1>6. QED  BY <1>2, <1>4, <1>5 DEF Part

\* The nodes that the part from i to before k means.
PartMeans(text, ts, i, k) == Means(text, Part(ts, i, k))

\* From i to before k are whole parentheses only, and no operator of ops is
\* outside them.
Closed(ts, i, k, ops) ==
  /\ Nest(ts, k - 1) = Nest(ts, i - 1)
  /\ \A m \in i .. k - 1 : Nest(ts, m) >= Nest(ts, i - 1)
  /\ Tops(ts, i, k, ops) = {}

\* Two parts with an operator between them.
LEMMA ClosedJoin ==
  ASSUME NEW ts \in Seq(Tokens), NEW i \in 1 .. Len(ts), NEW k \in i + 1 .. Len(ts),
         NEW n \in k + 2 .. Len(ts) + 1, NEW level \in Levels, ts[k] \in Operators[level],
         Closed(ts, i, k, Loose[level]), Closed(ts, k + 1, n, Loose[level])
  PROVE  Nest(ts, k) = Nest(ts, i - 1) /\ Closed(ts, i, n, Loose[level])
<1>1. PICK len \in Nat : len = Len(ts)
  BY LenProperties
<1>2. PICK p \in Nat, j \in Nat : p = i - 1 /\ j = k - 1
  BY <1>1
<1>3. \A m \in Nat : Nest(ts, m) \in Int
  BY NestNext
<1>4. PICK x \in Int : x = Nest(ts, p)
  BY <1>3
<1>5. Nest(ts, j) = x
  BY <1>2, <1>4 DEF Closed
<1>6. Weight(ts[k]) = 0 /\ ts[k] \notin Loose[level]
  BY LevelFacts
<1>7. Nest(ts, k) = x
  <2>1. Nest(ts, j + 1) = Nest(ts, j) + Weight(ts[j + 1])
    BY NestNext
  <2>2. j + 1 = k
    BY <1>1, <1>2
  <2>3. QED  BY <1>5, <1>6, <2>1, <2>2
<1>8. (k + 1) - 1 = k
  BY <1>1
<1>9. Nest(ts, n - 1) = x
  BY <1>7, <1>8 DEF Closed
<1>10. ASSUME NEW m \in i .. n - 1
       PROVE  Nest(ts, m) >= x /\ ~(ts[m] \in Loose[level] /\ Nest(ts, m) = x)
  <2>1. CASE m \in i .. k - 1
    BY <1>2, <1>4, <2>1 DEF Closed, Tops
  <2>2. CASE m = k
    BY <1>6, <1>7, <2>2
  <2>3. CASE m \in k + 1 .. n - 1
    BY <1>7, <1>8, <2>3 DEF Closed, Tops
  <2>4. m \in i .. k - 1 \/ m = k \/ m \in k + 1 .. n - 1
    BY <1>1
  <2>5. QED  BY <2>1, <2>2, <2>3, <2>4
<1>11. Tops(ts, i, n, Loose[level]) = {}
  BY <1>2, <1>4, <1>10 DEF Tops
<1>12. QED  BY <1>2, <1>4, <1>7, <1>9, <1>10, <1>11 DEF Closed

\* What two parts mean with an operator between them.
LEMMA MeansSplit ==
  ASSUME NEW text, NEW ts \in Seq(Tokens), NEW i \in 1 .. Len(ts), NEW k \in i + 1 .. Len(ts),
         NEW n \in k + 2 .. Len(ts) + 1, NEW level \in Levels, ts[k] \in Operators[level],
         Closed(ts, i, k, Loose[Below[level]]), Closed(ts, k + 1, n, Loose[level])
  PROVE  PartMeans(text, ts, i, n) = Joined(text, level, ts[k], PartMeans(text, ts, i, k), PartMeans(text, ts, k + 1, n))
<1>1. PICK len \in Nat : len = Len(ts)
  BY LenProperties
<1>2. Loose[Below[level]] = Loose[level] \union Operators[level]
  BY LevelFacts
<1>3. /\ Tops(ts, i, k, Loose[level]) = {}
      /\ \A m \in i .. k - 1 : ~(ts[m] \in Operators[level] /\ Nest(ts, m) = Nest(ts, i - 1))
  BY <1>2 DEF Closed, Tops
<1>4. Closed(ts, i, k, Loose[level])
  BY <1>3 DEF Closed
<1>5. Nest(ts, k) = Nest(ts, i - 1) /\ Tops(ts, i, n, Loose[level]) = {}
  BY <1>4, ClosedJoin DEF Closed
<1>6. n \in i + 1 .. Len(ts) + 1
  BY <1>1
<1>7. PICK s : s = Part(ts, i, n)
  OBVIOUS
<1>8. PICK w \in Nat, j \in Nat : w = n - i /\ j = k - (i - 1) /\ j \in 2 .. w - 1
  BY <1>1
<1>9. /\ s \in Seq(Tokens) /\ Len(s) = w /\ DOMAIN s = 1 .. w /\ s # <<>>
      /\ \A m \in 1 .. w : s[m] = ts[(i - 1) + m]
  BY <1>6, <1>7, <1>8, PartTokens
<1>10. \A ops : \A m \in Int : m \in Outermost(s, ops) <=> (i - 1) + m \in Tops(ts, i, n, ops)
  BY <1>6, <1>7, PartOutermost
<1>11. \A ops : Outermost(s, ops) \in SUBSET (1 .. w)
  BY <1>9 DEF Outermost
<1>12. \A t \in Loose[level] : Without(s, {t})
  <2>1. SUFFICES ASSUME NEW t \in Loose[level], NEW m \in Outermost(s, {t})
                 PROVE  FALSE
    BY DEF Without
  <2>2. m \in 1 .. w
    BY <1>11
  <2>3. (i - 1) + m \in Tops(ts, i, n, {t})
    BY <1>10, <2>2
  <2>4. (i - 1) + m \in Tops(ts, i, n, Loose[level])
    BY <2>3 DEF Tops
  <2>5. QED  BY <1>5, <2>4
<1>13. PICK S : S = Outermost(s, Operators[level])
  OBVIOUS
<1>14. j \in S
  <2>1. k \in i .. n - 1 /\ (i - 1) + j = k
    BY <1>1, <1>8
  <2>2. k \in Tops(ts, i, n, Operators[level])
    BY <1>5, <2>1 DEF Tops
  <2>3. QED  BY <1>10, <1>13, <2>1, <2>2
<1>15. \A m \in S : j <= m
  <2>1. SUFFICES ASSUME NEW m \in S, m < j
                 PROVE  FALSE
    BY <1>11, <1>13
  <2>2. m \in 1 .. w
    BY <1>11, <1>13
  <2>3. PICK q \in Int : q = (i - 1) + m
    BY <2>2
  <2>4. q \in Tops(ts, i, n, Operators[level])
    BY <1>10, <1>13, <2>2, <2>3
  <2>5. q \in i .. k - 1
    BY <1>1, <1>8, <2>1, <2>2, <2>3, SMTT(60)
  <2>6. QED  BY <1>3, <2>4, <2>5 DEF Tops
<1>16. j = Least(S)
  <2>1. S \in SUBSET (1 .. w) /\ S # {}
    BY <1>11, <1>13, <1>14
  <2>2. Least(S) \in S /\ Least(S) <= j
    BY <1>14, <2>1, LeastOf
  <2>3. PICK l : l = Least(S)
    OBVIOUS
  <2>4. l \in 1 .. w /\ l \in S /\ l <= j
    BY <2>1, <2>2, <2>3
  <2>5. j <= l
    BY <1>15, <2>4
  <2>6. l = j
    BY <2>4, <2>5
  <2>7. QED  BY <2>3, <2>6
<1>17. Means(text, s) = Joined(text, level, s[j], Means(text, Before(s, j)), Means(text, After(s, j)))
  <2>1. ~Without(s, Operators[level])
    BY <1>13, <1>14 DEF Without
  <2>2. j = Least(Outermost(s, Operators[level]))
    BY <1>13, <1>16
  <2>3. s \in Seq(Tokens) /\ s # <<>>
    BY <1>9
  <2>4. \A m : m = Least(Outermost(s, Operators[level])) =>
          Means(text, s) = Joined(text, level, s[m], Means(text, Before(s, m)), Means(text, After(s, m)))
    BY <1>12, <2>1, <2>3, MeansOperator
  <2>5. QED  BY <2>2, <2>4
<1>18. s[j] = ts[k]
  <2>1. j \in 1 .. w /\ (i - 1) + j = k
    BY <1>1, <1>8
  <2>2. QED  BY <1>9, <2>1
<1>19. Before(s, j) = Part(ts, i, k)
  <2>1. PICK m \in Int, e \in Int : m \in 1 .. n - i /\ e \in m .. n - i /\ m = 1 /\ e = j - 1 /\ (i - 1) + m = i /\ i + e = k
    BY <1>1, <1>8
  <2>2. SubSeq(s, m, e) = Part(ts, (i - 1) + m, i + e)
    BY <1>6, <1>7, <2>1, PartOfPart
  <2>3. QED  BY <2>1, <2>2 DEF Before
<1>20. After(s, j) = Part(ts, k + 1, n)
  <2>1. PICK m \in Int, e \in Int : m \in 1 .. n - i /\ e \in m .. n - i /\ m = j + 1 /\ e = w /\ (i - 1) + m = k + 1 /\ i + e = n
    BY <1>1, <1>8
  <2>2. SubSeq(s, m, e) = Part(ts, (i - 1) + m, i + e)
    BY <1>6, <1>7, <2>1, PartOfPart
  <2>3. QED  BY <1>9, <2>1, <2>2 DEF After
<1>21. QED  BY <1>7, <1>17, <1>18, <1>19, <1>20 DEF PartMeans

\* A part that has no operator outside parentheses.
LEMMA PartWithout ==
  ASSUME NEW ts \in Seq(Tokens), NEW i \in 1 .. Len(ts), NEW k \in i + 1 .. Len(ts) + 1, NEW ops,
         Tops(ts, i, k, ops) = {}
  PROVE  \A t \in ops : Without(Part(ts, i, k), {t})
<1>1. SUFFICES ASSUME NEW t \in ops, NEW m \in Outermost(Part(ts, i, k), {t})
               PROVE  FALSE
  BY DEF Without
<1>2. m \in Int
  <2>1. DOMAIN Part(ts, i, k) = 1 .. k - i
    BY PartTokens
  <2>2. QED  BY <2>1 DEF Outermost
<1>3. (i - 1) + m \in Tops(ts, i, k, {t})
  BY <1>2, PartOutermost
<1>4. (i - 1) + m \in Tops(ts, i, k, ops)
  BY <1>3 DEF Tops
<1>5. QED  BY <1>4

\* One selector.
LEMMA MeansSelector ==
  ASSUME NEW text, NEW ts \in Seq(Tokens), NEW i \in 1 .. Len(ts), ts[i] \in DOMAIN Selector
  PROVE  PartMeans(text, ts, i, i + 1) = Named(text, Selector[ts[i]]) /\ Closed(ts, i, i + 1, Loose["unary"])
<1>1. PICK len \in Nat : len = Len(ts)
  BY LenProperties
<1>2. PICK k \in i + 1 .. Len(ts) + 1 : k = i + 1
  BY <1>1
<1>3. ts[i] \notin Loose["unary"] /\ Weight(ts[i]) = 0
  BY LevelFacts DEF Selector, Weight
<1>4. \A m : m \in i .. k - 1 <=> m = i
  BY <1>1, <1>2
<1>5. Tops(ts, i, k, Loose["unary"]) = {}
  BY <1>3, <1>4 DEF Tops
<1>6. Nest(ts, i) = Nest(ts, i - 1) /\ Nest(ts, i - 1) \in Int
  <2>1. PICK p \in Nat : p = i - 1 /\ p + 1 = i
    BY <1>1
  <2>2. Nest(ts, p) \in Int /\ Nest(ts, p + 1) = Nest(ts, p) + Weight(ts[p + 1])
    BY NestNext
  <2>3. QED  BY <1>3, <2>1, <2>2
<1>7. Closed(ts, i, k, Loose["unary"])
  <2>1. k - 1 = i
    BY <1>1, <1>2
  <2>2. QED  BY <1>4, <1>5, <1>6, <2>1 DEF Closed
<1>8. PICK s : s = Part(ts, i, k)
  OBVIOUS
<1>9. s \in Seq(Tokens) /\ s # <<>> /\ s[1] = ts[i]
  <2>1. /\ s \in Seq(Tokens) /\ s # <<>>
        /\ \A m \in 1 .. k - i : s[m] = ts[(i - 1) + m]
    BY <1>8, PartTokens
  <2>2. 1 \in 1 .. k - i /\ (i - 1) + 1 = i
    BY <1>1, <1>2
  <2>3. QED  BY <2>1, <2>2
<1>10. \A t \in Loose["unary"] : Without(s, {t})
  BY <1>5, <1>8, PartWithout
<1>11. Means(text, s) = Named(text, Selector[ts[i]])
  <2>1. PICK t \in DOMAIN Selector : t = ts[i]
    OBVIOUS
  <2>2. s[1] = t
    BY <1>9, <2>1
  <2>3. s[1] \in DOMAIN Selector => Means(text, s) = Named(text, Selector[s[1]])
    BY <1>9, <1>10, MeansUnary
  <2>4. QED  BY <2>1, <2>2, <2>3
<1>12. QED  BY <1>2, <1>7, <1>8, <1>11 DEF PartMeans

\* A selector negated.
LEMMA MeansNot ==
  ASSUME NEW text, NEW ts \in Seq(Tokens), NEW i \in 1 .. Len(ts), i + 1 <= Len(ts),
         ts[i] = "!", ts[i + 1] \in DOMAIN Selector
  PROVE  /\ PartMeans(text, ts, i, i + 2) = {n \in Nodes(text) : n.kind = Selector[ts[i + 1]].kind} \ Named(text, Selector[ts[i + 1]])
         /\ Closed(ts, i, i + 2, Loose["unary"])
<1>1. PICK len \in Nat : len = Len(ts)
  BY LenProperties
<1>2. PICK k \in i + 1 .. Len(ts) + 1 : k = i + 2
  BY <1>1
<1>3. /\ ts[i] \notin Loose["unary"] /\ Weight(ts[i]) = 0
      /\ ts[i + 1] \notin Loose["unary"] /\ Weight(ts[i + 1]) = 0
  <2>1. ts[i] \notin Loose["unary"] /\ Weight(ts[i]) = 0
    BY LevelFacts DEF Weight
  <2>2. ts[i + 1] \notin Loose["unary"] /\ Weight(ts[i + 1]) = 0
    BY LevelFacts DEF Selector, Weight
  <2>3. QED  BY <2>1, <2>2
<1>4. \A m : m \in i .. k - 1 <=> m = i \/ m = i + 1
  BY <1>1, <1>2
<1>5. Tops(ts, i, k, Loose["unary"]) = {}
  BY <1>3, <1>4 DEF Tops
<1>6. Nest(ts, i) = Nest(ts, i - 1) /\ Nest(ts, i + 1) = Nest(ts, i - 1) /\ Nest(ts, i - 1) \in Int
  <2>1. PICK p \in Nat : p = i - 1 /\ p + 1 = i
    BY <1>1
  <2>2. Nest(ts, p) \in Int /\ Nest(ts, p + 1) = Nest(ts, p) + Weight(ts[p + 1])
    BY NestNext
  <2>3. Nest(ts, i + 1) = Nest(ts, i) + Weight(ts[i + 1])
    BY NestNext
  <2>4. QED  BY <1>3, <2>1, <2>2, <2>3
<1>7. Closed(ts, i, k, Loose["unary"])
  <2>1. k - 1 = i + 1
    BY <1>1, <1>2
  <2>2. QED  BY <1>4, <1>5, <1>6, <2>1 DEF Closed
<1>8. PICK s : s = Part(ts, i, k)
  OBVIOUS
<1>9. s \in Seq(Tokens) /\ s # <<>> /\ s[1] = "!" /\ s[2] = ts[i + 1] /\ Len(s) = 2
  <2>1. /\ s \in Seq(Tokens) /\ s # <<>> /\ Len(s) = k - i
        /\ \A m \in 1 .. k - i : s[m] = ts[(i - 1) + m]
    BY <1>8, PartTokens
  <2>2. 1 \in 1 .. k - i /\ (i - 1) + 1 = i /\ 2 \in 1 .. k - i /\ (i - 1) + 2 = i + 1 /\ k - i = 2
    BY <1>1, <1>2
  <2>3. QED  BY <2>1, <2>2
<1>10. \A t \in Loose["unary"] : Without(s, {t})
  BY <1>5, <1>8, PartWithout
<1>11. Tail(s) = Part(ts, i + 1, i + 2)
  <2>1. Tail(s) = SubSeq(s, 2, 2)
    BY <1>9, TailIsSubSeq
  <2>2. PICK m \in Int, e \in Int : m \in 1 .. k - i /\ e \in m .. k - i /\ m = 2 /\ e = 2 /\ (i - 1) + m = i + 1 /\ i + e = i + 2
    BY <1>1, <1>2
  <2>3. SubSeq(s, m, e) = Part(ts, (i - 1) + m, i + e)
    BY <1>8, <2>2, PartOfPart
  <2>4. QED  BY <2>1, <2>2, <2>3
<1>12. Means(text, Part(ts, i + 1, i + 2)) = Named(text, Selector[ts[i + 1]])
  <2>1. PICK j \in 1 .. Len(ts) : j = i + 1 /\ j + 1 = i + 2
    BY <1>1
  <2>2. PartMeans(text, ts, j, j + 1) = Named(text, Selector[ts[j]])
    BY <2>1, MeansSelector
  <2>3. QED  BY <2>1, <2>2 DEF PartMeans
<1>13. Means(text, s) = {n \in Nodes(text) : n.kind = Selector[s[2]].kind} \ Means(text, Tail(s))
  BY <1>9, <1>10, MeansUnary
<1>14. QED  BY <1>2, <1>7, <1>8, <1>9, <1>11, <1>12, <1>13 DEF PartMeans

\* A selector in parentheses.
LEMMA MeansGroup ==
  ASSUME NEW text, NEW ts \in Seq(Tokens), NEW i \in 1 .. Len(ts), NEW k \in i + 2 .. Len(ts),
         ts[i] = "(", ts[k] = ")", Closed(ts, i + 1, k, {})
  PROVE  /\ PartMeans(text, ts, i, k + 1) = PartMeans(text, ts, i + 1, k)
         /\ Closed(ts, i, k + 1, Loose["unary"])
         /\ Group(ts, i, k)
<1>1. PICK len \in Nat : len = Len(ts)
  BY LenProperties
<1>2. PICK n \in i + 1 .. Len(ts) + 1 : n = k + 1 /\ n - 1 = k
  BY <1>1
<1>3. PICK p \in Nat, j \in Nat : p = i - 1 /\ p + 1 = i /\ j = k - 1 /\ j + 1 = k
  BY <1>1
<1>4. \A m \in Nat : Nest(ts, m) \in Int
  BY NestNext
<1>5. PICK x \in Int : x = Nest(ts, p)
  BY <1>4
<1>6. Weight(ts[i]) = 1 /\ Weight(ts[k]) = -1
  BY DEF Weight
<1>7. Nest(ts, i) = x + 1
  <2>1. Nest(ts, p + 1) = Nest(ts, p) + Weight(ts[p + 1])
    BY NestNext
  <2>2. QED  BY <1>3, <1>5, <1>6, <2>1
<1>8. (i + 1) - 1 = i
  BY <1>1
<1>9. \A m \in i + 1 .. k - 1 : Nest(ts, m) >= x + 1
  BY <1>7, <1>8 DEF Closed
<1>10. Nest(ts, k) = x
  <2>1. Nest(ts, j + 1) = Nest(ts, j) + Weight(ts[j + 1])
    BY NestNext
  <2>2. Nest(ts, k - 1) = x + 1
    BY <1>7, <1>8 DEF Closed
  <2>3. QED  BY <1>3, <1>6, <2>1, <2>2
<1>11. \A m \in i .. k - 1 : Nest(ts, m) >= x + 1
  <2>1. \A m \in i .. k - 1 : m = i \/ m \in i + 1 .. k - 1
    BY <1>1
  <2>2. QED  BY <1>7, <1>9, <2>1
<1>12. \A m \in i .. n - 1 : m = k \/ m \in i .. k - 1
  BY <1>1, <1>2
<1>13. \A m \in i .. k - 1 : Nest(ts, m) # x /\ Nest(ts, m) >= x
  <2>1. \A m \in i .. k - 1 : m \in Nat
    BY <1>1
  <2>2. \A m \in i .. k - 1 : Nest(ts, m) \in Int
    BY <1>4, <2>1
  <2>3. QED  BY <1>11, <2>2
<1>14. Tops(ts, i, n, Loose["unary"]) = {}
  <2>1. ts[k] \notin Loose["unary"]
    BY LevelFacts
  <2>2. QED  BY <1>3, <1>5, <1>12, <1>13, <2>1 DEF Tops
<1>15. Closed(ts, i, n, Loose["unary"])
  <2>1. Nest(ts, n - 1) = x /\ Nest(ts, i - 1) = x
    BY <1>2, <1>3, <1>5, <1>10
  <2>2. \A m \in i .. n - 1 : Nest(ts, m) >= x
    BY <1>10, <1>12, <1>13
  <2>3. QED  BY <1>14, <2>1, <2>2 DEF Closed
<1>16. PICK s : s = Part(ts, i, n)
  OBVIOUS
<1>17. PICK w \in Nat : w = n - i /\ w >= 3 /\ k - i + 1 = w /\ p + w = k
  BY <1>1, <1>2, <1>3
<1>18. /\ s \in Seq(Tokens) /\ s # <<>> /\ Len(s) = w /\ DOMAIN s = 1 .. w
       /\ \A m \in 1 .. w : s[m] = ts[p + m]
  BY <1>3, <1>16, <1>17, PartTokens
<1>19. s[1] = "("
  <2>1. 1 \in 1 .. w
    BY <1>17
  <2>2. QED  BY <1>3, <1>18, <2>1
<1>20. \A t \in Loose["unary"] : Without(s, {t})
  BY <1>14, <1>16, PartWithout
<1>21. Means(text, s) = Means(text, SubSeq(s, 2, w - 1))
  BY <1>18, <1>19, <1>20, MeansUnary
<1>22. SubSeq(s, 2, w - 1) = Part(ts, i + 1, k)
  <2>1. PICK m \in Int, e \in Int : m \in 1 .. n - i /\ e \in m .. n - i /\ m = 2 /\ e = w - 1 /\ (i - 1) + m = i + 1 /\ i + e = k
    BY <1>1, <1>2, <1>17
  <2>2. SubSeq(s, m, e) = Part(ts, (i - 1) + m, i + e)
    BY <1>16, <2>1, PartOfPart
  <2>3. QED  BY <2>1, <2>2
<1>23. Group(ts, i, k)
  <2>1. SubSeq(ts, i, k) = s
    BY <1>2, <1>16 DEF Part
  <2>2. \A m \in Int : m \in Outermost(s, Tokens) <=> p + m \in Tops(ts, i, n, Tokens)
    BY <1>3, <1>16, PartOutermost
  <2>3. Outermost(s, Tokens) \subseteq 1 .. w
    BY <1>18 DEF Outermost
  <2>4. w \in Outermost(s, Tokens)
    <3>1. ts[k] \in Tokens
      BY DEF Tokens
    <3>2. k \in i .. n - 1 /\ Nest(ts, k) = Nest(ts, i - 1)
      BY <1>1, <1>2, <1>3, <1>5, <1>10
    <3>3. k \in Tops(ts, i, n, Tokens)
      BY <3>1, <3>2 DEF Tops
    <3>4. w \in Int /\ p + w \in Tops(ts, i, n, Tokens)
      BY <1>17, <3>3
    <3>5. QED  BY <2>2, <3>4
  <2>5. ASSUME NEW m \in Outermost(s, Tokens)
        PROVE  m = w
    <3>1. m \in 1 .. w
      BY <2>3
    <3>2. p + m \in Tops(ts, i, n, Tokens)
      BY <2>2, <3>1
    <3>3. p + m \in i .. n - 1 /\ Nest(ts, p + m) = x
      BY <1>3, <1>5, <3>2 DEF Tops
    <3>4. p + m = k
      BY <1>12, <1>13, <3>3
    <3>5. QED  BY <1>17, <3>1, <3>4
  <2>6. Outermost(s, Tokens) = {k - i + 1}
    BY <1>17, <2>4, <2>5
  <2>7. QED  BY <2>1, <2>6 DEF Group
<1>24. QED  BY <1>2, <1>15, <1>16, <1>21, <1>22, <1>23 DEF PartMeans

-----------------------------------------------------------------------------
(* What parseUnary reads *)

\* No operator but | and & among the tokens from i to before k.
Pure(ts, i, k) == \A m \in i .. k - 1 : ts[m] \notin {"!", ">", ">>"}

\* A parser has read the tokens from i to before k as what they mean.
ReadsAs(text, ts, Q, level, i, k, q) ==
  /\ Closed(ts, i, k, Loose[level])
  /\ Selects(text, q) = PartMeans(text, ts, i, k)
  /\ Pure(ts, i, k) => Plain(text, Q, Len(ts) + 1, k - i, q)

\* What parseUnary takes may contain what follows it, and one token is itself.
Alone(ts, i, k, q) ==
  /\ k <= Len(ts) /\ ts[k] \in {">", ">>"} => Pure(ts, i, k)
  /\ ts[i] \in DOMAIN Selector => k = i + 1 /\ q = Simple(ts[i])

Reads(text, ts, Q, level, i) ==
  {r \in Parses(ts, Q, i) :
     r.ok => /\ ReadsAs(text, ts, Q, level, i, r.at, r.q)
             /\ level = "unary" => Alone(ts, i, r.at, r.q)}

\* What is supported, token by token.
LEMMA SupportedAt ==
  ASSUME NEW ts \in Seq(Tokens), Supported(ts), NEW k \in 1 .. Len(ts)
  PROVE  /\ ts[k] = "!" => /\ k + 1 <= Len(ts) /\ ts[k + 1] \in DOMAIN Selector
                           /\ k + 2 <= Len(ts) => ts[k + 2] \notin {">", ">>"}
         /\ ts[k] = ">>" => k + 1 <= Len(ts) /\ ts[k + 1] \in DOMAIN Selector
         /\ ts[k] \in {">", ">>"} => \A i \in 1 .. k - 2 : Group(ts, i, k - 1) => Pure(ts, i, k)
<1>1. PICK len \in Nat : len = Len(ts) /\ DOMAIN ts = 1 .. len
  BY LenProperties
<1>2. k < Len(ts) <=> k + 1 <= Len(ts)
  BY <1>1
<1>3. k + 1 < Len(ts) <=> k + 2 <= Len(ts)
  BY <1>1
<1>4. k \in DOMAIN ts
  BY <1>1
<1> DEFINE One(j) == ts[j] = "!" => /\ j < Len(ts) /\ ts[j + 1] \in DOMAIN Selector
                                    /\ j + 1 < Len(ts) => ts[j + 2] \notin {">", ">>"}
           Two(j) == ts[j] = ">>" => j < Len(ts) /\ ts[j + 1] \in DOMAIN Selector
           Three(j) == ts[j] \in {">", ">>"} => \A i \in 1 .. j - 2 : Group(ts, i, j - 1) =>
                         \A m \in i .. j - 1 : ts[m] \notin {"!", ">", ">>"}
<1>5. One(k) /\ Two(k) /\ Three(k)
  BY <1>4 DEF Supported
<1>6. QED  BY <1>2, <1>3, <1>5 DEF Pure

\* A selector is read as the nodes it names.
LEMMA SelectorReads ==
  ASSUME NEW text \in Seq(Symbols), NEW ts, NEW Q, Grammar(ts, Q),
         NEW i \in 1 .. Len(ts), ts[i] \in DOMAIN Selector
  PROVE  ReadsAs(text, ts, Q, "unary", i, i + 1, Simple(ts[i])) /\ Alone(ts, i, i + 1, Simple(ts[i]))
<1>1. PICK len \in Nat : len = Len(ts)
  BY ParsingFacts
<1>2. ts \in Seq(Tokens)
  BY DEF Grammar
<1>3. PartMeans(text, ts, i, i + 1) = Named(text, Selector[ts[i]]) /\ Closed(ts, i, i + 1, Loose["unary"])
  BY <1>2, MeansSelector
<1>4. PICK t \in DOMAIN Selector : t = ts[i]
  OBVIOUS
<1>5. PICK a \in 1 .. len + 1 : a = (i + 1) - i
  BY <1>1
<1>6. Plain(text, Q, len + 1, a, Simple(t)) /\ Selects(text, Simple(t)) = Named(text, Selector[t])
  <2>1. len + 1 \in Nat
    OBVIOUS
  <2>2. Heights(Q, len + 1)
    BY <1>1, ParsingFacts
  <2>3. QED  BY <2>1, <2>2, PlainSimple
<1>7. ReadsAs(text, ts, Q, "unary", i, i + 1, Simple(ts[i]))
  BY <1>1, <1>3, <1>4, <1>5, <1>6 DEF ReadsAs
<1>8. Pure(ts, i, i + 1)
  <2>1. \A m \in i .. (i + 1) - 1 : m = i
    BY <1>1
  <2>2. ts[i] \notin {"!", ">", ">>"}
    BY DEF Selector
  <2>3. QED  BY <2>1, <2>2 DEF Pure
<1>9. QED  BY <1>7, <1>8 DEF Alone

\* A selector has a kind.
LEMMA SelectorKind ==
  ASSUME NEW t \in DOMAIN Selector
  PROVE  Selector[t].kind # ""
<1>1. t \in {"fAll", "fA", "fB", "cAll"}
  BY DEF Selector
<1>2. /\ Selector["fAll"].kind = "func" /\ Selector["fA"].kind = "func"
      /\ Selector["fB"].kind = "func" /\ Selector["cAll"].kind = "class"
  BY DEF Selector
<1>3. QED  BY <1>1, <1>2

\* A selector negated is read as the others of its kind.
LEMMA NotReads ==
  ASSUME NEW text \in Seq(Symbols), NEW ts, NEW Q, Grammar(ts, Q), Supported(ts),
         NEW i \in 1 .. Len(ts), ts[i] = "!",
         NEW q, q = Compound("NOT", <<Simple(ts[i + 1])>>)
  PROVE  ReadsAs(text, ts, Q, "unary", i, i + 2, q) /\ Alone(ts, i, i + 2, q)
<1>1. PICK len \in Nat : len = Len(ts)
  BY ParsingFacts
<1>2. ts \in Seq(Tokens)
  BY DEF Grammar
<1>3. /\ i + 1 <= Len(ts) /\ ts[i + 1] \in DOMAIN Selector
      /\ i + 2 <= Len(ts) => ts[i + 2] \notin {">", ">>"}
  BY <1>2, SupportedAt
<1>4. PICK t \in DOMAIN Selector : t = ts[i + 1]
  BY <1>3
<1>5. /\ PartMeans(text, ts, i, i + 2) = {n \in Nodes(text) : n.kind = Selector[t].kind} \ Named(text, Selector[t])
      /\ Closed(ts, i, i + 2, Loose["unary"])
  <2>1. /\ PartMeans(text, ts, i, i + 2) = {n \in Nodes(text) : n.kind = Selector[ts[i + 1]].kind} \ Named(text, Selector[ts[i + 1]])
        /\ Closed(ts, i, i + 2, Loose["unary"])
    BY <1>2, <1>3, MeansNot
  <2>2. QED  BY <1>4, <2>1
<1>6. PICK B \in Nat : B = len + 1 /\ 1 \in 0 .. B /\ 2 \in 0 .. B /\ 1 \in 1 .. B
  BY <1>1, <1>3
<1>7. Heights(Q, B)
  BY <1>1, <1>6, ParsingFacts
<1>8. PICK p : p = Simple(t)
  OBVIOUS
<1>9. p \in Q[1] /\ Selects(text, p) = Named(text, Selector[t]) /\ p.sel = Selector[t]
  <2>0. B # 0
    BY <1>6
  <2>1. Simple(t) \in Q[1]
    BY <1>7, <2>0, SimpleTyped
  <2>2. Selects(text, Simple(t)) = Named(text, Selector[t])
    BY <1>6, <1>7, PlainSimple
  <2>3. Simple(t).sel = Selector[t]
    BY DEF Simple
  <2>4. QED  BY <1>8, <2>1, <2>2, <2>3
<1>10. PICK args : args = <<p>>
  OBVIOUS
<1>11. args \in Seq(Q[1]) /\ args # <<>> /\ args[1] = p
  <2>0. PICK X : X = Q[1] /\ p \in X
    BY <1>9
  <2>1. <<p>> \in Seq(Q[1])
    <3>1. <<p>> \in Seq(X)
      BY <2>0, OneElement
    <3>2. QED  BY <2>0, <3>1
  <2>2. <<p>> # <<>> /\ <<p>>[1] = p
    OBVIOUS
  <2>3. QED  BY <1>10, <2>1, <2>2
<1>12. q = Compound("NOT", args)
  BY <1>4, <1>8, <1>10
<1>13. q \in Q[2] /\ q.op = "NOT" /\ q.args = args
  <2>1. "NOT" \in QueryOps /\ 2 # 0 /\ 2 - 1 = 1
    BY DEF QueryOps
  <2>2. args \in Seq(Q[2 - 1])
    BY <1>11, <2>1
  <2>3. Compound("NOT", args) \in Q[2]
    <3>1. PICK op : op = "NOT" /\ op \in QueryOps
      BY <2>1
    <3>2. PICK top \in 0 .. B : top = 2 /\ top # 0 /\ args \in Seq(Q[top - 1])
      BY <1>6, <2>2
    <3>3. Compound(op, args) \in Q[top]
      BY <1>7, <1>11, <3>1, <3>2, CompoundTyped
    <3>4. QED  BY <3>1, <3>2, <3>3
  <2>4. q.op = "NOT" /\ q.args = args
    <3>1. \A s : Compound("NOT", s).op = "NOT" /\ Compound("NOT", s).args = s
      BY DEF Compound
    <3>2. QED  BY <1>12, <3>1
  <2>5. QED  BY <1>12, <2>3, <2>4
<1>14. Selects(text, q) = RestOfKind(text, q)
  BY <1>6, <1>7, <1>13, SelectsBy, ZenonT(60)
<1>15. RestOfKind(text, q) = {n \in Nodes(text) : n.kind = Selector[t].kind} \ Named(text, Selector[t])
  <2>1. Selector[t].kind # ""
    BY SelectorKind
  <2>2. q.args[1] = p
    BY <1>11, <1>13
  <2>3. RestOfKind(text, q) = {n \in Nodes(text) : /\ p.sel.kind # "" /\ n.kind = p.sel.kind
                                                   /\ n \notin Selects(text, p)}
    BY <2>2 DEF RestOfKind
  <2>4. QED  BY <1>9, <2>1, <2>3
<1>16. ~Pure(ts, i, i + 2)
  <2>1. i \in i .. (i + 2) - 1
    BY <1>1
  <2>2. QED  BY <2>1 DEF Pure
<1>17. ReadsAs(text, ts, Q, "unary", i, i + 2, q)
  BY <1>5, <1>14, <1>15, <1>16 DEF ReadsAs
<1>18. ts[i] \notin DOMAIN Selector
  BY DEF Selector
<1>19. QED  BY <1>3, <1>17, <1>18 DEF Alone

\* What is in parentheses is read as what it is without.
LEMMA GroupReads ==
  ASSUME NEW text \in Seq(Symbols), NEW ts, NEW Q, Grammar(ts, Q), Supported(ts),
         NEW i \in 1 .. Len(ts), ts[i] = "(", NEW k \in i + 2 .. Len(ts), ts[k] = ")",
         NEW q, ReadsAs(text, ts, Q, "or", i + 1, k, q)
  PROVE  ReadsAs(text, ts, Q, "unary", i, k + 1, q) /\ Alone(ts, i, k + 1, q)
<1>1. PICK len \in Nat : len = Len(ts)
  BY ParsingFacts
<1>2. ts \in Seq(Tokens)
  BY DEF Grammar
<1>3. Closed(ts, i + 1, k, {}) /\ Selects(text, q) = PartMeans(text, ts, i + 1, k)
  BY LevelFacts DEF ReadsAs
<1>4. /\ PartMeans(text, ts, i, k + 1) = PartMeans(text, ts, i + 1, k)
      /\ Closed(ts, i, k + 1, Loose["unary"])
      /\ Group(ts, i, k)
  BY <1>2, <1>3, MeansGroup
<1>5. ASSUME Pure(ts, i, k + 1)
      PROVE  Plain(text, Q, Len(ts) + 1, (k + 1) - i, q)
  <2>1. \A m \in i + 1 .. k - 1 : m \in i .. (k + 1) - 1
    BY <1>1
  <2>2. Pure(ts, i + 1, k)
    BY <1>5, <2>1 DEF Pure
  <2>3. Plain(text, Q, Len(ts) + 1, k - (i + 1), q)
    BY <2>2 DEF ReadsAs
  <2>4. PICK B \in Nat : B = Len(ts) + 1
    BY <1>1
  <2>5. PICK a \in 0 .. B, b \in 0 .. B : a = k - (i + 1) /\ b = (k + 1) - i /\ b \in a .. B
    BY <1>1, <2>4
  <2>6. Plain(text, Q, B, b, q)
    BY <2>3, <2>4, <2>5, PlainGrow
  <2>7. QED  BY <2>4, <2>5, <2>6
<1>6. ReadsAs(text, ts, Q, "unary", i, k + 1, q)
  BY <1>3, <1>4, <1>5 DEF ReadsAs
<1>7. ts[i] \notin DOMAIN Selector
  BY DEF Selector
<1>8. ASSUME k + 1 <= Len(ts), ts[k + 1] \in {">", ">>"}
      PROVE  Pure(ts, i, k + 1)
  <2>1. PICK j \in 1 .. Len(ts) : j = k + 1 /\ j - 1 = k /\ i \in 1 .. j - 2
    BY <1>1, <1>8
  <2>2. \A m \in 1 .. j - 2 : Group(ts, m, j - 1) => Pure(ts, m, j)
    BY <1>2, <1>8, <2>1, SupportedAt
  <2>3. QED  BY <1>4, <2>1, <2>2
<1>9. QED  BY <1>6, <1>7, <1>8 DEF Alone

-----------------------------------------------------------------------------
(* One operator and operand more *)

\* Whatever is read after the next operator, with it the query selects what is
\* meant.
Continues(text, ts, Q, level, i, k, q) ==
  k <= Len(ts) /\ ts[k] \in Operators[level] =>
    \A n \in k + 2 .. Len(ts) + 1 : \A c \in Q[n - (k + 1)] :
      (/\ Closed(ts, k + 1, n, Loose[level]) /\ Selects(text, c) = PartMeans(text, ts, k + 1, n)
       /\ Fits(ts[k] = ">>", c))
      => Selects(text, Combine(level, q, ts[k], c)) = PartMeans(text, ts, i, n)

\* What a level has taken so far.
Taken(text, ts, Q, level, i) ==
  {r \in Parses(ts, Q, i) :
     r.ok => ReadsAs(text, ts, Q, level, i, r.at, r.q) /\ Continues(text, ts, Q, level, i, r.at, r.q)}

\* An operand is read so that what follows it can be added.
LEMMA BaseContinues ==
  ASSUME NEW text \in Seq(Symbols), NEW ts, NEW Q, Grammar(ts, Q),
         NEW i \in 1 .. Len(ts), NEW level \in Levels, NEW k \in i + 1 .. Len(ts) + 1,
         NEW q \in Q[k - i],
         ReadsAs(text, ts, Q, Below[level], i, k, q),
         Below[level] = "unary" => Alone(ts, i, k, q)
  PROVE  Continues(text, ts, Q, level, i, k, q)
<1>1. PICK len \in Nat : len = Len(ts)
  BY ParsingFacts
<1>2. ts \in Seq(Tokens)
  BY DEF Grammar
<1>3. PICK B \in Nat : B = Len(ts) + 1
  BY <1>1
<1>4. Heights(Q, B)
  BY <1>3 DEF Grammar
<1>5. SUFFICES ASSUME k <= Len(ts), ts[k] \in Operators[level],
                      NEW n \in k + 2 .. Len(ts) + 1, NEW c \in Q[n - (k + 1)],
                      Closed(ts, k + 1, n, Loose[level]), Selects(text, c) = PartMeans(text, ts, k + 1, n),
                      Fits(ts[k] = ">>", c)
               PROVE  Selects(text, Combine(level, q, ts[k], c)) = PartMeans(text, ts, i, n)
  BY DEF Continues
<1>6. /\ Closed(ts, i, k, Loose[Below[level]]) /\ Selects(text, q) = PartMeans(text, ts, i, k)
      /\ Pure(ts, i, k) => Plain(text, Q, B, k - i, q)
  BY <1>3 DEF ReadsAs
<1>7. PICK m \in i + 1 .. Len(ts) : m = k
  BY <1>1, <1>5
<1>8. PartMeans(text, ts, i, n) = Joined(text, level, ts[k], PartMeans(text, ts, i, k), PartMeans(text, ts, k + 1, n))
  <2>1. \A j \in i + 1 .. Len(ts) : j = k =>
          PartMeans(text, ts, i, n) = Joined(text, level, ts[j], PartMeans(text, ts, i, j), PartMeans(text, ts, j + 1, n))
    BY <1>2, <1>5, <1>6, MeansSplit, ZenonT(60)
  <2>2. QED  BY <1>7, <2>1
<1>9. PICK a \in 0 .. B, b \in 0 .. B : a = k - i /\ b = n - (k + 1) /\ a + b <= B
  BY <1>1, <1>3, <1>5, <1>7
<1>10. level = "contains" => Plain(text, Q, B, a, q)
  <2>1. SUFFICES ASSUME level = "contains"
                 PROVE  Pure(ts, i, k)
    BY <1>6, <1>9
  <2>2. Below[level] = "unary" /\ Operators[level] = {">", ">>"}
    BY <2>1 DEF Below, Operators
  <2>3. QED  BY <1>5, <2>2 DEF Alone
<1>11. Selects(text, Combine(level, q, ts[k], c))
       = Joined(text, level, ts[k], Selects(text, q), Selects(text, c))
  <2>1. level \in {"or", "and", "contains"}
    BY DEF Levels
  <2>2. q \in Q[a] /\ c \in Q[b]
    BY <1>9
  <2>3. level = "contains" => Plain(text, Q, B, a, q) /\ Fits(ts[k] = ">>", c)
    BY <1>5, <1>10
  <2>4. QED  BY <1>4, <1>9, <2>1, <2>2, <2>3, CombineSelects
<1>12. QED  BY <1>5, <1>6, <1>8, <1>11

\* The operator of a query is that of what it begins with.
LEMMA CombineFits ==
  ASSUME NEW B \in Nat, NEW Q, Heights(Q, B), NEW a \in 0 .. B, NEW b \in 0 .. B, a + b <= B,
         NEW q \in Q[a], NEW c \in Q[b], NEW t, NEW d, Fits(d, q)
  PROVE  Fits(d, Combine("contains", q, t, c))
<1>1. PICK e \in BOOLEAN : e = (t = ">>")
  <2>1. CASE t = ">>"
    BY <2>1
  <2>2. CASE t # ">>"
    BY <2>2
  <2>3. QED  BY <2>1, <2>2
<1>2. Combine("contains", q, t, c) = AttachContains(q, c, e)
  BY <1>1 DEF Combine
<1>3. AttachContains(q, c, e).op = q.op
  <2>1. \A z \in BOOLEAN : AttachContains(q, c, z).op = q.op
    BY AttachBy
  <2>2. QED  BY <2>1
<1>4. QED  BY <1>2, <1>3 DEF Fits

\* What is added to what has been taken fits.
LEMMA NextFits ==
  ASSUME NEW ts \in Seq(Tokens), Supported(ts), NEW level \in Levels, NEW m \in 1 .. Len(ts),
         ts[m] \in Operators[level], NEW k, NEW u, Below[level] = "unary" => Alone(ts, m + 1, k, u)
  PROVE  /\ Fits(ts[m] = ">>", u)
         /\ ts[m] = ">>" => level = "contains"
<1>1. ts[m] = ">>" => level = "contains"
  BY LevelFacts DEF Levels
<1>2. ASSUME ts[m] = ">>"
      PROVE  u.op = ""
  <2>1. m + 1 <= Len(ts) /\ ts[m + 1] \in DOMAIN Selector
    BY <1>2, SupportedAt
  <2>2. Below[level] = "unary"
    BY <1>1, <1>2 DEF Below
  <2>3. u = Simple(ts[m + 1])
    BY <2>1, <2>2 DEF Alone
  <2>4. QED  BY <2>3 DEF Simple
<1>3. QED  BY <1>1, <1>2 DEF Fits

\* One operator and operand more: what is taken is read, and what follows can
\* be added.
LEMMA ReadsMore ==
  ASSUME NEW text \in Seq(Symbols), NEW ts, NEW Q, Grammar(ts, Q), Supported(ts),
         NEW i \in 1 .. Len(ts), NEW level \in Levels, NEW m \in i + 1 .. Len(ts),
         NEW q \in Q[m - i], ts[m] \in Operators[level],
         ReadsAs(text, ts, Q, level, i, m, q), Continues(text, ts, Q, level, i, m, q),
         NEW k \in m + 2 .. Len(ts) + 1, NEW u \in Q[k - (m + 1)],
         ReadsAs(text, ts, Q, Below[level], m + 1, k, u),
         Below[level] = "unary" => Alone(ts, m + 1, k, u),
         NEW x, x = Combine(level, q, ts[m], u)
  PROVE  ReadsAs(text, ts, Q, level, i, k, x) /\ Continues(text, ts, Q, level, i, k, x)
<1>1. PICK len \in Nat : len = Len(ts)
  BY ParsingFacts
<1>2. ts \in Seq(Tokens)
  BY DEF Grammar
<1>3. PICK B \in Nat : B = Len(ts) + 1
  BY <1>1
<1>4. Heights(Q, B)
  BY <1>3 DEF Grammar
<1>5. level \in {"or", "and", "contains"}
  BY DEF Levels
<1>6. PICK j \in 1 .. Len(ts) : j = m + 1 /\ k \in j + 1 .. Len(ts) + 1
  BY <1>1
<1>7. Fits(ts[m] = ">>", u) /\ (ts[m] = ">>" => level = "contains")
  <2>1. m \in 1 .. Len(ts)
    BY <1>1
  <2>2. QED  BY <1>2, <2>1, NextFits
<1>8. Closed(ts, j, k, Loose[level]) /\ Selects(text, u) = PartMeans(text, ts, j, k)
  <2>1. Closed(ts, j, k, Loose[Below[level]]) /\ Selects(text, u) = PartMeans(text, ts, j, k)
    BY <1>6 DEF ReadsAs
  <2>2. Loose[level] \subseteq Loose[Below[level]]
    BY LevelFacts
  <2>3. Tops(ts, j, k, Loose[level]) \subseteq Tops(ts, j, k, Loose[Below[level]])
    BY <2>2 DEF Tops
  <2>4. QED  BY <2>1, <2>3 DEF Closed
<1>9. Closed(ts, i, m, Loose[level])
  BY DEF ReadsAs
<1>10. Closed(ts, i, k, Loose[level])
  BY <1>2, <1>6, <1>8, <1>9, ClosedJoin
<1>11. Selects(text, x) = PartMeans(text, ts, i, k)
  <2>1. m <= Len(ts)
    BY <1>1
  <2>2. QED  BY <1>6, <1>7, <1>8, <2>1 DEF Continues
<1>12. PICK a \in 0 .. B, b \in 0 .. B, ab \in 0 .. B :
         a = m - i /\ b = k - j /\ a + b <= B /\ ab = a + b /\ k - i \in ab .. B /\ k - i \in 0 .. B
  BY <1>1, <1>3, <1>6
<1>13. q \in Q[a] /\ u \in Q[b]
  BY <1>6, <1>12
<1>14. ASSUME Pure(ts, i, k)
       PROVE  Plain(text, Q, Len(ts) + 1, k - i, x)
  <2>1. /\ \A e \in i .. m - 1 : e \in i .. k - 1
        /\ \A e \in j .. k - 1 : e \in i .. k - 1
        /\ m \in i .. k - 1
    BY <1>1, <1>6
  <2>2. Pure(ts, i, m) /\ Pure(ts, j, k) /\ ts[m] \notin {">", ">>"}
    BY <1>14, <2>1 DEF Pure
  <2>3. Plain(text, Q, B, a, q)
    BY <1>3, <1>12, <2>2 DEF ReadsAs
  <2>4. Plain(text, Q, B, b, u)
    BY <1>3, <1>6, <1>12, <2>2 DEF ReadsAs
  <2>5. level # "contains"
    BY <2>2, LevelFacts
  <2>6. PICK op \in {"OR", "AND"} : x = MergeBinary(op, q, u)
    <3>1. CASE level = "or"
      BY <3>1 DEF Combine
    <3>2. CASE level = "and"
      BY <3>2 DEF Combine
    <3>3. QED  BY <1>5, <2>5, <3>1, <3>2
  <2>7. Plain(text, Q, B, a + b, x)
    BY <1>4, <1>12, <1>13, <2>3, <2>4, <2>6, PlainMerge
  <2>8. Plain(text, Q, B, k - i, x)
    <3>1. Plain(text, Q, B, ab, x)
      BY <1>12, <2>7
    <3>2. \A h \in ab .. B : Plain(text, Q, B, h, x)
      BY <3>1, PlainGrow
    <3>3. QED  BY <1>12, <3>2
  <2>9. QED  BY <1>3, <2>8
<1>15. ReadsAs(text, ts, Q, level, i, k, x)
  BY <1>10, <1>11, <1>14 DEF ReadsAs
<1>16. Continues(text, ts, Q, level, i, k, x)
  <2>1. SUFFICES ASSUME k <= Len(ts), ts[k] \in Operators[level],
                        NEW n \in k + 2 .. Len(ts) + 1, NEW c \in Q[n - (k + 1)],
                        Closed(ts, k + 1, n, Loose[level]), Selects(text, c) = PartMeans(text, ts, k + 1, n),
                        Fits(ts[k] = ">>", c)
                 PROVE  Selects(text, Combine(level, x, ts[k], c)) = PartMeans(text, ts, i, n)
    BY DEF Continues
  <2>2. PICK g \in 0 .. B, bg \in 0 .. B, top \in 0 .. B :
          /\ g = n - (k + 1) /\ a + b + g <= B /\ bg = b + g /\ b + g <= B
          /\ top = n - (m + 1) /\ top \in bg .. B
    <3>1. /\ i \in Int /\ 1 <= i /\ m \in Int /\ i + 1 <= m
          /\ k \in Int /\ m + 2 <= k /\ n \in Int /\ k + 2 <= n /\ n <= B
          /\ a = m - i /\ b = k - (m + 1)
      BY <1>1, <1>3, <1>6, <1>12, <2>1
    <3>2. PICK g \in Int : g = n - (k + 1)
      BY <3>1, SMTT(60)
    <3>3. a + b + g = (n - i) - 2 /\ b + g = n - (m + 2)
      BY <3>1, <3>2
    <3>4. PICK bg \in Int, top \in Int : bg = b + g /\ top = n - (m + 1)
      BY <3>1, <3>2
    <3>5. /\ 0 <= g /\ g <= B /\ 0 <= bg /\ bg <= B /\ 0 <= top /\ top <= B
          /\ bg <= top /\ a + b + g <= B /\ b + g <= B
      BY <3>1, <3>2, <3>3, <3>4
    <3>6. g \in 0 .. B /\ bg \in 0 .. B /\ top \in 0 .. B /\ top \in bg .. B
      BY <3>5
    <3>7. QED  BY <3>2, <3>4, <3>5, <3>6
  <2>3. c \in Q[g]
    BY <2>1, <2>2
  <2>4. PICK y : y = Combine(level, u, ts[k], c)
    OBVIOUS
  <2>5. Selects(text, Combine(level, x, ts[k], c)) = Selects(text, Combine(level, q, ts[m], y))
    BY <1>4, <1>5, <1>12, <1>13, <2>2, <2>3, <2>4, CombineAssociates, SMTT(60)
  <2>6. y \in Q[n - (m + 1)]
    <3>1. y \in Q[bg]
      BY <1>4, <1>5, <1>13, <2>2, <2>3, <2>4, CombineTyped
    <3>2. Q[bg] \subseteq Q[top]
      <4>1. \A h \in bg .. B : Q[bg] \subseteq Q[h]
        BY <1>4, HeightsGrow
      <4>2. QED  BY <2>2, <4>1
    <3>3. QED  BY <2>2, <3>1, <3>2
  <2>7. Selects(text, y) = PartMeans(text, ts, j, n)
    <3>1. Continues(text, ts, Q, level, j, k, u)
      <4>1. u \in Q[k - j]
        BY <1>6
      <4>2. ReadsAs(text, ts, Q, Below[level], j, k, u)
        BY <1>6
      <4>3. Below[level] = "unary" => Alone(ts, j, k, u)
        BY <1>6
      <4>4. QED  BY <1>6, <4>1, <4>2, <4>3, BaseContinues
    <3>2. QED  BY <2>1, <2>4, <3>1 DEF Continues
  <2>8. Closed(ts, j, n, Loose[level])
    <3>1. PICK h \in j + 1 .. Len(ts) : h = k
      BY <1>6, <2>1
    <3>2. \A e \in j + 1 .. Len(ts) : e = k => Closed(ts, j, n, Loose[level])
      BY <1>2, <1>8, <2>1, ClosedJoin
    <3>3. QED  BY <3>1, <3>2
  <2>9. Fits(ts[m] = ">>", y)
    <3>1. CASE ts[m] = ">>"
      <4>1. level = "contains"
        BY <1>7, <3>1
      <4>2. QED  BY <1>4, <1>7, <1>13, <2>2, <2>3, <2>4, <4>1, CombineFits
    <3>2. CASE ts[m] # ">>"
      BY <3>2 DEF Fits
    <3>3. QED  BY <3>1, <3>2
  <2>10. Selects(text, Combine(level, q, ts[m], y)) = PartMeans(text, ts, i, n)
    <3>1. m <= Len(ts) /\ n \in m + 2 .. Len(ts) + 1
      BY <1>1, <2>1
    <3>2. QED  BY <1>6, <2>6, <2>7, <2>8, <2>9, <3>1 DEF Continues
  <2>11. QED  BY <2>5, <2>10
<1>17. QED  BY <1>15, <1>16

-----------------------------------------------------------------------------
(* The parser reads what a selector means *)

\* parseUnary reads what it takes, if the parsers it calls do.
LEMMA UnaryReads ==
  ASSUME NEW text \in Seq(Symbols), NEW ts, NEW Q, Grammar(ts, Q), Supported(ts),
         NEW i \in 1 .. Len(ts) + 1, NEW parse,
         i + 1 <= Len(ts) + 1 => /\ parse[<<"unary", i + 1>>] \in Reads(text, ts, Q, "unary", i + 1)
                                 /\ parse[<<"or", i + 1>>] \in Reads(text, ts, Q, "or", i + 1)
  PROVE  ParseUnary(ts, i, parse) \in Reads(text, ts, Q, "unary", i)
<1>1. PICK len \in Nat : len = Len(ts)
  BY ParsingFacts
<1>2. PICK p : p = ParseUnary(ts, i, parse)
  OBVIOUS
<1>3. p \in Parses(ts, Q, i)
  <2>1. i + 1 <= Len(ts) + 1 => /\ parse[<<"unary", i + 1>>] \in Parses(ts, Q, i + 1)
                                /\ parse[<<"or", i + 1>>] \in Parses(ts, Q, i + 1)
    BY DEF Reads
  <2>2. QED  BY <1>2, <2>1, UnaryTyped
<1>4. SUFFICES ASSUME p.ok
               PROVE  ReadsAs(text, ts, Q, "unary", i, p.at, p.q) /\ Alone(ts, i, p.at, p.q)
  BY <1>2, <1>3 DEF Reads
<1>5. ~Fail.ok
  BY DEF Fail
<1>6. \A q, k : Accepted(q, k).at = k /\ Accepted(q, k).q = q
  BY DEF Accepted
<1>7. CASE TokenAt(ts, i, "!")
  <2>1. i \in 1 .. Len(ts) /\ ts[i] = "!"
    BY <1>1, <1>7 DEF TokenAt
  <2>2. PICK r : r = parse[<<"unary", i + 1>>]
    OBVIOUS
  <2>3. i + 1 <= Len(ts) /\ ts[i + 1] \in DOMAIN Selector
    BY <2>1, SupportedAt DEF Grammar
  <2>4. r \in Reads(text, ts, Q, "unary", i + 1)
    BY <1>1, <2>1, <2>2
  <2>5. p = IF r.ok THEN Accepted(Compound("NOT", <<r.q>>), r.at) ELSE Fail
    BY <1>2, <1>7, <2>2 DEF ParseUnary
  <2>6. r.ok /\ p = Accepted(Compound("NOT", <<r.q>>), r.at)
    BY <1>4, <1>5, <2>5
  <2>7. Alone(ts, i + 1, r.at, r.q)
    BY <2>4, <2>6 DEF Reads
  <2>8. r.at = i + 2 /\ r.q = Simple(ts[i + 1])
    BY <1>1, <2>1, <2>3, <2>7 DEF Alone
  <2>9. p.at = i + 2 /\ p.q = Compound("NOT", <<Simple(ts[i + 1])>>)
    BY <1>6, <2>6, <2>8
  <2>10. QED  BY <2>1, <2>9, NotReads
<1>8. CASE ~TokenAt(ts, i, "!") /\ TokenAt(ts, i, "(")
  <2>1. i \in 1 .. Len(ts) /\ ts[i] = "("
    BY <1>1, <1>8 DEF TokenAt
  <2>2. PICK r : r = parse[<<"or", i + 1>>]
    OBVIOUS
  <2>3. r \in Reads(text, ts, Q, "or", i + 1)
    BY <1>1, <2>1, <2>2
  <2>4. p = IF r.ok /\ TokenAt(ts, r.at, ")") THEN Accepted(r.q, r.at + 1) ELSE Fail
    BY <1>2, <1>8, <2>2 DEF ParseUnary
  <2>5. r.ok /\ TokenAt(ts, r.at, ")") /\ p = Accepted(r.q, r.at + 1)
    BY <1>4, <1>5, <2>4
  <2>6. ReadsAs(text, ts, Q, "or", i + 1, r.at, r.q)
    BY <2>3, <2>5 DEF Reads
  <2>7. PICK k \in i + 2 .. Len(ts) : k = r.at /\ ts[k] = ")"
    <3>1. r.at \in (i + 1) + 1 .. Len(ts) + 1
      BY <2>3, <2>5 DEF Reads, Parses
    <3>2. r.at <= Len(ts) /\ ts[r.at] = ")"
      BY <2>5 DEF TokenAt
    <3>3. r.at \in i + 2 .. Len(ts)
      BY <1>1, <2>1, <3>1, <3>2
    <3>4. QED  BY <3>2, <3>3
  <2>8. p.at = k + 1 /\ p.q = r.q
    BY <1>6, <2>5, <2>7
  <2>9. QED  BY <2>1, <2>6, <2>7, <2>8, GroupReads
<1>9. CASE ~TokenAt(ts, i, "!") /\ ~TokenAt(ts, i, "(")
  <2>1. p = IF i <= Len(ts) /\ ts[i] \in DOMAIN Selector THEN Accepted(Simple(ts[i]), i + 1) ELSE Fail
    BY <1>2, <1>9 DEF ParseUnary
  <2>2. i <= Len(ts) /\ ts[i] \in DOMAIN Selector /\ p = Accepted(Simple(ts[i]), i + 1)
    BY <1>4, <1>5, <2>1
  <2>3. i \in 1 .. Len(ts)
    BY <1>1, <2>2
  <2>4. p.at = i + 1 /\ p.q = Simple(ts[i])
    BY <1>6, <2>2
  <2>5. QED  BY <2>2, <2>3, <2>4, SelectorReads
<1>10. QED  BY <1>7, <1>8, <1>9

\* One operator and operand more, read as they mean.
LEMMA ExtendTaken ==
  ASSUME NEW text \in Seq(Symbols), NEW ts, NEW Q, Grammar(ts, Q), Supported(ts),
         NEW i \in 1 .. Len(ts) + 1, NEW level \in Levels, NEW operand,
         \A j \in i .. Len(ts) + 1 : operand[j] \in Reads(text, ts, Q, Below[level], j),
         NEW l \in Taken(text, ts, Q, level, i)
  PROVE  Extend(ts, level, l, operand) \in Taken(text, ts, Q, level, i)
<1>1. PICK len \in Nat : len = Len(ts)
  BY ParsingFacts
<1>2. PICK p : p = Extend(ts, level, l, operand)
  OBVIOUS
<1>3. p \in Parses(ts, Q, i)
  <2>1. \A j \in i .. Len(ts) + 1 : operand[j] \in Parses(ts, Q, j)
    BY DEF Reads
  <2>2. l \in Parses(ts, Q, i)
    BY DEF Taken
  <2>3. level \in {"or", "and", "contains"}
    BY DEF Levels
  <2>4. QED  BY <1>2, <2>1, <2>2, <2>3, ExtendTyped
<1>4. CASE l.ok /\ l.at <= Len(ts) /\ ts[l.at] \in Operators[level]
  <2>1. l.at \in i + 1 .. Len(ts) + 1 /\ l.q \in Q[l.at - i]
    BY <1>4 DEF Taken, Parses
  <2>2. PICK m \in i + 1 .. Len(ts) : m = l.at /\ i \in 1 .. Len(ts) /\ m + 1 \in i .. Len(ts) + 1
    BY <1>1, <1>4, <2>1
  <2>3. PICK r : r = operand[m + 1]
    OBVIOUS
  <2>4. r \in Reads(text, ts, Q, Below[level], m + 1)
    BY <2>2, <2>3
  <2>5. p = IF r.ok THEN Accepted(Combine(level, l.q, ts[m], r.q), r.at) ELSE Fail
    BY <1>2, <1>4, <2>2, <2>3 DEF Extend
  <2>6. SUFFICES ASSUME r.ok
                 PROVE  ReadsAs(text, ts, Q, level, i, p.at, p.q) /\ Continues(text, ts, Q, level, i, p.at, p.q)
    <3>1. ~Fail.ok
      BY DEF Fail
    <3>2. p.ok => r.ok
      BY <2>5, <3>1
    <3>3. QED  BY <1>2, <1>3, <3>2 DEF Taken
  <2>7. p.at = r.at /\ p.q = Combine(level, l.q, ts[m], r.q)
    BY <2>5, <2>6 DEF Accepted
  <2>8. r.at \in (m + 1) + 1 .. Len(ts) + 1 /\ r.q \in Q[r.at - (m + 1)]
    BY <2>4, <2>6 DEF Reads, Parses
  <2>9. PICK k \in m + 2 .. Len(ts) + 1 : k = r.at
    BY <1>1, <2>2, <2>8
  <2>10. /\ ReadsAs(text, ts, Q, level, i, m, l.q) /\ Continues(text, ts, Q, level, i, m, l.q)
         /\ l.q \in Q[m - i] /\ ts[m] \in Operators[level]
    BY <1>4, <2>1, <2>2 DEF Taken
  <2>11. /\ ReadsAs(text, ts, Q, Below[level], m + 1, k, r.q)
         /\ Below[level] = "unary" => Alone(ts, m + 1, k, r.q)
         /\ r.q \in Q[k - (m + 1)]
    BY <2>4, <2>6, <2>8, <2>9 DEF Reads
  <2>12. PICK q, u : q = l.q /\ u = r.q
    OBVIOUS
  <2>13. ReadsAs(text, ts, Q, level, i, k, p.q) /\ Continues(text, ts, Q, level, i, k, p.q)
    BY <2>2, <2>7, <2>10, <2>11, <2>12, ReadsMore
  <2>14. QED  BY <2>7, <2>9, <2>13
<1>5. CASE ~(l.ok /\ l.at <= Len(ts) /\ ts[l.at] \in Operators[level])
  BY <1>5 DEF Extend
<1>6. QED  BY <1>2, <1>4, <1>5

\* parseOr, parseAnd and parseContains read what they take, if the level
\* below does.
LEMMA OperandsRead ==
  ASSUME NEW text \in Seq(Symbols), NEW ts, NEW Q, Grammar(ts, Q), Supported(ts),
         NEW i \in 1 .. Len(ts) + 1, NEW level \in Levels, NEW operand,
         \A j \in i .. Len(ts) + 1 : operand[j] \in Reads(text, ts, Q, Below[level], j)
  PROVE  ParseOperands(ts, level, i, operand) \in Reads(text, ts, Q, level, i)
<1>1. PICK len \in Nat : len = Len(ts)
  BY ParsingFacts
<1>2. PICK g : /\ IsLeft(g, ts, level, i, operand)
               /\ ParseOperands(ts, level, i, operand) = g[Len(ts)]
  BY LeftRun DEF Grammar
<1>3. \A n \in 0 .. len : g[n] = IF n = 0 THEN operand[i] ELSE Extend(ts, level, g[n - 1], operand)
  BY <1>1, <1>2 DEF IsLeft
<1> DEFINE T == {n \in Nat : n <= len => g[n] \in Taken(text, ts, Q, level, i)}
<1>4. 0 \in T
  <2>1. 0 \in 0 .. len
    OBVIOUS
  <2>2. g[0] = operand[i]
    BY <1>3, <2>1
  <2>3. i \in i .. Len(ts) + 1
    BY <1>1
  <2>4. PICK r : r = operand[i]
    OBVIOUS
  <2>5. r \in Reads(text, ts, Q, Below[level], i)
    BY <2>3, <2>4
  <2>6. ASSUME r.ok
        PROVE  ReadsAs(text, ts, Q, level, i, r.at, r.q) /\ Continues(text, ts, Q, level, i, r.at, r.q)
    <3>1. r.at \in i + 1 .. Len(ts) + 1 /\ r.q \in Q[r.at - i]
      BY <2>5, <2>6 DEF Reads, Parses
    <3>2. PICK k \in i + 1 .. Len(ts) + 1 : k = r.at /\ i \in 1 .. Len(ts)
      BY <1>1, <3>1
    <3>3. /\ ReadsAs(text, ts, Q, Below[level], i, k, r.q)
          /\ Below[level] = "unary" => Alone(ts, i, k, r.q)
          /\ r.q \in Q[k - i]
      BY <2>5, <2>6, <3>1, <3>2 DEF Reads
    <3>4. PICK q \in Q[k - i] : q = r.q
      BY <3>3
    <3>5. Continues(text, ts, Q, level, i, k, q)
      BY <3>2, <3>3, <3>4, BaseContinues
    <3>6. ReadsAs(text, ts, Q, level, i, k, q)
      <4>1. Loose[level] \subseteq Loose[Below[level]]
        BY LevelFacts
      <4>2. Tops(ts, i, k, Loose[level]) \subseteq Tops(ts, i, k, Loose[Below[level]])
        BY <4>1 DEF Tops
      <4>3. QED  BY <3>3, <3>4, <4>2 DEF ReadsAs, Closed
    <3>7. QED  BY <3>2, <3>4, <3>5, <3>6
  <2>7. r \in Taken(text, ts, Q, level, i)
    BY <2>5, <2>6 DEF Taken, Reads
  <2>8. QED  BY <2>2, <2>4, <2>7
<1>5. ASSUME NEW n \in Nat, n \in T
      PROVE  n + 1 \in T
  <2>1. SUFFICES ASSUME n + 1 <= len
                 PROVE  g[n + 1] \in Taken(text, ts, Q, level, i)
    OBVIOUS
  <2>2. PICK l : l = g[n]
    OBVIOUS
  <2>3. l \in Taken(text, ts, Q, level, i)
    BY <1>5, <2>1, <2>2
  <2>4. n + 1 \in 0 .. len /\ n + 1 # 0 /\ (n + 1) - 1 = n
    BY <2>1
  <2>5. g[n + 1] = Extend(ts, level, l, operand)
    BY <1>3, <2>2, <2>4
  <2>6. QED  BY <2>3, <2>5, ExtendTaken
<1>6. Nat \subseteq T
  <2> HIDE DEF T
  <2>1. QED  BY <1>4, <1>5, Induct
<1>7. len \in T
  BY <1>6
<1>8. g[len] \in Taken(text, ts, Q, level, i)
  BY <1>7
<1>9. level # "unary"
  BY DEF Levels
<1>10. g[len] \in Reads(text, ts, Q, level, i)
  BY <1>8, <1>9 DEF Taken, Reads
<1>11. QED  BY <1>1, <1>2, <1>10

\* One parser reads what it takes, if the lower ones do.
LEMMA ParseAtReads ==
  ASSUME NEW text \in Seq(Symbols), NEW ts, NEW Q, Grammar(ts, Q), Supported(ts),
         NEW c \in Starts(ts), NEW w,
         \A e \in Lower(Starts(ts), ParseRank(ts), c) : w[e] \in Reads(text, ts, Q, e[1], e[2])
  PROVE  ParseAt(ts, c, w) \in Reads(text, ts, Q, c[1], c[2])
<1>1. PICK level \in {"or", "and", "contains", "unary"}, i \in 1 .. Len(ts) + 1 : c = <<level, i>>
  BY DEF Starts
<1>2. c[1] = level /\ c[2] = i
  BY <1>1
<1>3. CASE level = "unary"
  <2>1. ASSUME i + 1 <= Len(ts) + 1
        PROVE  /\ w[<<"unary", i + 1>>] \in Reads(text, ts, Q, "unary", i + 1)
               /\ w[<<"or", i + 1>>] \in Reads(text, ts, Q, "or", i + 1)
    <3>1. PICK d, e : d = <<"unary", i + 1>> /\ e = <<"or", i + 1>>
      OBVIOUS
    <3>2. d \in Lower(Starts(ts), ParseRank(ts), c) /\ e \in Lower(Starts(ts), ParseRank(ts), c)
      BY <1>1, <1>3, <2>1, <3>1, CallsLower
    <3>3. d[1] = "unary" /\ d[2] = i + 1 /\ e[1] = "or" /\ e[2] = i + 1
      BY <3>1
    <3>4. w[d] \in Reads(text, ts, Q, d[1], d[2]) /\ w[e] \in Reads(text, ts, Q, e[1], e[2])
      BY <3>2
    <3>5. QED  BY <3>1, <3>3, <3>4
  <2>2. ParseUnary(ts, i, w) \in Reads(text, ts, Q, "unary", i)
    BY <2>1, UnaryReads
  <2>3. QED  BY <1>2, <1>3, <2>2 DEF ParseAt
<1>4. CASE level # "unary"
  <2>1. level \in {"or", "and", "contains"} /\ level \in Levels
    BY <1>4 DEF Levels
  <2>2. PICK operand : operand = [j \in i .. Len(ts) + 1 |-> w[<<Below[level], j>>]]
    OBVIOUS
  <2>3. ASSUME NEW j \in i .. Len(ts) + 1
        PROVE  operand[j] \in Reads(text, ts, Q, Below[level], j)
    <3>1. PICK e : e = <<Below[level], j>>
      OBVIOUS
    <3>2. e[1] = Below[level] /\ e[2] = j
      BY <3>1
    <3>3. e \in Lower(Starts(ts), ParseRank(ts), c)
      BY <1>1, <2>1, <3>1, CallsLower
    <3>4. w[e] \in Reads(text, ts, Q, Below[level], j)
      BY <3>2, <3>3
    <3>5. QED  BY <2>2, <3>1, <3>4
  <2>4. ParseOperands(ts, level, i, operand) \in Reads(text, ts, Q, level, i)
    BY <2>1, <2>3, OperandsRead
  <2>5. QED  BY <1>2, <1>4, <2>2, <2>4 DEF ParseAt
<1>5. QED  BY <1>3, <1>4

\* The parser reads what it takes.
LEMMA ParseReads ==
  ASSUME NEW text \in Seq(Symbols), NEW ts, NEW Q, Grammar(ts, Q), Supported(ts)
  PROVE  ParseFrom(ts) \in Reads(text, ts, Q, "or", 1)
<1>1. PICK len \in Nat : len = Len(ts)
  BY ParsingFacts
<1>2. PICK g : /\ ParseFrom(ts) = g[<<"or", 1>>]
               /\ \A c \in Starts(ts) : g[c] = ParseAt(ts, c, g)
  BY ParseRun
<1>3. PICK D : D = Starts(ts)
  OBVIOUS
<1>4. PICK rank : rank = ParseRank(ts)
  OBVIOUS
<1>5. PICK h \in Nat : h = 4 * (len + 1)
  OBVIOUS
<1>6. PICK V : V = [c \in D |-> Reads(text, ts, Q, c[1], c[2])]
  OBVIOUS
<1>7. \A c \in D : rank[c] \in 0 .. h - 1
  <2>1. ASSUME NEW c \in D
        PROVE  rank[c] \in 0 .. h - 1
    <3>1. PICK level \in {"or", "and", "contains", "unary"}, i \in 1 .. Len(ts) + 1 : c = <<level, i>>
      BY <1>3 DEF Starts
    <3>2. rank[c] \in 0 .. 4 * (Len(ts) + 1) - 1
      BY <1>4, <3>1, CallsLower
    <3>3. QED  BY <1>1, <1>5, <3>2
  <2>2. QED  BY <2>1
<1>8. ASSUME NEW c \in D, \A e \in Lower(D, rank, c) : g[e] \in V[e]
      PROVE  g[c] \in V[c]
  <2>1. \A e \in Lower(D, rank, c) : g[e] \in Reads(text, ts, Q, e[1], e[2])
    BY <1>6, <1>8 DEF Lower
  <2>2. ParseAt(ts, c, g) \in Reads(text, ts, Q, c[1], c[2])
    BY <1>3, <1>4, <2>1, ParseAtReads
  <2>3. QED  BY <1>2, <1>3, <1>6, <2>2
<1>9. Inherits(D, rank, h, V, g)
  BY <1>7, <1>8 DEF Inherits
<1>10. PICK c : c = <<"or", 1>>
  OBVIOUS
<1>11. c \in D /\ c[1] = "or" /\ c[2] = 1
  <2>1. 1 \in 1 .. Len(ts) + 1
    BY <1>1
  <2>2. QED  BY <1>3, <1>10, <2>1 DEF Starts
<1>12. g[c] \in V[c]
  BY <1>9, <1>11, RecursionTypes DEF Typed
<1>13. QED  BY <1>2, <1>6, <1>10, <1>11, <1>12

\* A supported selector, parsed, selects the nodes it means.
LEMMA ParsedMeans ==
  ASSUME NEW text \in Seq(Symbols), NEW ts \in Seq(Tokens), Supported(ts), ParseDSL(ts).ok
  PROVE  Selects(text, ParseDSL(ts).q) = Means(text, ts)
<1>1. PICK len \in Nat : len = Len(ts)
  BY LenProperties
<1>2. PICK B \in Nat : B = Len(ts) + 1
  BY <1>1
<1>3. PICK Q : Heights(Q, B)
  BY HeightsExist
<1>4. Grammar(ts, Q)
  BY <1>2, <1>3 DEF Grammar
<1>5. PICK r : r = ParseFrom(ts)
  OBVIOUS
<1>6. r.ok /\ r.at = Len(ts) + 1 /\ ParseDSL(ts) = r
  <2>1. ~Fail.ok
    BY DEF Fail
  <2>2. ParseDSL(ts) = IF r.ok /\ r.at = Len(ts) + 1 THEN r ELSE Fail
    BY <1>5 DEF ParseDSL
  <2>3. QED  BY <2>1, <2>2
<1>7. r \in Reads(text, ts, Q, "or", 1)
  BY <1>4, <1>5, ParseReads
<1>8. Selects(text, r.q) = PartMeans(text, ts, 1, Len(ts) + 1)
  BY <1>6, <1>7 DEF Reads, ReadsAs
<1>9. Part(ts, 1, Len(ts) + 1) = ts
  <2>1. (Len(ts) + 1) - 1 = Len(ts)
    BY <1>1
  <2>2. SubSeq(ts, 1, Len(ts)) = ts
    BY SubSeqFull
  <2>3. QED  BY <2>1, <2>2 DEF Part
<1>10. QED  BY <1>6, <1>8, <1>9 DEF PartMeans

-----------------------------------------------------------------------------
(* The inductive invariant *)

EditSteps == [ts: Selectors, method: Methods, min: 0 .. 100]
Dones     == [step: Nat, score: Int]

\* A command is one step.
CommandInv ==
  /\ command.steps \in Seq(EditSteps)
  /\ ~command.recipe => Len(command.steps) = 1

\* Where commands and recipes can be.
PlaceInv ==
  /\ ~command.recipe => /\ at \in {"start", "loaded", "transformed", "writing", "done", "failed", "torn"}
                        /\ step = 1
  /\ command.recipe => at \in {"start", "preflight", "apply", "done", "failed"}
  /\ at = "start" => step = 1
  /\ at \in {"preflight", "apply"} => step <= Len(command.steps)
  /\ at = "apply" => ~command.dry

\* What is written comes from the steps already taken.
DoneInv ==
  /\ done \in Seq(Dones)
  /\ \A i \in DOMAIN done : done[i].step \in 1 .. Len(command.steps)
  /\ ~command.recipe /\ at # "done" => done = <<>>

\* While nobody else writes the file, a command transforms what is in it; it
\* writes only what is changed.
SourceInv ==
  ~command.recipe =>
    /\ at = "transformed" /\ This.method # "query" =>
         result.ok /\ result = Transform(src, Parsed(This.ts).q, This.method, command.new)
    /\ ~edited /\ at \in {"loaded", "transformed", "writing"} => src = theirs
    /\ at = "writing" => command.file /\ result.out # src

\* Between the trial of a step and the step, the trial holds for the file,
\* unless it failed on the file.
Trial == Transform(disk, Parsed(This.ts).q, This.method, command.new)
TrialInv ==
  command.recipe /\ ~edited /\ at = "apply" /\ step \notin untried =>
    (Trial.ok => OverallConfidence(disk, Trial) >= This.min)

EditInductive ==
  /\ EditTypeOK /\ CommandInv /\ PlaceInv /\ DoneInv /\ SourceInv /\ TrialInv
  /\ AppliedTrue /\ RecipeGate

LEMMA EditStart ==
  ASSUME EditAssumptions, EditInit
  PROVE  EditInductive
<1>1. /\ at = "start" /\ step = 1 /\ src = <<>> /\ result = NoResult
      /\ applied = FALSE /\ done = <<>> /\ edited = FALSE /\ theirs = disk /\ untried = {}
  BY DEF EditInit
<1>2. command.steps \in Seq(EditSteps) /\ (~command.recipe => Len(command.steps) = 1)
  <2>1. CASE command \in SingleRuns
    <3>1. PICK ts \in Selectors, method \in Methods : command.steps = EditStep(ts, method)
      BY <2>1 DEF SingleRuns, SingleSteps
    <3>2. [ts |-> ts, method |-> method, min |-> 0] \in EditSteps
      BY DEF EditSteps
    <3>3. PICK t \in EditSteps : command.steps = <<t>>
      BY <3>1, <3>2 DEF EditStep
    <3>4. <<t>> \in Seq(EditSteps) /\ Len(<<t>>) = 1
      OBVIOUS
    <3>5. QED  BY <3>3, <3>4
  <2>2. CASE command \in RecipeRuns
    <3>1. command.steps \in Recipes
      BY <2>2 DEF RecipeRuns
    <3>2. command.steps \in Seq([ts: Selectors, method: StepMethods, min: 1 .. 100])
      BY <3>1 DEF EditAssumptions
    <3>3. [ts: Selectors, method: StepMethods, min: 1 .. 100] \subseteq EditSteps
      BY DEF EditSteps, StepMethods
    <3>4. command.steps \in Seq(EditSteps)
      BY <3>2, <3>3, SeqMonotonic
    <3>5. command.recipe = TRUE
      BY <2>2 DEF RecipeRuns
    <3>6. ~command.recipe => Len(command.steps) = 1
      BY <3>5, Zenon
    <3>7. QED  BY <3>4, <3>6
  <2>3. command \in SingleRuns \/ command \in RecipeRuns
    BY DEF EditInit
  <2>4. QED  BY <2>1, <2>2, <2>3
<1>3. Len(command.steps) \in Nat
  BY <1>2, LenProperties
<1>4. EditTypeOK
  <2>1. result.score = 0
    BY <1>1 DEF NoResult
  <2>2. step \in 1 .. Len(command.steps) + 1
    BY <1>1, <1>3
  <2>3. \A i \in DOMAIN done : done[i].step \in DOMAIN command.steps
    BY <1>1
  <2>4. result.score \in 0 .. 100
    BY <2>1
  <2>5. QED  BY <1>1, <2>2, <2>3, <2>4 DEF EditTypeOK
<1>5. DoneInv
  BY <1>1, EmptySeq DEF DoneInv
<1>6. AppliedTrue /\ RecipeGate
  <2>1. applied = (done # <<>>)
    BY <1>1
  <2>2. ~applied /\ at # "torn" /\ disk = theirs
    BY <1>1
  <2>3. AppliedTrue
    BY <2>1, <2>2, Zenon DEF AppliedTrue
  <2>4. RecipeGate
    BY <1>1 DEF RecipeGate
  <2>5. QED  BY <2>3, <2>4
<1>7. CommandInv /\ PlaceInv /\ SourceInv /\ TrialInv
  BY <1>1, <1>2 DEF CommandInv, PlaceInv, SourceInv, TrialInv
<1>8. QED  BY <1>4, <1>5, <1>6, <1>7 DEF EditInductive

\* A command or a recipe that fails has done what it has done.
LEMMA FailsStep ==
  ASSUME EditInductive, Fails, at \in {"start", "loaded", "preflight", "apply"},
         UNCHANGED <<disk, command, edited, theirs, untried>>
  PROVE  EditInductive'
BY DEF Fails, EditInductive, EditTypeOK, CommandInv, PlaceInv, DoneInv, SourceInv, TrialInv,
       AppliedTrue, RecipeGate, This

\* The facts about the place and the steps that every action needs.
LEMMA StepFacts ==
  ASSUME EditInductive
  PROVE  /\ Len(command.steps) \in Nat /\ DOMAIN command.steps = 1 .. Len(command.steps)
         /\ step \in 1 .. Len(command.steps) + 1
         /\ done \in Seq(Dones) /\ Len(done) \in Nat /\ DOMAIN done = 1 .. Len(done)
         /\ \A i \in 1 .. Len(done) : done[i] \in Dones
BY LenProperties, ElementOfSeq DEF EditInductive, EditTypeOK, CommandInv, DoneInv

LEMMA LoadStep ==
  ASSUME EditInductive, LoadSource
  PROVE  EditInductive'
<1>1. CASE Fails
  BY <1>1, FailsStep DEF LoadSource
<1>2. CASE /\ at' = "loaded" /\ src' = disk /\ UNCHANGED <<result, applied, done, step>>
  <2>1. /\ at = "start" /\ ~command.recipe /\ UNCHANGED <<disk, command, edited, theirs, untried>>
    BY DEF LoadSource
  <2>2. QED
    BY <1>2, <2>1 DEF EditInductive, EditTypeOK, CommandInv, PlaceInv, DoneInv, SourceInv, TrialInv,
       AppliedTrue, RecipeGate
<1>3. QED  BY <1>1, <1>2 DEF LoadSource

LEMMA TransformStep ==
  ASSUME EditInductive, TransformSource
  PROVE  EditInductive'
<1>1. at = "loaded" /\ UNCHANGED <<disk, command, edited, theirs, untried>> /\ ~command.recipe
  BY DEF TransformSource, EditInductive, PlaceInv
<1>2. CASE Fails
  BY <1>1, <1>2, FailsStep
<1>3. CASE ~Fails
  <2>1. PICK q, r :
          /\ q = Parsed(This.ts).q
          /\ r = IF This.method = "query"
                 THEN [NoResult EXCEPT !.ok = TRUE, !.out = src,
                         !.targets = FindTargets(src, Nodes(src), q[1])]
                 ELSE Transform(src, q, This.method, command.new)
    OBVIOUS
  <2>2. r.ok /\ at' = "transformed" /\ result' = r /\ UNCHANGED <<src, applied, done, step>>
    BY <1>3, <2>1 DEF TransformSource
  <2>3. r.score \in 0 .. 100
    <3>1. CASE This.method = "query"
      BY <2>1, <3>1 DEF NoResult
    <3>2. CASE This.method # "query"
      BY <2>1, <3>2, TransformScore
    <3>3. QED  BY <3>1, <3>2
  <2>4. EditTypeOK'
    BY <1>1, <2>2, <2>3 DEF EditTypeOK, EditInductive
  <2>5. SourceInv'
    BY <1>1, <2>1, <2>2 DEF SourceInv, EditInductive, This
  <2>6. CommandInv' /\ PlaceInv' /\ DoneInv' /\ TrialInv' /\ AppliedTrue' /\ RecipeGate'
    BY <1>1, <2>2 DEF EditInductive, CommandInv, PlaceInv, DoneInv, TrialInv, AppliedTrue,
       RecipeGate
  <2>7. QED  BY <2>4, <2>5, <2>6 DEF EditInductive
<1>4. QED  BY <1>2, <1>3

LEMMA SkipStep ==
  ASSUME EditInductive, SkipWrite
  PROVE  EditInductive'
<1>1. /\ at = "transformed" /\ at' = "done" /\ applied' = FALSE
      /\ UNCHANGED <<disk, command, step, src, result, done, edited, theirs, untried>>
  BY DEF SkipWrite
<1>2. ~command.recipe /\ done = <<>> /\ disk = theirs
  BY <1>1 DEF EditInductive, PlaceInv, DoneInv, AppliedTrue
<1>3. EditTypeOK' /\ CommandInv' /\ PlaceInv' /\ DoneInv' /\ SourceInv' /\ TrialInv' /\ RecipeGate'
  BY <1>1, <1>2 DEF EditInductive, EditTypeOK, CommandInv, PlaceInv, DoneInv, SourceInv, TrialInv,
     RecipeGate
<1>4. AppliedTrue'
  BY <1>1, <1>2 DEF AppliedTrue
<1>5. QED  BY <1>3, <1>4 DEF EditInductive

LEMMA TruncateStep ==
  ASSUME EditInductive, Truncate
  PROVE  EditInductive'
<1>1. /\ at = "transformed" /\ at' = "writing"
      /\ UNCHANGED <<command, step, src, result, applied, done, edited, theirs, untried>>
      /\ command.file /\ result.out # src
  BY DEF Truncate
<1>2. ~command.recipe /\ done = <<>> /\ ~applied
  BY <1>1 DEF EditInductive, PlaceInv, DoneInv, AppliedTrue
<1>3. QED
  BY <1>1, <1>2 DEF EditInductive, EditTypeOK, CommandInv, PlaceInv, DoneInv, SourceInv, TrialInv,
     AppliedTrue, RecipeGate

\* The log of what was written grows by a step.
LEMMA DoneGrows ==
  ASSUME NEW s \in Nat, NEW score \in Int, NEW d \in Seq(Dones),
         NEW e, e = Append(d, [step |-> s, score |-> score])
  PROVE  /\ e \in Seq(Dones) /\ Len(d) \in Nat /\ DOMAIN e = 1 .. Len(d) + 1 /\ e # <<>>
         /\ e[Len(d) + 1].step = s /\ e[Len(d) + 1].score = score
         /\ \A i \in 1 .. Len(d) : e[i] = d[i]
<1>1. PICK t \in Dones : t = [step |-> s, score |-> score]
  BY DEF Dones
<1>2. Append(d, t) \in Seq(Dones) /\ Len(Append(d, t)) = Len(d) + 1
      /\ Append(d, t)[Len(d) + 1] = t /\ \A i \in 1 .. Len(d) : Append(d, t)[i] = d[i]
  BY AppendProperties
<1>3. Len(d) \in Nat /\ DOMAIN Append(d, t) = 1 .. Len(d) + 1
  BY <1>2, LenProperties
<1>4. Append(d, t) # <<>>
  BY <1>2, <1>3, EmptySeq
<1>5. QED  BY <1>1, <1>2, <1>3, <1>4

LEMMA WriteStep ==
  ASSUME EditInductive, WriteModified
  PROVE  EditInductive'
<1>1. at = "writing" /\ UNCHANGED <<command, step, src, result, edited, theirs, untried>>
  BY DEF WriteModified
<1>2. /\ ~command.recipe /\ done = <<>> /\ step = 1 /\ Len(command.steps) = 1
      /\ command.file /\ result.out # src /\ (~edited => src = theirs)
  BY <1>1 DEF EditInductive, PlaceInv, DoneInv, CommandInv, SourceInv
<1>3. CASE /\ at' = "torn" /\ (\E k \in 0 .. Len(result.out) - 1 : disk' = SubSeq(result.out, 1, k))
           /\ UNCHANGED <<applied, done>>
  <2>1. EditTypeOK' /\ CommandInv' /\ PlaceInv' /\ DoneInv' /\ SourceInv' /\ TrialInv' /\ RecipeGate'
    BY <1>1, <1>2, <1>3 DEF EditInductive, EditTypeOK, CommandInv, PlaceInv, DoneInv, SourceInv, TrialInv,
       RecipeGate
  <2>2. applied = FALSE
    BY <1>2 DEF EditInductive, EditTypeOK, AppliedTrue
  <2>3. AppliedTrue'
    BY <1>1, <1>2, <1>3, <2>2 DEF AppliedTrue
  <2>4. QED  BY <2>1, <2>3 DEF EditInductive
<1>4. CASE /\ at' = "done" /\ disk' = result.out /\ applied' = TRUE
           /\ done' = Append(done, [step |-> step, score |-> result.score])
  <2>1. result.score \in 0 .. 100 /\ step \in Nat /\ done \in Seq(Dones)
    BY <1>2 DEF EditInductive, EditTypeOK, DoneInv
  <2>2. PICK score \in 0 .. 100 : score = result.score
    BY <2>1
  <2>3. /\ done' \in Seq(Dones) /\ done' # <<>> /\ DOMAIN done' = 1 .. Len(done) + 1
        /\ done'[Len(done) + 1].step = step /\ Len(done) = 0
    <3>1. score \in Int /\ Len(done) = 0
      BY <1>2, <2>2, EmptySeq
    <3>2. done' = Append(done, [step |-> step, score |-> score])
      BY <1>4, <2>2
    <3>3. PICK s, d, e : s = step /\ d = done /\ e = done'
      OBVIOUS
    <3>4. /\ e \in Seq(Dones) /\ Len(d) \in Nat /\ DOMAIN e = 1 .. Len(d) + 1 /\ e # <<>>
          /\ e[Len(d) + 1].step = s
      <4>1. e = Append(d, [step |-> s, score |-> score]) /\ s \in Nat /\ d \in Seq(Dones)
        BY <2>1, <3>2, <3>3
      <4>2. QED  BY <3>1, <4>1, DoneGrows
    <3>5. QED  BY <3>1, <3>3, <3>4
  <2>4. \A i \in DOMAIN done' : done'[i].step = 1
    BY <1>2, <2>3
  <2>5. DOMAIN command.steps = 1 .. 1
    BY <1>2, StepFacts
  <2>6. EditTypeOK' /\ DoneInv'
    BY <1>1, <1>2, <1>4, <2>3, <2>4, <2>5 DEF EditInductive, EditTypeOK, DoneInv
  <2>7. AppliedTrue'
    BY <1>1, <1>2, <1>4, <2>3 DEF AppliedTrue
  <2>8. CommandInv' /\ PlaceInv' /\ SourceInv' /\ TrialInv' /\ RecipeGate'
    BY <1>1, <1>2, <1>4 DEF EditInductive, CommandInv, PlaceInv, SourceInv, TrialInv, RecipeGate
  <2>9. QED  BY <2>6, <2>7, <2>8 DEF EditInductive
<1>5. QED  BY <1>3, <1>4 DEF WriteModified

LEMMA ValidateStep ==
  ASSUME EditInductive, ValidateRecipe
  PROVE  EditInductive'
<1>1. at = "start" /\ command.recipe /\ UNCHANGED <<disk, command, edited, theirs, untried>>
  BY DEF ValidateRecipe
<1>2. CASE Fails
  BY <1>1, <1>2, FailsStep
<1>3. CASE at' = "preflight" /\ command.steps # <<>> /\ UNCHANGED <<src, result, applied, done, step>>
  <2>1. step <= Len(command.steps)
    <3>1. step = 1 /\ command.steps \in Seq(EditSteps)
      BY <1>1 DEF EditInductive, PlaceInv, CommandInv
    <3>2. QED  BY <1>3, <3>1, EmptySeq
  <2>2. QED
    BY <1>1, <1>3, <2>1 DEF EditInductive, EditTypeOK, CommandInv, PlaceInv, DoneInv, SourceInv, TrialInv,
       AppliedTrue, RecipeGate
<1>4. QED  BY <1>2, <1>3 DEF ValidateRecipe

\* The next step, or the end.
LEMMA FinishedPlace ==
  ASSUME EditInductive, step <= Len(command.steps), Finished, UNCHANGED command
  PROVE  /\ step' = step + 1 /\ step' \in 1 .. Len(command'.steps) + 1
         /\ at' \in {"preflight", "done"}
         /\ at' = "preflight" => step' <= Len(command'.steps)
BY StepFacts DEF Finished

\* A trial that has gone well, on the file or without it.
LEMMA PassedStep ==
  ASSUME EditInductive, at = "preflight", command.recipe, Passed,
         result'.score \in 0 .. 100, untried \subseteq untried', untried' \subseteq untried \union {step},
         step \notin untried' => (Trial.ok => OverallConfidence(disk, Trial) >= This.min),
         UNCHANGED <<disk, command, edited, theirs, src, applied, done>>
  PROVE  EditInductive'
<1>1. step <= Len(command.steps) /\ untried' \subseteq DOMAIN command'.steps
  <2>1. step <= Len(command.steps)
    BY DEF EditInductive, PlaceInv
  <2>2. step \in DOMAIN command.steps
    BY <2>1, StepFacts
  <2>3. QED  BY <2>1, <2>2 DEF EditInductive, EditTypeOK
<1>2. DoneInv'
  BY DEF EditInductive, DoneInv
<1>3. CASE command.dry
  <2>1. Finished
    BY <1>3 DEF Passed
  <2>2. /\ step' = step + 1 /\ step' \in 1 .. Len(command'.steps) + 1
        /\ at' \in {"preflight", "done"} /\ (at' = "preflight" => step' <= Len(command'.steps))
    BY <1>1, <2>1, FinishedPlace
  <2>3. EditTypeOK' /\ CommandInv' /\ PlaceInv' /\ SourceInv' /\ TrialInv' /\ AppliedTrue'
    BY <1>1, <2>2 DEF EditInductive, EditTypeOK, CommandInv, PlaceInv, SourceInv, TrialInv, AppliedTrue
  <2>4. RecipeGate'
    BY <1>3, <2>2 DEF EditInductive, RecipeGate
  <2>5. QED  BY <1>2, <2>3, <2>4 DEF EditInductive
<1>4. CASE ~command.dry
  <2>1. at' = "apply" /\ UNCHANGED step
    BY <1>4 DEF Passed
  <2>2. EditTypeOK' /\ CommandInv' /\ PlaceInv' /\ SourceInv' /\ AppliedTrue'
    BY <1>1, <1>4, <2>1 DEF EditInductive, EditTypeOK, CommandInv, PlaceInv, SourceInv, AppliedTrue
  <2>3. RecipeGate'
    BY <1>4, <2>1 DEF EditInductive, RecipeGate
  <2>4. TrialInv'
    BY <2>1 DEF TrialInv, Trial, This
  <2>5. QED  BY <1>2, <2>2, <2>3, <2>4 DEF EditInductive
<1>5. QED  BY <1>3, <1>4

\* The trial of a step: it has gone well, the file has failed, or it ends the
\* recipe.
LEMMA PreflightStep ==
  ASSUME EditInductive, Preflight
  PROVE  EditInductive'
<1>1. at = "preflight" /\ UNCHANGED <<disk, command, edited, theirs>>
  BY DEF Preflight
<1>2. command.recipe
  BY <1>1 DEF EditInductive, PlaceInv
<1>3. CASE Fails /\ UNCHANGED untried
  BY <1>1, <1>3, FailsStep
<1>4. CASE /\ Trial.ok => OverallConfidence(disk, Trial) >= This.min
           /\ Passed /\ result' = Trial /\ UNCHANGED <<src, applied, done, untried>>
  <2>1. result'.score \in 0 .. 100
    BY <1>4, TransformScore DEF Trial
  <2>2. untried \subseteq untried' /\ untried' \subseteq untried \union {step}
    BY <1>4
  <2>3. UNCHANGED <<disk, command, edited, theirs, src, applied, done>>
    BY <1>1, <1>4
  <2>4. QED  BY <1>1, <1>2, <1>4, <2>1, <2>2, <2>3, PassedStep
<1>5. CASE /\ Passed /\ result' = NoResult /\ untried' = untried \union {step}
           /\ UNCHANGED <<src, applied, done>>
  <2>1. result'.score \in 0 .. 100
    BY <1>5 DEF NoResult
  <2>2. untried \subseteq untried' /\ untried' \subseteq untried \union {step} /\ step \in untried'
    BY <1>5
  <2>3. UNCHANGED <<disk, command, edited, theirs, src, applied, done>>
    BY <1>1, <1>5
  <2>4. QED  BY <1>1, <1>2, <1>5, <2>1, <2>2, <2>3, PassedStep
<1>6. QED  BY <1>3, <1>4, <1>5 DEF Preflight, Trial

\* A step that changes the file has the score of its trial, if nobody else
\* has written the file and the trial did not fail on it.
LEMMA ApplyStepHolds ==
  ASSUME EditInductive, ApplyStep
  PROVE  EditInductive'
<1>1. at = "apply" /\ UNCHANGED <<src, applied, command, edited, theirs, untried>>
  BY DEF ApplyStep
<1>2. command.recipe /\ ~command.dry /\ step <= Len(command.steps)
  BY <1>1 DEF EditInductive, PlaceInv
<1>3. Trial.score \in 0 .. 100 /\ NoResult.score = 0 /\ result.score \in 0 .. 100
  BY TransformScore DEF Trial, NoResult, EditInductive, EditTypeOK
<1>4. /\ (Finished /\ result' \in {Trial, NoResult}) \/ (at' = "failed" /\ UNCHANGED <<step, result>>)
      /\ UNCHANGED <<disk, done>> \/ Written(Trial)
  BY DEF ApplyStep, Trial
<1>5. /\ step' \in {step, step + 1} /\ step' \in 1 .. Len(command'.steps) + 1
      /\ at' \in {"preflight", "done", "failed"} /\ (at' = "preflight" => step' <= Len(command'.steps))
      /\ step' = step => at' = "failed"
      /\ result'.score \in 0 .. 100
  <2>1. CASE Finished /\ result' \in {Trial, NoResult}
    <3>1. /\ step' = step + 1 /\ step' \in 1 .. Len(command'.steps) + 1
          /\ at' \in {"preflight", "done"} /\ (at' = "preflight" => step' <= Len(command'.steps))
      BY <1>1, <1>2, <2>1, FinishedPlace
    <3>2. result'.score \in 0 .. 100
      BY <1>3, <2>1
    <3>3. step' # step
      BY <3>1, StepFacts
    <3>4. QED  BY <3>1, <3>2, <3>3
  <2>2. CASE at' = "failed" /\ UNCHANGED <<step, result>>
    BY <1>1, <1>2, <1>3, <2>2, StepFacts
  <2>3. QED  BY <1>4, <2>1, <2>2
<1>6. CommandInv' /\ PlaceInv' /\ SourceInv' /\ TrialInv' /\ AppliedTrue'
  BY <1>1, <1>2, <1>5 DEF EditInductive, CommandInv, PlaceInv, SourceInv, TrialInv, AppliedTrue
<1>7. EditTypeOK /\ DoneInv /\ RecipeGate /\ TrialInv
  BY DEF EditInductive
<1>8. /\ \A i \in 1 .. Len(done) : done[i].step < step /\ done[i].step \in Nat
      /\ \A i, j \in 1 .. Len(done) : i < j => done[i].step < done[j].step
      /\ step \in 1 .. Len(command.steps) /\ DOMAIN command.steps = 1 .. Len(command.steps)
      /\ DOMAIN done = 1 .. Len(done)
  <2>1. /\ \A i \in 1 .. Len(done) : done[i].step <= step /\ done[i].step # step
        /\ \A i, j \in 1 .. Len(done) : i < j => done[i].step < done[j].step
    BY <1>1, <1>2, <1>7, StepFacts DEF RecipeGate
  <2>2. \A i \in 1 .. Len(done) : done[i].step \in Nat
    BY StepFacts DEF Dones
  <2>3. QED  BY <1>2, <2>1, <2>2, StepFacts
<1>9. CASE UNCHANGED <<disk, done>>
  <2>1. EditTypeOK' /\ DoneInv'
    BY <1>1, <1>2, <1>5, <1>7, <1>9 DEF EditTypeOK, DoneInv
  <2>2. \A i \in DOMAIN done' : done'[i].step <= step' /\ (done'[i].step = step' => at' = "failed")
    BY <1>5, <1>8, <1>9, StepFacts
  <2>3. RecipeGate'
    BY <1>1, <1>2, <1>7, <1>9, <2>2 DEF RecipeGate
  <2>4. QED  BY <1>6, <2>1, <2>3 DEF EditInductive
<1>10. CASE Written(Trial)
  <2>1. Trial.ok /\ done' = Append(done, [step |-> step, score |-> OverallConfidence(disk, Trial)])
    BY <1>10 DEF Written
  <2>2. PICK score \in 0 .. 100 : score = OverallConfidence(disk, Trial)
    BY <1>3, OverallScore
  <2>3. score \in Int /\ step \in Nat /\ done \in Seq(Dones)
    BY StepFacts
  <2>4. done' = Append(done, [step |-> step, score |-> score])
    BY <2>1, <2>2
  <2>5. /\ done' \in Seq(Dones) /\ Len(done) \in Nat /\ DOMAIN done' = 1 .. Len(done) + 1
        /\ done' # <<>>
        /\ done'[Len(done) + 1].step = step /\ done'[Len(done) + 1].score = score
        /\ \A i \in 1 .. Len(done) : done'[i] = done[i]
    BY <2>3, <2>4, DoneGrows
  <2>6. \A i \in DOMAIN done' : done'[i].step \in 1 .. Len(command.steps)
    BY <1>7, <1>8, <2>5 DEF DoneInv
  <2>7. EditTypeOK'
    BY <1>1, <1>5, <1>7, <1>8, <2>6 DEF EditTypeOK
  <2>8. DoneInv'
    BY <1>1, <1>2, <2>5, <2>6 DEF DoneInv
  <2>9. ~edited /\ step \notin untried => score >= command.steps[step].min
    BY <1>1, <1>2, <1>7, <2>1, <2>2 DEF TrialInv, This
  <2>10. /\ \A i, j \in DOMAIN done' : i < j => done'[i].step < done'[j].step
         /\ \A i \in DOMAIN done' : done'[i].step <= step
    <3>1. PICK k : k = [i \in 1 .. Len(done) + 1 |-> done'[i].step]
      OBVIOUS
    <3>2. (\A i \in 1 .. Len(done) : k[i] = done[i].step) /\ k[Len(done) + 1] = step
      BY <2>5, <3>1
    <3>3. PICK n \in Nat : n = Len(done)
      BY <2>5
    <3>4. /\ \A i \in 1 .. n : k[i] \in Nat /\ k[i] < step
          /\ \A i, j \in 1 .. n : i < j => k[i] < k[j]
          /\ k[n + 1] = step /\ step \in Nat
      BY <1>8, <2>3, <3>2, <3>3
    <3>5. \A i \in 1 .. n + 1 : i \in 1 .. n \/ i = n + 1
      OBVIOUS
    <3>6. /\ \A i, j \in 1 .. n + 1 : i < j => k[i] < k[j]
          /\ \A i \in 1 .. n + 1 : k[i] <= step
      BY <3>4, <3>5
    <3>7. QED  BY <2>5, <3>1, <3>3, <3>6
  <2>11. \A i \in DOMAIN done' : done'[i].step <= step' /\ (done'[i].step = step' => at' = "failed")
    <3>1. \A i \in DOMAIN done' : done'[i].step \in Nat
      BY <2>6
    <3>2. step \in Nat /\ step' \in {step, step + 1} /\ (step' = step => at' = "failed")
      BY <1>5, <2>3
    <3>3. QED  BY <2>10, <3>1, <3>2
  <2>12. ~edited => \A i \in DOMAIN done' :
            done'[i].step \notin untried => done'[i].score >= command.steps[done'[i].step].min
    <3>1. ~edited => \A i \in 1 .. Len(done) :
            done[i].step \notin untried => done[i].score >= command.steps[done[i].step].min
      BY <1>2, <1>7, <1>8 DEF RecipeGate
    <3>2. \A i \in DOMAIN done' : i \in 1 .. Len(done) \/ i = Len(done) + 1
      BY <2>5
    <3>3. QED  BY <2>5, <2>9, <3>1, <3>2
  <2>13. RecipeGate'
    BY <1>1, <1>2, <2>5, <2>10, <2>11, <2>12 DEF RecipeGate
  <2>14. QED  BY <1>6, <2>7, <2>8, <2>13 DEF EditInductive
<1>11. QED  BY <1>4, <1>9, <1>10

LEMMA OutsideStep ==
  ASSUME EditInductive, OutsideEdit
  PROVE  EditInductive'
<1>1. /\ edited' = TRUE /\ theirs' = disk' /\ at \notin {"done", "writing", "torn"}
      /\ UNCHANGED <<command, at, step, src, result, applied, done, untried>>
  BY DEF OutsideEdit
<1>2. QED
  BY <1>1 DEF EditInductive, EditTypeOK, CommandInv, PlaceInv, DoneInv, SourceInv, TrialInv,
     AppliedTrue, RecipeGate, This

LEMMA EditStutter ==
  ASSUME EditInductive, UNCHANGED editVars
  PROVE  EditInductive'
BY DEF editVars, EditInductive, EditTypeOK, CommandInv, PlaceInv, DoneInv, SourceInv, TrialInv,
   AppliedTrue, RecipeGate, Trial, This

\* One step of a command.
LEMMA RunsStep ==
  ASSUME EditInductive, NEW method, Runs(method)
  PROVE  EditInductive'
BY LoadStep, TransformStep, SkipStep, TruncateStep, WriteStep DEF Runs

LEMMA EditNextStep ==
  ASSUME EditInductive, EditNext
  PROVE  EditInductive'
<1>1. CASE RecipeCommand
  BY <1>1, ValidateStep, PreflightStep, ApplyStepHolds DEF RecipeCommand
<1>2. CASE \E method \in Methods : Runs(method)
  BY <1>2, RunsStep
<1>3. CASE OutsideEdit
  BY <1>3, OutsideStep
<1>4. QED
  BY <1>1, <1>2, <1>3 DEF EditNext, Methods, ReplaceCommand, DeleteCommand, InsertBeforeCommand,
     InsertAfterCommand, AppendCommand, QueryCommand

\* The inductive invariant holds throughout, for any texts, selectors and
\* recipes.
THEOREM EditInductiveHolds == EditSpec => []EditInductive
<1>1. EditInit => EditInductive
  BY EditStart, EditAssumptions
<1>2. EditInductive /\ [EditNext]_editVars => EditInductive'
  BY EditNextStep, EditStutter
<1>3. QED  BY <1>1, <1>2, PTL DEF EditSpec

\* A command says that it has changed the file exactly if the file holds the
\* changed source; without that the file is what others left there, but for a
\* write that failed in the middle, which is not said to be applied.
THEOREM EditInvHolds == EditSpec => []EditInv
<1>1. EditInductive => EditInv
  BY DEF EditInductive, EditInv
<1>2. QED  BY <1>1, EditInductiveHolds, PTL

\* A recipe applies its steps in order, none whose score is below its minimum
\* but those whose dry run failed on the file; a dry run changes nothing.
THEOREM RecipeGateHolds == EditSpec => []RecipeGate
<1>1. EditInductive => RecipeGate
  BY DEF EditInductive
<1>2. QED  BY <1>1, EditInductiveHolds, PTL

\* An edit that leaves an error node scores below the threshold at which edits
\* are applied without asking; a text repaired with missing tokens has none.
THEOREM BrokenNeverHighHolds == EditSpec => []BrokenNeverHigh
<1>1. EditInductive => BrokenNeverHigh
  <2>1. SUFFICES ASSUME EditInductive, Editing, ~Valid(result.out)
                 PROVE  result.score < 85
    BY DEF BrokenNeverHigh
  <2>2. /\ at = "transformed" /\ This.method # "query"
        /\ This.method = "append" => result.targets # <<>>
    BY <2>1 DEF Editing, Finding
  <2>3. ~command.recipe
    BY <2>1, <2>2 DEF EditInductive, PlaceInv
  <2>4. result.ok /\ result = Transform(src, Parsed(This.ts).q, This.method, command.new)
    BY <2>1, <2>2, <2>3 DEF EditInductive, SourceInv
  <2>5. result.score \in 0 .. 100 /\ result.score <= 60
    <3>1. PICK t, q, m, new, r :
            t = src /\ q = Parsed(This.ts).q /\ m = This.method /\ new = command.new /\ r = result
      OBVIOUS
    <3>2. r = Transform(t, q, m, new) /\ r.ok /\ (m = "append" => r.targets # <<>>) /\ ~Valid(r.out)
      BY <2>1, <2>2, <2>4, <3>1
    <3>3. r.score \in 0 .. 100 /\ r.score <= 60
      <4>1. r = Transform(t, q, m, new)
        BY <3>2
      <4>2. r.score \in 0 .. 100
        BY <4>1, TransformScore
      <4>3. (r.ok /\ (m = "append" => r.targets # <<>>) /\ ~Valid(r.out)) => r.score <= 60
        BY <4>1, TransformScore
      <4>4. r.score <= 60
        BY <3>2, <4>3, Zenon
      <4>5. QED  BY <4>2, <4>4
    <3>4. QED  BY <3>1, <3>3
  <2>6. QED  BY <2>5
<1>2. QED  BY <1>1, EditInductiveHolds, PTL

-----------------------------------------------------------------------------
(* What a command edits is what was meant *)

\* The texts that are read, inserted and written are texts, and no result has
\* a target twice.
ResultTyped(r) == r.out \in Seq(Symbols) /\ Distinct(r.targets)

\* Nothing is a selector of an append only.
Filled(ts, method) == ts = <<>> => method = "append"

\* What Transform returns.
LEMMA TransformMeant ==
  ASSUME NEW text \in Seq(Symbols), NEW new \in Seq(Symbols), NEW ts \in Seq(Tokens),
         NEW method \in StepMethods, Filled(ts, method),
         NEW r, r = Transform(text, Parsed(ts).q, method, new)
  PROVE  /\ ResultTyped(r)
         /\ r.ok /\ (method = "append" => r.targets # <<>>)
            /\ (method \in {"insert_before", "append"} \/ Disjoint(r.targets))
            => r.out = Meant(text, r.targets, method, new)
<1>1. PICK query : query = Parsed(ts).q
  OBVIOUS
<1>2. Distinct(<<>>) /\ <<>> \in Seq(Symbols)
  <2>1. DOMAIN <<>> = {}
    BY EmptySeq
  <2>2. QED  BY <2>1, EmptySeq DEF Distinct
<1>3. CASE method = "append" /\ (query = <<>> \/ query[1].sel.kind = "")
  <2>1. r = [ok |-> TRUE, out |-> DoAppend(text, Len(text), new), targets |-> <<>>, score |-> 100]
    BY <1>1, <1>3 DEF Transform
  <2>2. r.out = DoAppend(text, Len(text), new) /\ r.targets = <<>>
    BY <2>1
  <2>3. PICK to \in 0 .. Len(text) : to = Len(text)
    BY LenProperties
  <2>4. DoAppend(text, to, new) \in Seq(Symbols)
    BY SpliceOne
  <2>5. ResultTyped(r)
    BY <1>2, <2>2, <2>3, <2>4 DEF ResultTyped
  <2>6. ~(method = "append" => r.targets # <<>>)
    BY <1>3, <2>2
  <2>7. QED  BY <2>5, <2>6
<1>4. CASE ~(method = "append" /\ (query = <<>> \/ query[1].sel.kind = ""))
  <2>1. query[1] = ParseDSL(ts).q
    <3>1. ts # <<>>
      <4>1. SUFFICES ASSUME ts = <<>> PROVE FALSE
        OBVIOUS
      <4>2. method = "append"
        BY <4>1 DEF Filled
      <4>3. query = <<>>
        BY <1>1, <4>1 DEF Parsed
      <4>4. QED  BY <1>4, <4>2, <4>3
    <3>2. query = <<ParseDSL(ts).q>>
      BY <1>1, <3>1 DEF Parsed
    <3>3. QED  BY <3>2
  <2>2. PICK targets : targets = FindTargets(text, Nodes(text), query[1])
    OBVIOUS
  <2>3. targets \in Seq(Nodes(text)) /\ Distinct(targets)
    <3>1. targets \in TargetLists(text)
      BY <2>1, <2>2, TargetsTyped
    <3>2. QED  BY <3>1 DEF TargetLists
  <2>4. PICK out, score : out = Edited(text, targets, method, new)
          /\ score = AdjustConfidence(CalculateConfidence(method, targets, query[1].sel.name = "*"),
                                      text, out, targets)
    OBVIOUS
  <2>5. r = IF targets = <<>> THEN NoResult
            ELSE [ok |-> TRUE, out |-> out, targets |-> targets, score |-> score]
    BY <1>1, <1>4, <2>2, <2>4 DEF Transform
  <2>6. CASE targets = <<>>
    <3>1. r.ok = FALSE /\ r.out = <<>> /\ r.targets = <<>>
      BY <2>5, <2>6 DEF NoResult
    <3>2. ResultTyped(r)
      BY <1>2, <3>1 DEF ResultTyped
    <3>3. ~r.ok
      BY <3>1
    <3>4. QED  BY <3>2, <3>3
  <2>7. CASE targets # <<>>
    <3>1. r.out = out /\ r.targets = targets
      BY <2>5, <2>7
    <3>2. /\ out \in Seq(Symbols)
          /\ method \in {"insert_before", "append"} \/ Disjoint(targets) =>
               out = Meant(text, targets, method, new)
      BY <2>3, <2>4, <2>7, EditedMeant
    <3>3. QED  BY <2>3, <3>1, <3>2 DEF ResultTyped
  <2>8. QED  BY <2>6, <2>7
<1>5. QED  BY <1>3, <1>4

\* The file, what is read from it, what is inserted and what comes out are
\* texts; a step without a selector appends.
TextInv ==
  /\ disk \in Seq(Symbols) /\ src \in Seq(Symbols) /\ command.new \in Seq(Symbols)
  /\ ResultTyped(result)
  /\ command.recipe => \A i \in DOMAIN command.steps : command.steps[i].method \in StepMethods
  /\ at \notin {"start", "done", "failed"} =>
       \A i \in DOMAIN command.steps : Filled(command.steps[i].ts, command.steps[i].method)

LEMMA NoResultTyped == ResultTyped(NoResult)
<1>1. NoResult.out = <<>> /\ NoResult.targets = <<>>
  BY DEF NoResult
<1>2. DOMAIN <<>> = {} /\ <<>> \in Seq(Symbols)
  BY EmptySeq
<1>3. QED  BY <1>1, <1>2 DEF ResultTyped, Distinct

\* TextInv at first.
LEMMA TextStart ==
  ASSUME EditAssumptions, EditInit
  PROVE  TextInv
<1>1. /\ disk \in Texts /\ at = "start" /\ src = <<>> /\ result = NoResult
      /\ command \in SingleRuns \union RecipeRuns
  BY DEF EditInit
<1>2. disk \in Seq(Symbols) /\ src \in Seq(Symbols)
  BY <1>1, EmptySeq DEF EditAssumptions
<1>3. command.new \in Seq(Symbols)
  <2>1. command \in SingleRuns => command.new \in Contents
    BY DEF SingleRuns
  <2>2. command \in RecipeRuns => command.new \in Contents
    BY DEF RecipeRuns
  <2>3. QED  BY <1>1, <2>1, <2>2 DEF EditAssumptions
<1>4. ResultTyped(result)
  BY <1>1, NoResultTyped
<1>5. ASSUME command.recipe
      PROVE  \A i \in DOMAIN command.steps : command.steps[i].method \in StepMethods
  <2>1. command \in RecipeRuns
    <3>1. command \in SingleRuns => ~command.recipe
      BY DEF SingleRuns
    <3>2. command \notin SingleRuns
      BY <1>5, <3>1, Zenon
    <3>3. QED  BY <1>1, <3>2
  <2>2. command.steps \in Recipes
    BY <2>1 DEF RecipeRuns
  <2>3. PICK R : R = [ts: Selectors, method: StepMethods, min: 1 .. 100]
    OBVIOUS
  <2>4. command.steps \in Seq(R)
    BY <2>2, <2>3 DEF EditAssumptions
  <2>5. \A i \in DOMAIN command.steps : command.steps[i] \in R
    BY <2>4, LenProperties, ElementOfSeq
  <2>6. QED  BY <2>3, <2>5
<1>6. QED  BY <1>1, <1>2, <1>3, <1>4, <1>5 DEF TextInv

\* What runs has a selector of tokens and a method.
LEMMA ThisTyped ==
  ASSUME EditAssumptions, EditInductive, TextInv, step <= Len(command.steps)
  PROVE  /\ step \in DOMAIN command.steps
         /\ This.ts \in Seq(Tokens)
         /\ This.method \in Methods
         /\ command.recipe => This.method \in StepMethods
<1>1. step \in DOMAIN command.steps
  BY StepFacts
<1>2. command.steps \in Seq(EditSteps)
  BY DEF EditInductive, CommandInv
<1>3. This \in EditSteps
  BY <1>1, <1>2, LenProperties, ElementOfSeq DEF This
<1>4. This.ts \in Selectors /\ This.method \in Methods
  BY <1>3 DEF EditSteps
<1>5. This.ts \in Seq(Tokens)
  BY <1>4 DEF EditAssumptions
<1>6. command.recipe => This.method \in StepMethods
  BY <1>1 DEF TextInv, This
<1>7. QED  BY <1>1, <1>4, <1>5, <1>6

\* The trial of a step.
LEMMA TrialTyped ==
  ASSUME EditAssumptions, EditInductive, TextInv, at \in {"preflight", "apply"}
  PROVE  ResultTyped(Trial)
<1>1. command.recipe /\ step <= Len(command.steps)
  BY DEF EditInductive, PlaceInv
<1>2. PICK ts, method : ts = This.ts /\ method = This.method
  OBVIOUS
<1>3. /\ ts \in Seq(Tokens) /\ method \in StepMethods /\ step \in DOMAIN command.steps
  BY <1>1, <1>2, ThisTyped
<1>4. Filled(ts, method)
  BY <1>2, <1>3 DEF TextInv, This
<1>5. disk \in Seq(Symbols) /\ command.new \in Seq(Symbols)
  BY DEF TextInv
<1>6. PICK r : r = Transform(disk, Parsed(ts).q, method, command.new)
  OBVIOUS
<1>7. ResultTyped(r)
  BY <1>3, <1>4, <1>5, <1>6, TransformMeant
<1>8. QED  BY <1>2, <1>6, <1>7 DEF Trial

\* TransformSource keeps TextInv.
LEMMA TextTransform ==
  ASSUME EditAssumptions, EditInductive, TextInv, TransformSource
  PROVE  TextInv'
<1>1. at = "loaded" /\ UNCHANGED <<disk, command, edited, theirs, untried>> /\ ~command.recipe
  BY DEF TransformSource, EditInductive, PlaceInv
<1>2. CASE Fails
  BY <1>1, <1>2 DEF Fails, TextInv
<1>3. CASE ~Fails
  <2>1. PICK ts, method, r :
          /\ ts = This.ts /\ method = This.method
          /\ r = IF method = "query"
                 THEN [NoResult EXCEPT !.ok = TRUE, !.out = src,
                         !.targets = FindTargets(src, Nodes(src), Parsed(ts).q[1])]
                 ELSE Transform(src, Parsed(ts).q, method, command.new)
    OBVIOUS
  <2>2. at' = "transformed" /\ result' = r /\ UNCHANGED <<src, applied, done, step>>
    BY <1>3, <2>1 DEF TransformSource
  <2>3. step <= Len(command.steps)
    <3>1. CommandInv /\ PlaceInv
      BY DEF EditInductive
    <3>2. step = 1 /\ Len(command.steps) = 1
      BY <1>1, <3>1 DEF PlaceInv, CommandInv
    <3>3. QED  BY <3>2
  <2>4. ts \in Seq(Tokens) /\ method \in Methods /\ step \in DOMAIN command.steps
    BY <2>1, <2>3, ThisTyped
  <2>5. Filled(ts, method)
    BY <1>1, <2>1, <2>4 DEF TextInv, This
  <2>6. src \in Seq(Symbols) /\ command.new \in Seq(Symbols)
    BY DEF TextInv
  <2>7. ResultTyped(r)
    <3>1. CASE method = "query"
      <4>1. PICK targets : targets = FindTargets(src, Nodes(src), Parsed(ts).q[1])
        OBVIOUS
      <4>2. r.out = src /\ r.targets = targets
        BY <2>1, <3>1, <4>1 DEF NoResult
      <4>3. ts # <<>>
        BY <2>5, <3>1 DEF Filled
      <4>4. Parsed(ts).q[1] = ParseDSL(ts).q
        BY <4>3 DEF Parsed
      <4>5. targets \in TargetLists(src)
        BY <2>4, <2>6, <4>1, <4>4, TargetsTyped
      <4>6. Distinct(targets)
        BY <4>5 DEF TargetLists
      <4>7. QED  BY <2>6, <4>2, <4>6 DEF ResultTyped
    <3>2. CASE method # "query"
      <4>1. method \in StepMethods
        BY <2>4, <3>2 DEF StepMethods
      <4>2. r = Transform(src, Parsed(ts).q, method, command.new)
        BY <2>1, <3>2
      <4>3. QED  BY <2>4, <2>5, <2>6, <4>1, <4>2, TransformMeant
    <3>3. QED  BY <3>1, <3>2
  <2>8. QED  BY <1>1, <2>2, <2>7 DEF TextInv
<1>4. QED  BY <1>2, <1>3

\* Every step keeps it.
LEMMA TextNext ==
  ASSUME EditAssumptions, EditInductive, TextInv, EditNext
  PROVE  TextInv'
<1>1. /\ disk \in Seq(Symbols) /\ src \in Seq(Symbols) /\ command.new \in Seq(Symbols)
      /\ ResultTyped(result) /\ result.out \in Seq(Symbols)
  BY DEF TextInv, ResultTyped
<1>2. CASE LoadSource
  <2>1. CASE Fails
    BY <1>2, <2>1 DEF LoadSource, Fails, TextInv
  <2>2. CASE ~Fails
    <3>1. /\ at' = "loaded" /\ src' = disk /\ UNCHANGED <<disk, command, edited, result, applied, done, step>>
          /\ ~(This.ts = <<>> /\ This.method # "append")
          /\ at = "start" /\ ~command.recipe
      BY <1>2, <2>2 DEF LoadSource
    <3>2. step = 1 /\ Len(command.steps) = 1 /\ DOMAIN command.steps = 1 .. Len(command.steps)
      BY <3>1, StepFacts DEF EditInductive, PlaceInv, CommandInv
    <3>3. \A i \in DOMAIN command.steps : Filled(command.steps[i].ts, command.steps[i].method)
      BY <3>1, <3>2 DEF Filled, This
    <3>4. QED  BY <1>1, <3>1, <3>3 DEF TextInv
  <2>3. QED  BY <2>1, <2>2
<1>3. CASE TransformSource
  BY <1>3, TextTransform
<1>4. CASE SkipWrite
  BY <1>4 DEF SkipWrite, TextInv
<1>5. CASE Truncate
  <2>1. /\ disk' = <<>> /\ at = "transformed" /\ at' = "writing"
        /\ UNCHANGED <<command, step, src, result, applied, done, edited>>
    BY <1>5 DEF Truncate
  <2>2. disk' \in Seq(Symbols)
    BY <2>1, EmptySeq
  <2>3. QED  BY <2>1, <2>2 DEF TextInv
<1>6. CASE WriteModified
  <2>1. at = "writing" /\ UNCHANGED <<command, step, src, result, edited>>
    BY <1>6 DEF WriteModified
  <2>2. disk' \in Seq(Symbols)
    <3>1. CASE disk' = result.out
      BY <1>1, <3>1
    <3>2. CASE \E k \in 0 .. Len(result.out) - 1 : disk' = SubSeq(result.out, 1, k)
      <4>1. PICK k \in 0 .. Len(result.out) - 1 : disk' = SubSeq(result.out, 1, k)
        BY <3>2
      <4>2. PICK s \in Seq(Symbols) : s = result.out
        BY <1>1
      <4>3. PICK len \in Nat : len = Len(s)
        BY LenProperties
      <4>4. k \in 0 .. len /\ disk' = SubSeq(s, 1, k)
        BY <4>1, <4>2, <4>3
      <4>5. SubSeq(s, 1, k) \in Seq(Symbols)
        BY <4>3, <4>4, SubSeqProperties
      <4>6. QED  BY <4>4, <4>5
    <3>3. QED  BY <1>6, <3>1, <3>2 DEF WriteModified
  <2>3. QED  BY <2>1, <2>2 DEF TextInv
<1>7. CASE ValidateRecipe
  <2>1. CASE Fails
    BY <1>7, <2>1 DEF ValidateRecipe, Fails, TextInv
  <2>2. CASE ~Fails
    <3>1. /\ at' = "preflight" /\ UNCHANGED <<disk, command, edited, src, result, applied, done, step>>
          /\ \A i \in DOMAIN command.steps :
               LET s == command.steps[i]
               IN  IF s.ts = <<>> THEN s.method = "append" ELSE ParseDSL(s.ts).ok
      BY <1>7, <2>2 DEF ValidateRecipe
    <3>2. \A i \in DOMAIN command.steps : Filled(command.steps[i].ts, command.steps[i].method)
      BY <3>1 DEF Filled
    <3>3. QED  BY <3>1, <3>2 DEF TextInv
  <2>3. QED  BY <2>1, <2>2
<1>8. CASE Preflight
  <2>1. CASE Fails
    BY <1>8, <2>1 DEF Preflight, Fails, TextInv
  <2>2. CASE ~Fails
    <3>1. /\ at = "preflight" /\ Passed /\ result' \in {Trial, NoResult}
          /\ UNCHANGED <<disk, command, edited, src>>
      BY <1>8, <2>2 DEF Preflight, Trial
    <3>2. ResultTyped(result')
      BY <3>1, TrialTyped, NoResultTyped
    <3>3. ResultTyped(result)'
      BY <3>2 DEF ResultTyped
    <3>4. QED  BY <1>1, <3>1, <3>3 DEF TextInv
  <2>3. QED  BY <2>1, <2>2
<1>9. CASE ApplyStep
  <2>1. /\ at = "apply" /\ result' \in {Trial, NoResult, result}
        /\ disk' \in {disk, Trial.out}
        /\ UNCHANGED <<command, edited, src>>
    BY <1>9 DEF ApplyStep, Trial, Written
  <2>2. ResultTyped(Trial) /\ ResultTyped(NoResult) /\ ResultTyped(result)
    BY <1>1, <2>1, TrialTyped, NoResultTyped DEF TextInv
  <2>3. disk' \in Seq(Symbols)
    BY <1>1, <2>1, <2>2 DEF ResultTyped
  <2>4. ResultTyped(result)'
    BY <2>1, <2>2 DEF ResultTyped
  <2>5. QED  BY <1>1, <2>1, <2>3, <2>4 DEF TextInv
<1>10. CASE OutsideEdit
  <2>1. disk' \in Others /\ UNCHANGED <<command, at, step, src, result, applied, done>>
    BY <1>10 DEF OutsideEdit
  <2>2. disk' \in Seq(Symbols)
    BY <2>1 DEF EditAssumptions
  <2>3. QED  BY <2>1, <2>2 DEF TextInv
<1>11. CASE RecipeCommand
  BY <1>7, <1>8, <1>9, <1>11 DEF RecipeCommand
<1>12. CASE \E method \in Methods : Runs(method)
  BY <1>2, <1>3, <1>4, <1>5, <1>6, <1>12 DEF Runs
<1>13. QED
  BY <1>10, <1>11, <1>12 DEF EditNext, Methods, ReplaceCommand, DeleteCommand, InsertBeforeCommand,
     InsertAfterCommand, AppendCommand, QueryCommand

\* And the steps of nobody.
LEMMA TextStutter ==
  ASSUME TextInv, UNCHANGED editVars
  PROVE  TextInv'
BY DEF TextInv, editVars

\* Whatever is read, edited and written, by anybody: what is in the file
\* is a text, and so is what Transform returns.
THEOREM TextInvHolds == EditSpec => []TextInv
<1>1. EditInit => TextInv
  BY TextStart, EditAssumptions
<1>2. EditInductive /\ TextInv /\ [EditNext]_editVars => TextInv'
  BY TextNext, TextStutter, EditAssumptions
<1>3. QED  BY <1>1, <1>2, EditInductiveHolds, PTL DEF EditSpec

\* An edit changes the text of its targets, or the places before or after
\* them, and nothing else (Transform with doReplace, doDelete,
\* doInsertBefore, doInsertAfter and doAppendToTarget), for any text, any
\* selector and any content.
THEOREM EditExactHolds == EditSpec => []EditExact
<1>1. EditInductive /\ TextInv => EditExact
  <2>1. SUFFICES ASSUME EditInductive, TextInv
                 PROVE  EditExact
    OBVIOUS
  <2>2. result.out \in Seq(Symbols)
    BY <2>1 DEF TextInv, ResultTyped
  <2>3. ASSUME Editing, This.method \in {"insert_before", "append"} \/ Disjoint(result.targets)
        PROVE  result.out = Meant(src, result.targets, This.method, command.new)
    <3>1. /\ at = "transformed" /\ This.method # "query"
          /\ This.method = "append" => result.targets # <<>>
      BY <2>3 DEF Editing, Finding
    <3>2. ~command.recipe /\ step <= Len(command.steps)
      BY <2>1, <3>1 DEF EditInductive, PlaceInv, CommandInv
    <3>3. result.ok /\ result = Transform(src, Parsed(This.ts).q, This.method, command.new)
      BY <2>1, <3>1, <3>2 DEF EditInductive, SourceInv
    <3>4. PICK ts, method : ts = This.ts /\ method = This.method
      OBVIOUS
    <3>5. ts \in Seq(Tokens) /\ method \in StepMethods /\ step \in DOMAIN command.steps
      BY <2>1, <3>1, <3>2, <3>4, ThisTyped, EditAssumptions DEF StepMethods
    <3>6. Filled(ts, method)
      BY <2>1, <3>1, <3>4, <3>5 DEF TextInv, This
    <3>7. src \in Seq(Symbols) /\ command.new \in Seq(Symbols)
      BY <2>1 DEF TextInv
    <3>8. PICK r : r = result
      OBVIOUS
    <3>9. r = Transform(src, Parsed(ts).q, method, command.new)
      BY <3>3, <3>4, <3>8
    <3>10. r.ok /\ (method = "append" => r.targets # <<>>)
           /\ (method \in {"insert_before", "append"} \/ Disjoint(r.targets))
           => r.out = Meant(src, r.targets, method, command.new)
      BY <3>5, <3>6, <3>7, <3>9, TransformMeant
    <3>11. QED  BY <2>3, <3>1, <3>3, <3>4, <3>8, <3>10
  <2>4. QED  BY <2>2, <2>3 DEF EditExact
<1>2. QED  BY <1>1, TextInvHolds, EditInductiveHolds, PTL

-----------------------------------------------------------------------------
(* What a command finds is what its selector means *)

\* What Transform found, if it edits what it finds.
LEMMA TransformFinds ==
  ASSUME NEW text, NEW query, NEW method, NEW new, NEW r, r = Transform(text, query, method, new),
         r.ok, method = "append" => r.targets # <<>>
  PROVE  /\ r.targets = FindTargets(text, Nodes(text), query[1])
         /\ method = "append" => query # <<>>
<1>1. CASE method = "append" /\ (query = <<>> \/ query[1].sel.kind = "")
  <2>1. r = [ok |-> TRUE, out |-> DoAppend(text, Len(text), new), targets |-> <<>>, score |-> 100]
    BY <1>1 DEF Transform
  <2>2. r.targets = <<>>
    BY <2>1
  <2>3. QED  BY <1>1, <2>2
<1>2. CASE ~(method = "append" /\ (query = <<>> \/ query[1].sel.kind = ""))
  <2>1. PICK targets : targets = FindTargets(text, Nodes(text), query[1])
    OBVIOUS
  <2>2. PICK out, score : out = Edited(text, targets, method, new)
          /\ score = AdjustConfidence(CalculateConfidence(method, targets, query[1].sel.name = "*"),
                                      text, out, targets)
    OBVIOUS
  <2>3. r = IF targets = <<>> THEN NoResult
            ELSE [ok |-> TRUE, out |-> out, targets |-> targets, score |-> score]
    BY <1>2, <2>1, <2>2 DEF Transform
  <2>4. ~NoResult.ok
    BY DEF NoResult
  <2>5. targets # <<>>
    BY <2>3, <2>4
  <2>6. r = [ok |-> TRUE, out |-> out, targets |-> targets, score |-> score]
    BY <2>3, <2>5
  <2>7. r.targets = targets
    BY <2>6
  <2>8. QED  BY <1>2, <2>1, <2>7
<1>3. QED  BY <1>1, <1>2

\* What is found is what the parsed selector finds in what was read.
FoundInv ==
  Finding => /\ This.ts # <<>> /\ ParseDSL(This.ts).ok
             /\ result.targets = FindTargets(src, Nodes(src), ParseDSL(This.ts).q)

\* TransformSource makes it so.
LEMMA FoundTransform ==
  ASSUME EditAssumptions, EditInductive, TextInv, TransformSource, Finding'
  PROVE  FoundInv'
<1>1. /\ at = "loaded" /\ UNCHANGED <<disk, command, edited>> /\ ~command.recipe
      /\ at' = "transformed"
  BY DEF TransformSource, EditInductive, PlaceInv, Finding
<1>2. PICK ts, method, r :
        /\ ts = This.ts /\ method = This.method
        /\ r = IF method = "query"
               THEN [NoResult EXCEPT !.ok = TRUE, !.out = src,
                       !.targets = FindTargets(src, Nodes(src), Parsed(ts).q[1])]
               ELSE Transform(src, Parsed(ts).q, method, command.new)
  OBVIOUS
<1>3. ~Fails
  BY <1>1 DEF Fails
<1>4. /\ result' = r /\ UNCHANGED <<src, step>> /\ Parsed(ts).ok /\ r.ok
  BY <1>2, <1>3 DEF TransformSource
<1>5. This' = This
  BY <1>1, <1>4 DEF This
<1>6. method = "append" => r.targets # <<>>
  BY <1>2, <1>4, <1>5 DEF Finding
<1>7. step <= Len(command.steps)
  <2>1. CommandInv /\ PlaceInv
    BY DEF EditInductive
  <2>2. step = 1 /\ Len(command.steps) = 1
    BY <1>1, <2>1 DEF PlaceInv, CommandInv
  <2>3. QED  BY <2>2
<1>8. step \in DOMAIN command.steps
  BY <1>7, ThisTyped
<1>9. Filled(ts, method)
  BY <1>1, <1>2, <1>8 DEF TextInv, This
<1>10. PICK query : query = Parsed(ts).q
  OBVIOUS
<1>11. r.targets = FindTargets(src, Nodes(src), query[1]) /\ (method = "append" => query # <<>>)
  <2>1. CASE method = "query"
    <3>1. r = [NoResult EXCEPT !.ok = TRUE, !.out = src, !.targets = FindTargets(src, Nodes(src), query[1])]
      BY <1>2, <1>10, <2>1
    <3>2. r.targets = FindTargets(src, Nodes(src), query[1])
      BY <3>1 DEF NoResult
    <3>3. QED  BY <2>1, <3>2
  <2>2. CASE method # "query"
    <3>1. r = Transform(src, query, method, command.new)
      BY <1>2, <1>10, <2>2
    <3>2. QED  BY <1>4, <1>6, <3>1, TransformFinds
  <2>3. QED  BY <2>1, <2>2
<1>12. ts # <<>>
  <2>1. SUFFICES ASSUME ts = <<>>
                 PROVE  FALSE
    OBVIOUS
  <2>2. method = "append"
    BY <1>9, <2>1 DEF Filled
  <2>3. query = <<>>
    BY <1>10, <2>1 DEF Parsed
  <2>4. QED  BY <1>11, <2>2, <2>3
<1>13. query[1] = ParseDSL(ts).q /\ ParseDSL(ts).ok
  <2>1. Parsed(ts) = [ok |-> ParseDSL(ts).ok, q |-> <<ParseDSL(ts).q>>]
    BY <1>12 DEF Parsed
  <2>2. Parsed(ts).ok = ParseDSL(ts).ok /\ Parsed(ts).q = <<ParseDSL(ts).q>>
    BY <2>1
  <2>3. ParseDSL(ts).ok
    BY <1>4, <2>2, Zenon
  <2>4. QED  BY <1>10, <2>2, <2>3
<1>14. QED  BY <1>2, <1>4, <1>5, <1>11, <1>12, <1>13 DEF FoundInv

\* Every step keeps it.
LEMMA FoundNext ==
  ASSUME EditAssumptions, EditInductive, TextInv, FoundInv, EditNext
  PROVE  FoundInv'
<1>1. SUFFICES ASSUME Finding'
               PROVE  FoundInv'
  BY DEF FoundInv
<1>2. at' = "transformed"
  BY <1>1 DEF Finding
<1>3. ~Fails
  BY <1>2 DEF Fails
<1>4. CASE LoadSource
  BY <1>2, <1>3, <1>4 DEF LoadSource
<1>5. CASE TransformSource
  BY <1>1, <1>5, FoundTransform
<1>6. CASE SkipWrite
  BY <1>2, <1>6 DEF SkipWrite
<1>7. CASE Truncate
  BY <1>2, <1>7 DEF Truncate
<1>8. CASE WriteModified
  BY <1>2, <1>8 DEF WriteModified
<1>9. CASE ValidateRecipe
  BY <1>2, <1>3, <1>9 DEF ValidateRecipe
<1>10. CASE Preflight
  BY <1>2, <1>3, <1>10 DEF Preflight, Passed, Finished
<1>11. CASE ApplyStep
  BY <1>2, <1>3, <1>11 DEF ApplyStep, Finished
<1>12. CASE OutsideEdit
  <2>1. UNCHANGED <<command, at, step, src, result>>
    BY <1>12 DEF OutsideEdit
  <2>2. QED  BY <1>1, <2>1 DEF Finding, FoundInv, This
<1>13. CASE RecipeCommand
  BY <1>9, <1>10, <1>11, <1>13 DEF RecipeCommand
<1>14. CASE \E method \in Methods : Runs(method)
  BY <1>4, <1>5, <1>6, <1>7, <1>8, <1>14 DEF Runs
<1>15. QED
  BY <1>12, <1>13, <1>14 DEF EditNext, Methods, ReplaceCommand, DeleteCommand, InsertBeforeCommand,
     InsertAfterCommand, AppendCommand, QueryCommand

\* A selector finds the nodes its grammar says (ParseDSL, findTargets), for
\* every text and every supported selector, and none of them twice.
THEOREM SelectorsMeanHolds == EditSpec => []SelectorsMean
<1>1. EditInit => FoundInv
  BY DEF EditInit, FoundInv, Finding
<1>2. EditInductive /\ TextInv /\ FoundInv /\ [EditNext]_editVars => FoundInv'
  <2>1. FoundInv /\ UNCHANGED editVars => FoundInv'
    BY DEF FoundInv, Finding, This, editVars
  <2>2. QED  BY <2>1, FoundNext, EditAssumptions
<1>3. EditInductive /\ TextInv /\ FoundInv => SelectorsMean
  <2>1. SUFFICES ASSUME EditInductive, TextInv, FoundInv
                 PROVE  SelectorsMean
    OBVIOUS
  <2>2. ASSUME Finding, Supported(This.ts)
        PROVE  SetOf(result.targets) = Means(src, This.ts)
    <3>1. at = "transformed"
      BY <2>2 DEF Finding
    <3>2. step <= Len(command.steps)
      <4>1. ~command.recipe
        BY <2>1, <3>1 DEF EditInductive, PlaceInv
      <4>2. step = 1 /\ Len(command.steps) = 1
        BY <2>1, <4>1 DEF EditInductive, PlaceInv, CommandInv
      <4>3. QED  BY <4>2
    <3>3. PICK ts \in Seq(Tokens) : ts = This.ts
      BY <2>1, <3>2, ThisTyped, EditAssumptions
    <3>4. /\ ParseDSL(ts).ok
          /\ result.targets = FindTargets(src, Nodes(src), ParseDSL(ts).q)
      BY <2>1, <2>2, <3>3 DEF FoundInv
    <3>5. src \in Seq(Symbols)
      BY <2>1 DEF TextInv
    <3>6. PICK text \in Seq(Symbols) : text = src
      BY <3>5
    <3>7. Selects(text, ParseDSL(ts).q) = Means(text, ts)
      BY <2>2, <3>3, <3>4, ParsedMeans
    <3>8. QED  BY <3>3, <3>4, <3>6, <3>7 DEF Selects
  <2>3. \A i, j \in DOMAIN result.targets : result.targets[i] = result.targets[j] => i = j
    BY <2>1 DEF TextInv, ResultTyped, Distinct
  <2>4. QED  BY <2>2, <2>3 DEF SelectorsMean
<1>4. QED  BY <1>1, <1>2, <1>3, EditInductiveHolds, TextInvHolds, PTL DEF EditSpec
=============================================================================
