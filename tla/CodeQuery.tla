------------------------------ MODULE CodeQuery ------------------------------
(***************************************************************************)
(* Selectors and edits: the query language of core/dsl.go, and how         *)
(* providers/base/provider.go finds what a query selects and edits it.     *)
(*                                                                         *)
(* Source code is a sequence of symbols.  "fa", "fb" and "ca" open the     *)
(* functions a and b and the class a, "}" closes what is open, "x" is any  *)
(* other text; a node of the syntax tree is what an opening symbol and its *)
(* closing one enclose.  An offset is the number of symbols before it.     *)
(* Languages, attributes and captures are left out; a name is matched      *)
(* exactly or by "*".                                                      *)
(***************************************************************************)
EXTENDS Integers, Sequences, FiniteSets, SequencesExt

\* Whether the parser repairs a text whose braces do not match with missing
\* tokens alone, and leaves no error node in its tree.
CONSTANT Repairs(_)

Opening == [fa |-> [kind |-> "func",  name |-> "a"],
            fb |-> [kind |-> "func",  name |-> "b"],
            ca |-> [kind |-> "class", name |-> "a"]]
Symbols == DOMAIN Opening \union {"}", "x"}

\* Selector tokens; the other tokens are operators and parentheses.
Selector == [fAll  |-> [kind |-> "func",  name |-> "*"],
             fA    |-> [kind |-> "func",  name |-> "a"],
             fB    |-> [kind |-> "func",  name |-> "b"],
             cAll  |-> [kind |-> "class", name |-> "*"]]
Tokens == DOMAIN Selector \union {"!", "&", "|", ">", ">>", "(", ")"}

-----------------------------------------------------------------------------
(* ParseDSL.  A parser's result is a query and the position after it. *)

Simple(token) == [op |-> "", sel |-> Selector[token], sub |-> <<>>, direct |-> FALSE, args |-> <<>>]
Compound(op, args) == [op |-> op, sel |-> [kind |-> "", name |-> ""], sub |-> <<>>,
                       direct |-> FALSE, args |-> args]

Accepted(q, at) == [ok |-> TRUE, q |-> q, at |-> at]
Fail == [ok |-> FALSE, q |-> Compound("", <<>>), at |-> 0]
TokenAt(ts, i, token) == i <= Len(ts) /\ ts[i] = token

\* a | b | c has three operands.
MergeBinary(op, left, right) ==
  Compound(op, IF left.op = op THEN Append(left.args, right) ELSE <<left, right>>)

\* What a query is made of: its i-th operand, and at 0 what it must contain.
Child(q, i)  == IF i = 0 THEN q.sub[1] ELSE q.args[i]
Children(q)  == DOMAIN q.args \union {i \in {0} : q.sub # <<>>}

\* The query at the end of a path, and the paths there are.
QueryAt(q, path) ==
  LET at[k \in 0 .. Len(path)] == IF k = 0 THEN q ELSE Child(at[k - 1], path[k])
  IN  at[Len(path)]
Paths(q) == {path \in Seq(Nat) : \A k \in DOMAIN path :
               path[k] \in Children(QueryAt(q, SubSeq(path, 1, k - 1)))}

\* Mutant: the second child of a chain is a child of the first parent.
AttachFlat(parent, child, direct) == [parent EXCEPT !.sub = <<child>>, !.direct = direct]

\* a > b > c: what a contains must contain c.  A compound parent passes the
\* child on to its operands, a negated one keeps it, and nothing looks at it.
Attached(q, within, child, direct) ==
  IF q.op \in {"AND", "OR"} THEN [q EXCEPT !.args = [i \in DOMAIN q.args |-> within[i]]]
  ELSE IF q.sub = <<>> THEN [q EXCEPT !.sub = <<child>>, !.direct = direct]
  ELSE [q EXCEPT !.sub = <<within[0]>>]

AttachContains(parent, child, direct) ==
  LET attach[path \in Paths(parent)] ==
        LET q == QueryAt(parent, path)
        IN  Attached(q, [i \in Children(q) |-> attach[Append(path, i)]], child, direct)
  IN  attach[<<>>]

\* The levels of the grammar, the operators of each, and the level below.
Operators == [or |-> {"|"}, and |-> {"&"}, contains |-> {">", ">>"}]
Below     == [or |-> "and", and |-> "contains", contains |-> "unary"]

Combine(level, left, token, right) ==
  CASE level = "or"       -> MergeBinary("OR", left, right)
    [] level = "and"      -> MergeBinary("AND", left, right)
    [] level = "contains" -> AttachContains(left, right, token = ">>")

\* One more operator and operand, if there is one.
Extend(ts, level, l, operand) ==
  IF l.ok /\ l.at <= Len(ts) /\ ts[l.at] \in Operators[level]
  THEN LET r == operand[l.at + 1]
       IN  IF r.ok THEN Accepted(Combine(level, l.q, ts[l.at], r.q), r.at) ELSE Fail
  ELSE l

\* parseOr, parseAnd and parseContains take operands as long as there are
\* operators: left[n] is the result after n of them, operand[j] what the level
\* below takes from j on.
ParseOperands(ts, level, i, operand) ==
  LET left[n \in 0 .. Len(ts)] ==
        IF n = 0 THEN operand[i] ELSE Extend(ts, level, left[n - 1], operand)
  IN  left[Len(ts)]

\* parseUnary, parsePrimary
ParseUnary(ts, i, parse) ==
  IF TokenAt(ts, i, "!")
  THEN LET r == parse[<<"unary", i + 1>>]
       IN  IF r.ok THEN Accepted(Compound("NOT", <<r.q>>), r.at) ELSE Fail
  ELSE IF TokenAt(ts, i, "(")
  THEN LET r == parse[<<"or", i + 1>>]
       IN  IF r.ok /\ TokenAt(ts, r.at, ")") THEN Accepted(r.q, r.at + 1) ELSE Fail
  ELSE IF i <= Len(ts) /\ ts[i] \in DOMAIN Selector THEN Accepted(Simple(ts[i]), i + 1) ELSE Fail

ParseFrom(ts) ==
  LET parse[c \in {"or", "and", "contains", "unary"} \X (1 .. Len(ts) + 1)] ==
        IF c[1] = "unary" THEN ParseUnary(ts, c[2], parse)
        ELSE ParseOperands(ts, c[1], c[2],
                           [j \in c[2] .. Len(ts) + 1 |-> parse[<<Below[c[1]], j>>]])
  IN  parse[<<"or", 1>>]

ParseDSL(ts) ==
  LET r == ParseFrom(ts) IN IF r.ok /\ r.at = Len(ts) + 1 THEN r ELSE Fail

-----------------------------------------------------------------------------
(* The syntax tree (the parser is tree-sitter), and findTargets *)

Depth(text, i) == Cardinality({k \in 1 .. i : text[k] \in DOMAIN Opening})
                  - Cardinality({k \in 1 .. i : text[k] = "}"})
Closes(text, i) == {j \in i + 1 .. Len(text) : Depth(text, j) = Depth(text, i) - 1}

\* No error node (findErrors): missing tokens are none.
Balanced(text) == /\ \A i \in DOMAIN text : Depth(text, i) >= 0
                  /\ Depth(text, Len(text)) = 0
Valid(text) == Balanced(text) \/ Repairs(text)

\* What a repaired text leaves open ends with the text.
Ends(text, i) == IF Closes(text, i) = {} /\ Repairs(text) THEN {Len(text)} ELSE Closes(text, i)

Nodes(text) ==
  {[kind |-> Opening[text[i]].kind, name |-> Opening[text[i]].name,
    from |-> i - 1, to |-> CHOOSE j \in Ends(text, i) : \A k \in Ends(text, i) : j <= k] :
     i \in {i \in DOMAIN text : text[i] \in DOMAIN Opening /\ Ends(text, i) # {}}}

Inside(n, m) == m.from < n.from /\ n.to <= m.to
ChildOf(n, m, text) == Inside(n, m) /\ ~\E k \in Nodes(text) : Inside(n, k) /\ Inside(k, m)

\* A sequence in ascending order of keys.
Sorted(s, key) ==
  LET p == CHOOSE p \in Bijection(DOMAIN s, DOMAIN s) :
             \A i, j \in DOMAIN s : i < j => key[p[i]] <= key[p[j]]
  IN  [i \in DOMAIN s |-> s[p[i]]]

InOrder(nodes) == LET s == SetToSeq(nodes) IN Sorted(s, [i \in DOMAIN s |-> s[i].from])
ElementOf(n, s) == \E i \in DOMAIN s : s[i] = n

\* candidateTargets, for one node; find is the search for what the node must
\* contain.  A direct child is compared with the kind and name of the query
\* only, which a compound query has not.
Candidate(text, n, q, find) ==
  /\ n.kind = q.sel.kind /\ q.sel.name \in {"*", n.name}
  /\ q.sub # <<>> =>
       LET below == {m \in Nodes(text) : Inside(m, n)}
       IN  IF q.direct
           THEN \E m \in below : /\ ChildOf(m, n, text)
                                 /\ m.kind = q.sub[1].sel.kind
                                 /\ q.sub[1].sel.name \in {"*", m.name}
                                 /\ q.sub[1].sub # <<>> => find[{m}] # <<>>
           ELSE find[below] # <<>>

\* findUnionTargets keeps the first of equal targets, in operand order;
\* findIntersectionTargets keeps those it finds again.
UnionOf(s, t) == FoldLeft(LAMBDA r, n : IF ElementOf(n, r) THEN r ELSE Append(r, n), s, t)
Kept(s, S)    == FoldLeft(LAMBDA r, n : IF n \in S THEN Append(r, n) ELSE r, <<>>, s)

\* What q finds among S, in the order of the tree walk; within is what the
\* parts of q find.
Found(text, q, within) ==
  [S \in SUBSET Nodes(text) |->
     CASE q.op = "AND" ->
            Kept(within[1][S],
                 {n \in S : \A i \in 2 .. Len(q.args) : ElementOf(n, within[i][S])})
       [] q.op = "OR" -> FoldLeft(UnionOf, <<>>, [i \in DOMAIN q.args |-> within[i][S]])
       [] q.op = "NOT" ->
            IF q.args[1].sel.kind = "" THEN <<>>
            ELSE InOrder({n \in S : /\ n.kind = q.args[1].sel.kind
                                    /\ ~ElementOf(n, within[1][S])})
       [] OTHER -> InOrder({n \in S : Candidate(text, n, q, within[0])})]

FindTargets(text, nodes, query) ==
  LET find[path \in Paths(query)] ==
        LET q == QueryAt(query, path)
        IN  Found(text, q, [i \in Children(q) |-> find[Append(path, i)]])
  IN  find[<<>>][nodes]

-----------------------------------------------------------------------------
(* The edits.  Targets are taken from the last to the first, so that an     *)
(* edit does not move the targets still to come.                            *)

\* Mutant: the first target first.
FirstFirst(targets) == Sorted(targets, [i \in DOMAIN targets |-> targets[i].from])

LastFirst(targets) == Sorted(targets, [i \in DOMAIN targets |-> -targets[i].from])
Splice(text, from, to, new) == SubSeq(text, 1, from) \o new \o SubSeq(text, to + 1, Len(text))

\* new in place of each span, unless that is beyond the end by then.
SpliceAll(text, spans, new) ==
  FoldLeft(LAMBDA r, s : IF s.to > Len(r) THEN r ELSE Splice(r, s.from, s.to, new), text, spans)
Point(at) == [from |-> at, to |-> at]

DoReplace(text, targets, new) == SpliceAll(text, LastFirst(targets), new)
DoDelete(text, targets)       == DoReplace(text, targets, <<>>)
DoInsertBefore(text, targets, new) ==
  SpliceAll(text, [i \in DOMAIN targets |-> Point(LastFirst(targets)[i].from)], new)
DoInsertAfter(text, targets, new) ==
  SpliceAll(text, [i \in DOMAIN targets |-> Point(LastFirst(targets)[i].to)], new)
DoAppend(text, to, new) == Splice(text, to, to, new)

Clamp(score) == IF score < 0 THEN 0 ELSE IF score > 100 THEN 100 ELSE score

\* In hundredths.  The name a is exported.
CalculateConfidence(method, targets, wild) ==
  LET many     == IF Len(targets) = 1 THEN 10 ELSE IF Len(targets) > 5 THEN -30 ELSE 0
      exported == targets[1].name = "a"
      kind     == IF method = "delete" THEN (IF exported THEN -40 ELSE -10)
                  ELSE IF method = "replace" /\ exported THEN -20 ELSE 0
  IN  Clamp(100 + many + kind + (IF wild THEN -15 ELSE 0))

\* Mutant: the source is validated, not the result.
AdjustConfidenceSource(score, text, out, targets) ==
  Clamp(score + (IF Valid(text) THEN 0 ELSE -40) + (IF Len(targets) > 3 THEN -10 ELSE 0))

AdjustConfidence(score, text, out, targets) ==
  LET delta == IF Len(out) > Len(text) THEN Len(out) - Len(text) ELSE Len(text) - Len(out)
  IN  Clamp(score + (IF Valid(out) THEN 0 ELSE -40)
                  + (IF Len(targets) > 3 THEN -10 ELSE 0)
                  + (IF out # <<>> /\ text # <<>> /\ 10 * delta > 3 * Len(text) THEN -10 ELSE 0))

NoResult == [ok |-> FALSE, out |-> <<>>, targets |-> <<>>, score |-> 0]

Edited(text, targets, method, new) ==
  CASE method = "replace"       -> DoReplace(text, targets, new)
    [] method = "delete"        -> DoDelete(text, targets)
    [] method = "insert_before" -> DoInsertBefore(text, targets, new)
    [] method = "insert_after"  -> DoInsertAfter(text, targets, new)
    [] method = "append"        -> DoAppend(text, targets[1].to, new)

\* Transform.  An append whose query has no kind and name goes to the end of
\* the file, unmatched and unexamined: no query, and every compound one.
Transform(text, query, method, new) ==
  IF method = "append" /\ (query = <<>> \/ query[1].sel.kind = "")
  THEN [ok |-> TRUE, out |-> DoAppend(text, Len(text), new), targets |-> <<>>, score |-> 100]
  ELSE LET targets == FindTargets(text, Nodes(text), query[1])
           out     == Edited(text, targets, method, new)
           wild    == query[1].sel.name = "*"
       IN  IF targets = <<>> THEN NoResult
           ELSE [ok |-> TRUE, out |-> out, targets |-> targets,
                 score |-> AdjustConfidence(CalculateConfidence(method, targets, wild),
                                            text, out, targets)]

-----------------------------------------------------------------------------
(* References: what the selectors and the edits mean *)

\* Positions of the tokens of ops that are in no parentheses.
Outermost(ts, ops) ==
  {k \in DOMAIN ts : /\ ts[k] \in ops
                     /\ Cardinality({i \in 1 .. k : ts[i] = "("})
                        = Cardinality({i \in 1 .. k : ts[i] = ")"})}
Least(S)    == CHOOSE k \in S : \A i \in S : k <= i
Before(ts, k) == SubSeq(ts, 1, k - 1)
After(ts, k)  == SubSeq(ts, k + 1, Len(ts))

\* The nodes a selector stands for, by the loosest operator of it.
Means(text, selector) ==
  LET means[ts \in Seq(Tokens)] ==
        LET ors == Outermost(ts, {"|"})  ands == Outermost(ts, {"&"})
            has == Outermost(ts, {">", ">>"})
            left(S)  == means[Before(ts, Least(S))]
            right(S) == means[After(ts, Least(S))]
        IN  IF ts = <<>> THEN {}
            ELSE IF ors # {} THEN left(ors) \union right(ors)
            ELSE IF ands # {} THEN left(ands) \intersect right(ands)
            ELSE IF has # {}
            THEN {n \in left(has) : \E m \in right(has) :
                    IF ts[Least(has)] = ">>" THEN ChildOf(m, n, text) ELSE Inside(m, n)}
            ELSE IF ts[1] = "!"
            THEN {n \in Nodes(text) : n.kind = Selector[ts[2]].kind} \ means[Tail(ts)]
            ELSE IF ts[1] = "(" THEN means[SubSeq(ts, 2, Len(ts) - 1)]
            ELSE {n \in Nodes(text) : /\ n.kind = Selector[ts[1]].kind
                                      /\ Selector[ts[1]].name \in {"*", n.name}}
  IN  means[selector]

\* From i to k is a parenthesis, and what it closes.
Group(ts, i, k) == Outermost(SubSeq(ts, i, k), Tokens) = {k - i + 1}

\* What the code does not support: ! of more than a selector, > after it, >>
\* to more than a selector, and > or >> after parentheses that hold more than
\* | and & (the child is given to the last of a chain, to none of a negation).
Supported(ts) ==
  \A k \in DOMAIN ts :
    /\ ts[k] = "!" => /\ k < Len(ts) /\ ts[k + 1] \in DOMAIN Selector
                      /\ k + 1 < Len(ts) => ts[k + 2] \notin {">", ">>"}
    /\ ts[k] = ">>" => k < Len(ts) /\ ts[k + 1] \in DOMAIN Selector
    /\ ts[k] \in {">", ">>"} =>
         \A i \in 1 .. k - 2 : Group(ts, i, k - 1) =>
           \A j \in i .. k - 1 : ts[j] \notin {"!", ">", ">>"}

SetOf(s) == {s[i] : i \in DOMAIN s}
Disjoint(targets) == \A n, m \in SetOf(targets) : n = m \/ n.to <= m.from \/ m.to <= n.from

\* The text with new for every target that is inside no other.
Replaced(text, targets, new) ==
  LET outer == {n \in SetOf(targets) : ~\E m \in SetOf(targets) : Inside(n, m)}
      from[i \in 0 .. Len(text)] ==
        IF \E n \in outer : n.from = i
        THEN new \o from[(CHOOSE n \in outer : n.from = i).to]
        ELSE IF i = Len(text) THEN <<>> ELSE <<text[i + 1]>> \o from[i + 1]
  IN  from[0]

\* The text with new at each of the offsets.
Inserted(text, offsets, new) ==
  LET here(i) == IF i \in offsets THEN new ELSE <<>>
      from[i \in 0 .. Len(text)] ==
        IF i = Len(text) THEN here(i) ELSE here(i) \o <<text[i + 1]>> \o from[i + 1]
  IN  from[0]

Meant(text, targets, method, new) ==
  CASE method = "replace"       -> Replaced(text, targets, new)
    [] method = "delete"        -> Replaced(text, targets, <<>>)
    [] method = "insert_before" -> Inserted(text, {n.from : n \in SetOf(targets)}, new)
    [] method = "insert_after"  -> Inserted(text, {n.to : n \in SetOf(targets)}, new)
    [] method = "append"        -> Inserted(text, {targets[1].to}, new)
=============================================================================
