---------------------------- MODULE QueryProofs ----------------------------
(***************************************************************************)
(* Proofs about file_query with the cache of syntax trees (FileQuery).     *)
(*                                                                         *)
(* No tree in the cache is closed: whoever closes an entry has seen it     *)
(* expired, and first deletes the one key it was stored under (Closer).    *)
(* The key may have a new entry by then, which loses its place in the map  *)
(* but is not closed.                                                      *)
(*                                                                         *)
(* Nothing is sent twice when links are followed: a directory is entered   *)
(* once (OnceInv), and what was sent lies behind the place of the scanner  *)
(* in its directory (Behind).                                              *)
(*                                                                         *)
(* A query nobody troubled is complete (CompleteInv): each name sent is in *)
(* one place on its way until it is collected (CountInv); nobody leaves    *)
(* before those ahead of him and his channel (FlowInv); and what the       *)
(* scanner has left is closed under what its entries lead to, up to what   *)
(* it is still in (Scanned), so that it covers the scope at the end.       *)
(***************************************************************************)
EXTENDS FileQuery, SequenceTheorems, FiniteSetTheorems, TLAPS

-----------------------------------------------------------------------------
(* The cache *)

Asts   == [lang: Languages, old: BOOLEAN, open: BOOLEAN]
Places == {"idle", "look", "copy", "evict", "close", "parse", "got", "failed"}
Uses   == [at: Places, src: Sources, lang: Languages, n: Nat]

CacheTypes ==
  /\ ast \in Seq(Asts)
  /\ cache \in [Sources -> 0 .. Len(ast)]
  /\ use \in [Users -> Uses] /\ \A u \in Users : use[u].n <= Len(ast)
  /\ pruner \in Uses /\ pruner.n <= Len(ast)
  /\ crashed \in BOOLEAN

\* Whoever is about to close an entry has seen that it has expired; it is
\* stored under the one key it had, until that is deleted, and never again.
Closer(r) ==
  /\ r.at \in {"copy", "evict", "close"} => r.n \in 1 .. Len(ast)
  /\ r.at \in {"evict", "close"} =>
       /\ ast[r.n].old
       /\ \A s \in Sources : cache[s] = r.n => r.at = "evict" /\ s = r.src

CacheInv ==
  /\ CacheTypes
  /\ \A s, z \in Sources : cache[s] = cache[z] /\ cache[s] # 0 => s = z
  /\ \A u \in Users : Closer(use[u])
  /\ Closer(pruner)
  /\ \A n \in 1 .. Len(ast) : (\E s \in Sources : cache[s] = n) \/ ~ast[n].old => ast[n].open

\* What a goroutine that parses nothing has.
LEMMA UnusedType ==
  ASSUME FileQueryAssumptions
  PROVE  Unused \in Uses /\ Unused.at = "idle" /\ Unused.n = 0
<1>1. (CHOOSE s \in Sources : TRUE) \in Sources /\ (CHOOSE l \in Languages : TRUE) \in Languages
  BY DEF FileQueryAssumptions
<1>2. QED  BY <1>1 DEF Unused, Uses, Places

\* A change of one field of one entry.
LEMMA OneEntry ==
  ASSUME NEW a \in Seq(Asts), NEW n \in 1 .. Len(a)
  PROVE  /\ [a EXCEPT ![n].open = FALSE] \in Seq(Asts) /\ Len([a EXCEPT ![n].open = FALSE]) = Len(a)
         /\ \A m \in 1 .. Len(a) : /\ [a EXCEPT ![n].open = FALSE][m].old = a[m].old
                                   /\ m # n => [a EXCEPT ![n].open = FALSE][m] = a[m]
         /\ [a EXCEPT ![n].old = TRUE] \in Seq(Asts) /\ Len([a EXCEPT ![n].old = TRUE]) = Len(a)
         /\ \A m \in 1 .. Len(a) : /\ [a EXCEPT ![n].old = TRUE][m].open = a[m].open
                                   /\ m # n => [a EXCEPT ![n].old = TRUE][m] = a[m]
         /\ [a EXCEPT ![n].old = TRUE][n].old
<1>1. a[n] \in Asts /\ DOMAIN a = 1 .. Len(a) /\ a \in [1 .. Len(a) -> Asts]
  BY LenProperties
<1> DEFINE e == [a[n] EXCEPT !.open = FALSE]
           f == [a[n] EXCEPT !.old = TRUE]
<1>2. e \in Asts /\ f \in Asts /\ e.old = a[n].old /\ f.open = a[n].open /\ f.old
  BY <1>1 DEF Asts
<1>3. [a EXCEPT ![n].open = FALSE] = [a EXCEPT ![n] = e] 
      /\ [a EXCEPT ![n].old = TRUE] = [a EXCEPT ![n] = f]
  BY <1>1
<1> HIDE DEF e, f
<1>4. /\ [a EXCEPT ![n] = e] \in Seq(Asts) /\ Len([a EXCEPT ![n] = e]) = Len(a)
      /\ \A m \in 1 .. Len(a) : [a EXCEPT ![n] = e][m] = IF m = n THEN e ELSE a[m]
      /\ [a EXCEPT ![n] = f] \in Seq(Asts) /\ Len([a EXCEPT ![n] = f]) = Len(a)
      /\ \A m \in 1 .. Len(a) : [a EXCEPT ![n] = f][m] = IF m = n THEN f ELSE a[m]
  BY <1>1, <1>2, ExceptSeq
<1>5. PICK x, y : x = [a EXCEPT ![n] = e] /\ y = [a EXCEPT ![n] = f]
  OBVIOUS
<1>6. /\ x \in Seq(Asts) /\ Len(x) = Len(a) /\ y \in Seq(Asts) /\ Len(y) = Len(a)
      /\ \A m \in 1 .. Len(a) : x[m].old = a[m].old /\ (m # n => x[m] = a[m])
      /\ \A m \in 1 .. Len(a) : y[m].open = a[m].open /\ (m # n => y[m] = a[m])
      /\ y[n].old
  BY <1>2, <1>4, <1>5
<1>7. QED  BY <1>3, <1>5, <1>6

\* What a step of a goroutine does to its own record.
LEMMA UseStep ==
  ASSUME CacheTypes, NEW u \in Users, NEW r \in Uses, use' = [use EXCEPT ![u] = r]
  PROVE  /\ use' \in [Users -> Uses] /\ use'[u] = r
         /\ \A v \in Users \ {u} : use'[v] = use[v]
BY DEF CacheTypes

\* The record of a goroutine that goes to another place.
LEMMA PlaceOf ==
  ASSUME CacheTypes, NEW u \in Users
  PROVE  /\ use[u] \in Uses
         /\ \A p \in Places :
              LET r == [use[u] EXCEPT !.at = p]
              IN  /\ r \in Uses /\ r.at = p /\ r.src = use[u].src /\ r.n = use[u].n
                  /\ [use EXCEPT ![u].at = p] = [use EXCEPT ![u] = r]
BY DEF CacheTypes, Uses

\* A step that only moves one goroutine, to where it closes nothing or closes
\* what it may.
LEMMA UseMoved ==
  ASSUME CacheInv, NEW u \in Users, NEW r \in Uses, use' = [use EXCEPT ![u] = r],
         r.n <= Len(ast), Closer(r), UNCHANGED <<cache, ast, pruner, crashed>>
  PROVE  CacheInv'
<1>1. use' \in [Users -> Uses] /\ use'[u] = r /\ \A v \in Users \ {u} : use'[v] = use[v]
  BY UseStep DEF CacheInv
<1>2. CacheTypes'
  BY <1>1 DEF CacheInv, CacheTypes
<1>3. ASSUME NEW v \in Users PROVE Closer(use[v])'
  <2>1. Closer(use'[v])
    BY <1>1 DEF CacheInv
  <2>2. QED  BY <2>1 DEF Closer
<1>4. Closer(pruner)'
  BY DEF CacheInv, Closer
<1>5. QED  BY <1>2, <1>3, <1>4 DEF CacheInv

\* Who finds an expired entry has the one key it is stored under.
LEMMA LookStep ==
  ASSUME CacheInv, NEW u \in Users, Look(u)
  PROVE  CacheInv'
<1> DEFINE n == cache[use[u].src]
           p == IF n = 0 THEN "parse" ELSE IF ast[n].old THEN "evict" ELSE "copy"
<1>1. use[u] \in Uses /\ n \in 0 .. Len(ast) /\ Len(ast) \in Nat
  BY LenProperties DEF CacheInv, CacheTypes, Uses
<1>2. p \in Places
  BY DEF Places
<1>3. PICK r \in Uses : r = [use[u] EXCEPT !.n = n, !.at = p]
  <2>1. n \in Nat
    BY <1>1
  <2> HIDE DEF n, p
  <2>2. [use[u] EXCEPT !.n = n, !.at = p] \in Uses
    BY <1>1, <1>2, <2>1 DEF Uses
  <2>3. QED  BY <2>2
<1>4. r.n = n /\ r.at = p /\ r.src = use[u].src
  <2> HIDE DEF n, p
  <2>1. QED  BY <1>1, <1>3 DEF Uses
<1>5. use' = [use EXCEPT ![u] = r] /\ UNCHANGED <<cache, ast, pruner, crashed>>
  <2>1. use' = [use EXCEPT ![u].n = n, ![u].at = p] /\ UNCHANGED <<cache, ast, pruner, crashed>>
    BY DEF Look
  <2> HIDE DEF n, p
  <2>2. [use EXCEPT ![u].n = n, ![u].at = p] = [use EXCEPT ![u] = [use[u] EXCEPT !.n = n, !.at = p]]
    BY DEF CacheInv, CacheTypes
  <2>3. QED  BY <1>3, <2>1, <2>2
<1>6. Closer(r)
  <2>1. CASE n = 0
    BY <1>4, <2>1 DEF Closer
  <2>2. CASE n # 0
    <3>1. n \in 1 .. Len(ast) /\ use[u].src \in Sources
      BY <1>1, <2>2 DEF Uses
    <3>2. \A s \in Sources : cache[s] = n => s = use[u].src
      BY <2>2, <3>1 DEF CacheInv
    <3>3. QED  BY <1>4, <3>1, <3>2, <2>2 DEF Closer
  <2>3. QED  BY <2>1, <2>2
<1>7. r.n <= Len(ast)
  <2>1. n <= Len(ast)
    BY <1>1
  <2>2. QED  BY <1>4, <2>1
<1> HIDE DEF n, p
<1>8. QED  BY <1>5, <1>6, <1>7, UseMoved

\* To a place where nothing is closed.
LEMMA PlaceMoved ==
  ASSUME CacheInv, NEW u \in Users, NEW p \in {"idle", "look", "parse", "got", "failed"},
         NEW r \in Uses, r.n <= Len(ast), r.at = p, use' = [use EXCEPT ![u] = r],
         UNCHANGED <<cache, ast, pruner, crashed>>
  PROVE  CacheInv'
<1>1. Closer(r)
  BY DEF Closer
<1>2. QED  BY <1>1, UseMoved

\* Copying a tree closes none.
LEMMA CopyStep ==
  ASSUME CacheInv, NEW u \in Users, CopyTree(u)
  PROVE  CacheInv'
<1>1. CASE ~ast[use[u].n].open
  BY <1>1 DEF CopyTree, CacheInv, CacheTypes, Closer
<1>2. CASE ast[use[u].n].open
  <2> DEFINE l == ast[use[u].n].lang
  <2>1. use' = [use EXCEPT ![u].at = "got", ![u].lang = l] /\ use[u].at = "copy"
        /\ UNCHANGED <<cache, ast, pruner, crashed>>
    BY <1>2 DEF CopyTree, Got
  <2>2. l \in Languages
    <3>1. use[u].n \in 1 .. Len(ast) /\ ast \in Seq(Asts)
      BY <2>1 DEF CacheInv, CacheTypes, Closer
    <3>2. ast[use[u].n] \in Asts
      BY <3>1, ElementOfSeq
    <3>3. QED  BY <3>2 DEF Asts
  <2>3. use[u] \in Uses /\ use[u].n <= Len(ast) /\ use \in [Users -> Uses]
    BY DEF CacheInv, CacheTypes
  <2> HIDE DEF l
  <2>4. PICK r \in Uses : r = [use[u] EXCEPT !.at = "got", !.lang = l]
    BY <2>2, <2>3 DEF Uses, Places
  <2>5. r.at = "got" /\ r.n = use[u].n
    BY <2>3, <2>4 DEF Uses
  <2>6. use' = [use EXCEPT ![u] = r]
    BY <2>1, <2>3, <2>4
  <2>7. QED  BY <2>1, <2>3, <2>5, <2>6, PlaceMoved
<1>3. QED  BY <1>1, <1>2

\* Nor does a failing parse.
LEMMA ParseFailsStep ==
  ASSUME CacheInv, NEW u \in Users, ParseFails(u)
  PROVE  CacheInv'
<1>1. PICK r \in Uses : r.at = "failed" /\ r.n = use[u].n /\ use' = [use EXCEPT ![u] = r]
  BY PlaceOf DEF CacheInv, ParseFails, Go, Places
<1>2. r.n <= Len(ast)
  BY <1>1 DEF CacheInv, CacheTypes
<1>3. QED  BY <1>1, <1>2, PlaceMoved DEF ParseFails

\* Deleting a key.
LEMMA Deleted ==
  ASSUME CacheInv, NEW z \in Sources, cache' = [cache EXCEPT ![z] = 0], UNCHANGED ast
  PROVE  /\ cache' \in [Sources -> 0 .. Len(ast)] /\ cache'[z] = 0
         /\ \A s \in Sources : cache'[s] \in {0, cache[s]}
         /\ \A s, y \in Sources : cache'[s] = cache'[y] /\ cache'[s] # 0 => s = y
         /\ \A n \in 1 .. Len(ast) :
              (\E s \in Sources : cache'[s] = n) \/ ~ast[n].old => ast[n].open
         /\ \A r \in Uses : Closer(r) => Closer(r)'
<1>1. Len(ast) \in Nat /\ cache \in [Sources -> 0 .. Len(ast)]
  BY LenProperties DEF CacheInv, CacheTypes
<1>2. cache' \in [Sources -> 0 .. Len(ast)] /\ cache'[z] = 0
      /\ \A s \in Sources : cache'[s] \in {0, cache[s]}
  BY <1>1
<1>3. \A s, y \in Sources : cache'[s] = cache'[y] /\ cache'[s] # 0 => s = y
  BY <1>2 DEF CacheInv
<1>4. \A n \in 1 .. Len(ast) : (\E s \in Sources : cache'[s] = n) \/ ~ast[n].old => ast[n].open
  <2>1. ASSUME NEW n \in 1 .. Len(ast), NEW s \in Sources, cache'[s] = n
        PROVE  cache[s] = n
    BY <1>2, <2>1
  <2>2. QED  BY <2>1 DEF CacheInv
<1>5. ASSUME NEW r \in Uses, Closer(r) PROVE Closer(r)'
  <2>1. ASSUME r.n \in 1 .. Len(ast), NEW s \in Sources, cache'[s] = r.n
        PROVE  cache[s] = r.n
    BY <1>2, <2>1
  <2>2. QED  BY <1>5, <2>1 DEF Closer
<1>6. QED  BY <1>2, <1>3, <1>4, <1>5

\* Who has deleted the key may close: the entry is under no key.
LEMMA EvictStep ==
  ASSUME CacheInv, NEW u \in Users, Evict(u)
  PROVE  CacheInv'
<1>1. PICK r \in Uses : r.at = "close" /\ r.n = use[u].n /\ r.src = use[u].src
                        /\ use' = [use EXCEPT ![u] = r]
  BY PlaceOf DEF CacheInv, Evict, Go, Places
<1>2. /\ use[u].at = "evict" /\ use[u].src \in Sources
      /\ cache' = [cache EXCEPT ![use[u].src] = 0] /\ UNCHANGED <<ast, pruner, crashed>>
  BY DEF Evict, CacheInv, CacheTypes, Uses
<1>3. PICK z \in Sources : z = use[u].src
  BY <1>2
<1>4. /\ cache' \in [Sources -> 0 .. Len(ast)] /\ cache'[z] = 0
      /\ \A s \in Sources : cache'[s] \in {0, cache[s]}
      /\ \A s, y \in Sources : cache'[s] = cache'[y] /\ cache'[s] # 0 => s = y
      /\ \A n \in 1 .. Len(ast) : (\E s \in Sources : cache'[s] = n) \/ ~ast[n].old => ast[n].open
      /\ \A q \in Uses : Closer(q) => Closer(q)'
  BY <1>2, <1>3, Deleted
<1>5. use' \in [Users -> Uses] /\ use'[u] = r /\ \A v \in Users \ {u} : use'[v] = use[v]
  BY <1>1, UseStep DEF CacheInv
<1>6. CacheTypes'
  BY <1>1, <1>2, <1>4, <1>5 DEF CacheInv, CacheTypes
<1>7. Closer(r)'
  <2>1. r.n \in 1 .. Len(ast) /\ ast[r.n].old /\ \A s \in Sources : cache[s] = r.n => s = z
    BY <1>1, <1>2, <1>3 DEF CacheInv, Closer
  <2>2. \A s \in Sources : cache'[s] # r.n
    BY <1>4, <2>1
  <2>3. QED  BY <1>1, <1>2, <2>1, <2>2 DEF Closer
<1>8. ASSUME NEW v \in Users PROVE Closer(use[v])'
  <2>1. CASE v = u
    BY <1>5, <1>7, <2>1 DEF Closer
  <2>2. CASE v # u
    <3>1. PICK q \in Uses : q = use[v]
      BY DEF CacheInv, CacheTypes
    <3>2. Closer(q)'
      BY <1>4, <3>1 DEF CacheInv
    <3>3. use'[v] = q
      BY <1>5, <2>2, <3>1
    <3>4. QED  BY <3>2, <3>3 DEF Closer
  <2>3. QED  BY <2>1, <2>2
<1>9. Closer(pruner)'
  <2>1. PICK q \in Uses : q = pruner
    BY DEF CacheInv, CacheTypes
  <2>2. Closer(q)'
    BY <1>4, <2>1 DEF CacheInv
  <2>3. pruner' = q
    BY <1>2, <2>1
  <2>4. QED  BY <2>2, <2>3 DEF Closer
<1>10. QED  BY <1>2, <1>4, <1>6, <1>8, <1>9 DEF CacheInv

\* Closing the tree of an expired entry that is under no key.
LEMMA Closed ==
  ASSUME CacheInv, NEW r \in Uses, r.at = "close", Closer(r),
         ast' = [ast EXCEPT ![r.n].open = FALSE], UNCHANGED cache
  PROVE  /\ ast' \in Seq(Asts) /\ Len(ast') = Len(ast)
         /\ \A m \in 1 .. Len(ast) : ast'[m].old = ast[m].old
         /\ \A n \in 1 .. Len(ast) :
              (\E s \in Sources : cache[s] = n) \/ ~ast'[n].old => ast'[n].open
         /\ \A q \in Uses : Closer(q) => Closer(q)'
<1>1. r.n \in 1 .. Len(ast) /\ ast[r.n].old /\ \A s \in Sources : cache[s] # r.n
  BY DEF Closer
<1>2. PICK n \in 1 .. Len(ast) : n = r.n
  BY <1>1
<1>3. ast \in Seq(Asts)
  BY DEF CacheInv, CacheTypes
<1>4. ast' = [ast EXCEPT ![n].open = FALSE]
  BY <1>2
<1>5. /\ ast' \in Seq(Asts) /\ Len(ast') = Len(ast)
      /\ \A m \in 1 .. Len(ast) : ast'[m].old = ast[m].old /\ (m # n => ast'[m] = ast[m])
  <2> DEFINE a == [ast EXCEPT ![n].open = FALSE]
  <2>1. a \in Seq(Asts) /\ Len(a) = Len(ast)
        /\ \A m \in 1 .. Len(ast) : a[m].old = ast[m].old /\ (m # n => a[m] = ast[m])
    BY <1>3, OneEntry
  <2> HIDE DEF a
  <2>2. ast' = a
    BY <1>4 DEF a
  <2>3. QED  BY <2>1, <2>2
<1>6. \A m \in 1 .. Len(ast) :
        (\E s \in Sources : cache[s] = m) \/ ~ast'[m].old => ast'[m].open
  BY <1>1, <1>2, <1>5 DEF CacheInv
<1>7. ASSUME NEW q \in Uses, Closer(q) PROVE Closer(q)'
  BY <1>5, <1>7 DEF Closer
<1>8. QED  BY <1>5, <1>6, <1>7

\* Who closes has the entry of no key.
LEMMA CloseOldStep ==
  ASSUME CacheInv, NEW u \in Users, CloseOld(u)
  PROVE  CacheInv'
<1>1. PICK r \in Uses : r.at = "parse" /\ r.n = use[u].n /\ use' = [use EXCEPT ![u] = r]
  BY PlaceOf DEF CacheInv, CloseOld, Go, Places
<1>2. PICK o \in Uses : o = use[u] /\ Closer(o) /\ o.n <= Len(ast)
  BY DEF CacheInv, CacheTypes
<1>3. o.at = "close" /\ ast' = [ast EXCEPT ![o.n].open = FALSE]
      /\ UNCHANGED <<cache, pruner, crashed>>
  BY <1>2 DEF CloseOld
<1>4. /\ ast' \in Seq(Asts) /\ Len(ast') = Len(ast)
      /\ \A n \in 1 .. Len(ast) :
           (\E s \in Sources : cache[s] = n) \/ ~ast'[n].old => ast'[n].open
      /\ \A q \in Uses : Closer(q) => Closer(q)'
  BY <1>2, <1>3, Closed
<1>5. use' \in [Users -> Uses] /\ use'[u] = r /\ \A v \in Users \ {u} : use'[v] = use[v]
  BY <1>1, UseStep DEF CacheInv
<1>6. CacheTypes'
  BY <1>1, <1>2, <1>3, <1>4, <1>5 DEF CacheInv, CacheTypes
<1>7. Closer(r)'
  BY <1>1 DEF Closer
<1>8. ASSUME NEW v \in Users PROVE Closer(use[v])'
  <2>1. CASE v = u
    BY <1>5, <1>7, <2>1 DEF Closer
  <2>2. CASE v # u
    <3>1. PICK q \in Uses : q = use[v]
      BY DEF CacheInv, CacheTypes
    <3>2. Closer(q)'
      BY <1>4, <3>1 DEF CacheInv
    <3>3. use'[v] = q
      BY <1>5, <2>2, <3>1
    <3>4. QED  BY <3>2, <3>3 DEF Closer
  <2>3. QED  BY <2>1, <2>2
<1>9. Closer(pruner)'
  <2>1. PICK q \in Uses : q = pruner
    BY DEF CacheInv, CacheTypes
  <2>2. Closer(q)'
    BY <1>4, <2>1 DEF CacheInv
  <2>3. pruner' = q
    BY <1>3, <2>1
  <2>4. QED  BY <2>2, <2>3 DEF Closer
<1>10. QED  BY <1>3, <1>4, <1>6, <1>8, <1>9 DEF CacheInv

\* Storing a new entry under a key that has none.
LEMMA StoreNew ==
  ASSUME CacheInv, NEW z \in Sources, cache[z] = 0, NEW e \in Asts, ~e.old, e.open,
         ast' = Append(ast, e), cache' = [cache EXCEPT ![z] = Len(ast')]
  PROVE  /\ ast' \in Seq(Asts) /\ Len(ast') = Len(ast) + 1
         /\ cache' \in [Sources -> 0 .. Len(ast')]
         /\ \A s, y \in Sources : cache'[s] = cache'[y] /\ cache'[s] # 0 => s = y
         /\ \A n \in 1 .. Len(ast') :
              (\E s \in Sources : cache'[s] = n) \/ ~ast'[n].old => ast'[n].open
         /\ \A q \in Uses : Closer(q) => Closer(q)'
<1>1. ast \in Seq(Asts) /\ cache \in [Sources -> 0 .. Len(ast)] /\ Len(ast) \in Nat
  BY LenProperties DEF CacheInv, CacheTypes
<1>2. /\ ast' \in Seq(Asts) /\ Len(ast') = Len(ast) + 1 /\ ast'[Len(ast) + 1] = e
      /\ \A m \in 1 .. Len(ast) : ast'[m] = ast[m]
  BY <1>1, AppendProperties
<1>3. cache' \in [Sources -> 0 .. Len(ast')] /\ cache'[z] = Len(ast) + 1
      /\ \A s \in Sources \ {z} : cache'[s] = cache[s]
  BY <1>1, <1>2
<1>4. \A s \in Sources : cache[s] <= Len(ast)
  BY <1>1
<1>5. \A s, y \in Sources : cache'[s] = cache'[y] /\ cache'[s] # 0 => s = y
  BY <1>1, <1>3, <1>4 DEF CacheInv
<1>6. ASSUME NEW n \in 1 .. Len(ast'), (\E s \in Sources : cache'[s] = n) \/ ~ast'[n].old
      PROVE  ast'[n].open
  <2>1. CASE n = Len(ast) + 1
    BY <1>2, <2>1
  <2>2. CASE n # Len(ast) + 1
    <3>1. n \in 1 .. Len(ast) /\ ast'[n] = ast[n]
      BY <1>1, <1>2, <2>2
    <3>2. (\E s \in Sources : cache[s] = n) \/ ~ast[n].old
      BY <1>3, <1>6, <2>2, <3>1
    <3>3. QED  BY <3>1, <3>2 DEF CacheInv
  <2>3. QED  BY <2>1, <2>2
<1>7. ASSUME NEW q \in Uses, Closer(q) PROVE Closer(q)'
  <2>1. CASE q.at \in {"copy", "evict", "close"}
    <3>1. q.n \in 1 .. Len(ast) /\ q.n \in 1 .. Len(ast') /\ ast'[q.n] = ast[q.n]
      BY <1>1, <1>2, <1>7, <2>1 DEF Closer
    <3>2. \A s \in Sources : cache'[s] = q.n => cache[s] = q.n
      BY <1>1, <1>3, <3>1
    <3>3. QED  BY <1>7, <3>1, <3>2 DEF Closer
  <2>2. CASE q.at \notin {"copy", "evict", "close"}
    BY <2>2 DEF Closer
  <2>3. QED  BY <2>1, <2>2
<1>8. QED  BY <1>2, <1>3, <1>5, <1>6, <1>7

\* LoadOrStore: a new entry, or the one that is there.
LEMMA StoreStep ==
  ASSUME CacheInv, NEW u \in Users, Store(u)
  PROVE  CacheInv'
<1>1. PICK r \in Uses : r.at = "got" /\ r.n = use[u].n /\ use' = [use EXCEPT ![u] = r]
  BY PlaceOf DEF CacheInv, Store, Go, Places
<1>2. PICK o \in Uses : o = use[u] /\ o.n <= Len(ast)
  BY DEF CacheInv, CacheTypes
<1>3. CASE cache[o.src] = 0
  <2>1. PICK z \in Sources : z = o.src
    BY DEF Uses
  <2>2. PICK e \in Asts : e = [lang |-> o.lang, old |-> FALSE, open |-> TRUE]
    BY DEF Uses, Asts
  <2>3. ast' = Append(ast, e) /\ cache' = [cache EXCEPT ![z] = Len(ast')]
    BY <1>2, <1>3, <2>1, <2>2 DEF Store
  <2>4. /\ ast' \in Seq(Asts) /\ Len(ast') = Len(ast) + 1
        /\ cache' \in [Sources -> 0 .. Len(ast')]
        /\ \A s, y \in Sources : cache'[s] = cache'[y] /\ cache'[s] # 0 => s = y
        /\ \A n \in 1 .. Len(ast') :
             (\E s \in Sources : cache'[s] = n) \/ ~ast'[n].old => ast'[n].open
        /\ \A q \in Uses : Closer(q) => Closer(q)'
    <3>1. ~e.old /\ e.open /\ cache[z] = 0
      BY <1>3, <2>1, <2>2
    <3>2. QED  BY <2>3, <3>1, StoreNew
  <2>5. use' \in [Users -> Uses] /\ use'[u] = r /\ \A v \in Users \ {u} : use'[v] = use[v]
    BY <1>1, UseStep DEF CacheInv
  <2>6. UNCHANGED <<pruner, crashed>> /\ Len(ast) \in Nat
    BY LenProperties DEF Store, CacheInv, CacheTypes
  <2>7. CacheTypes'
    <3>1. \A v \in Users : use'[v].n <= Len(ast)
      BY <1>1, <1>2, <2>5 DEF CacheInv, CacheTypes
    <3>2. \A v \in Users : use'[v].n <= Len(ast')
      BY <2>4, <2>5, <2>6, <3>1 DEF Uses
    <3>3. pruner'.n <= Len(ast')
      BY <2>4, <2>6 DEF CacheInv, CacheTypes, Uses
    <3>4. QED  BY <2>4, <2>5, <2>6, <3>2, <3>3 DEF CacheInv, CacheTypes
  <2>8. ASSUME NEW v \in Users PROVE Closer(use[v])'
    <3>1. CASE v = u
      BY <1>1, <2>5, <3>1 DEF Closer
    <3>2. CASE v # u
      <4>1. PICK q \in Uses : q = use[v]
        BY DEF CacheInv, CacheTypes
      <4>2. Closer(q)'
        BY <2>4, <4>1 DEF CacheInv
      <4>3. use'[v] = q
        BY <2>5, <3>2, <4>1
      <4>4. QED  BY <4>2, <4>3 DEF Closer
    <3>3. QED  BY <3>1, <3>2
  <2>9. Closer(pruner)'
    <3>1. PICK q \in Uses : q = pruner
      BY DEF CacheInv, CacheTypes
    <3>2. Closer(q)'
      BY <2>4, <3>1 DEF CacheInv
    <3>3. pruner' = q
      BY <2>6, <3>1
    <3>4. QED  BY <3>2, <3>3 DEF Closer
  <2>10. QED  BY <2>4, <2>7, <2>8, <2>9 DEF CacheInv
<1>4. CASE cache[o.src] # 0
  <2>1. UNCHANGED <<cache, ast, pruner, crashed>> /\ r.n <= Len(ast)
    BY <1>1, <1>2, <1>4 DEF Store
  <2>2. QED  BY <1>1, <2>1, PlaceMoved
<1>5. QED  BY <1>3, <1>4

\* Time passes: nobody was about to close the entry that expires.
LEMMA ExpireStep ==
  ASSUME CacheInv, NEW n \in DOMAIN ast, Expire(n)
  PROVE  CacheInv'
<1>1. ast \in Seq(Asts) /\ n \in 1 .. Len(ast) /\ ~ast[n].old
      /\ ast' = [ast EXCEPT ![n].old = TRUE] /\ UNCHANGED <<cache, use, pruner, crashed>>
  BY LenProperties DEF CacheInv, CacheTypes, Expire
<1>2. /\ ast' \in Seq(Asts) /\ Len(ast') = Len(ast) /\ ast'[n].old
      /\ \A m \in 1 .. Len(ast) : ast'[m].open = ast[m].open /\ (m # n => ast'[m] = ast[m])
  <2> DEFINE a == [ast EXCEPT ![n].old = TRUE]
  <2>1. a \in Seq(Asts) /\ Len(a) = Len(ast) /\ a[n].old
        /\ \A m \in 1 .. Len(ast) : a[m].open = ast[m].open /\ (m # n => a[m] = ast[m])
    BY <1>1, OneEntry
  <2> HIDE DEF a
  <2>2. ast' = a
    BY <1>1 DEF a
  <2>3. QED  BY <2>1, <2>2
<1>3. CacheTypes'
  BY <1>1, <1>2 DEF CacheInv, CacheTypes
<1>4. ASSUME NEW q \in Uses, Closer(q) PROVE Closer(q)'
  BY <1>1, <1>2, <1>4 DEF Closer
<1>5. ASSUME NEW v \in Users PROVE Closer(use[v])'
  <2>1. PICK q \in Uses : q = use[v] /\ Closer(q)
    BY DEF CacheInv, CacheTypes
  <2>2. Closer(q)'
    BY <1>4, <2>1
  <2>3. use'[v] = q
    BY <1>1, <2>1
  <2>4. QED  BY <2>2, <2>3 DEF Closer
<1>6. Closer(pruner)'
  <2>1. PICK q \in Uses : q = pruner /\ Closer(q)
    BY DEF CacheInv, CacheTypes
  <2>2. Closer(q)'
    BY <1>4, <2>1
  <2>3. pruner' = q
    BY <1>1, <2>1
  <2>4. QED  BY <2>2, <2>3 DEF Closer
<1>7. \A m \in 1 .. Len(ast') : (\E s \in Sources : cache'[s] = m) \/ ~ast'[m].old => ast'[m].open
  BY <1>1, <1>2 DEF CacheInv
<1>8. QED  BY <1>1, <1>3, <1>5, <1>6, <1>7 DEF CacheInv

\* A step of the pruner, by what it leaves of the rest.
LEMMA PrunerMoved ==
  ASSUME CacheInv, NEW r \in Uses, pruner' = r, r.n <= Len(ast), Closer(r)',
         ast' \in Seq(Asts), Len(ast') = Len(ast), cache' \in [Sources -> 0 .. Len(ast)],
         \A s, y \in Sources : cache'[s] = cache'[y] /\ cache'[s] # 0 => s = y,
         \A n \in 1 .. Len(ast) :
           (\E s \in Sources : cache'[s] = n) \/ ~ast'[n].old => ast'[n].open,
         \A q \in Uses : Closer(q) => Closer(q)',
         UNCHANGED <<use, crashed>>
  PROVE  CacheInv'
<1>1. CacheTypes'
  BY DEF CacheInv, CacheTypes
<1>2. ASSUME NEW v \in Users PROVE Closer(use[v])'
  <2>1. PICK q \in Uses : q = use[v] /\ Closer(q)
    BY DEF CacheInv, CacheTypes
  <2>2. Closer(q)'
    BY <2>1
  <2>3. use'[v] = q
    BY <2>1
  <2>4. QED  BY <2>2, <2>3 DEF Closer
<1>3. Closer(pruner)'
  BY DEF Closer
<1>4. QED  BY <1>1, <1>2, <1>3 DEF CacheInv

\* The pruner finds an entry as a goroutine that looks does,
LEMMA PruneFindStep ==
  ASSUME CacheInv, NEW z \in Sources, PruneFind(z)
  PROVE  CacheInv'
<1>1. cache[z] \in 1 .. Len(ast) /\ ast[cache[z]].old /\ pruner \in Uses
      /\ UNCHANGED <<cache, ast, use, crashed>> /\ cache[z] \in Nat
  BY LenProperties DEF CacheInv, CacheTypes, PruneFind
<1>2. PICK n \in 1 .. Len(ast) : n = cache[z]
  BY <1>1
<1>3. PICK r \in Uses : r.at = "evict" /\ r.src = z /\ r.n = n /\ pruner' = r
  <2>1. pruner' = [pruner EXCEPT !.at = "evict", !.src = z, !.n = n] /\ n \in Nat
    BY <1>1, <1>2 DEF PruneFind
  <2>2. PICK r : r = [pruner EXCEPT !.at = "evict", !.src = z, !.n = n]
    OBVIOUS
  <2>3. r \in Uses /\ r.at = "evict" /\ r.src = z /\ r.n = n
    BY <1>1, <2>1, <2>2 DEF Uses, Places
  <2>4. QED  BY <2>1, <2>2, <2>3
<1>4. Closer(r)
  BY <1>1, <1>2, <1>3 DEF Closer, CacheInv
<1>5. Closer(r)' /\ \A q \in Uses : Closer(q) => Closer(q)'
  BY <1>1, <1>4 DEF Closer
<1>6. /\ r.n <= Len(ast)
      /\ ast' \in Seq(Asts) /\ Len(ast') = Len(ast) /\ cache' \in [Sources -> 0 .. Len(ast)]
      /\ \A s, y \in Sources : cache'[s] = cache'[y] /\ cache'[s] # 0 => s = y
      /\ \A m \in 1 .. Len(ast) : (\E s \in Sources : cache'[s] = m) \/ ~ast'[m].old => ast'[m].open
  BY <1>1, <1>2, <1>3 DEF CacheInv, CacheTypes
<1>7. QED  BY <1>1, <1>3, <1>5, <1>6, PrunerMoved

\* deletes its key,
LEMMA PruneDeleteStep ==
  ASSUME CacheInv, PruneDelete
  PROVE  CacheInv'
<1>1. PICK o \in Uses : o = pruner /\ Closer(o) /\ o.n <= Len(ast)
  BY DEF CacheInv, CacheTypes
<1>2. PICK z \in Sources : z = o.src
  BY DEF Uses
<1>3. o.at = "evict" /\ cache' = [cache EXCEPT ![z] = 0] /\ UNCHANGED <<ast, use, crashed>>
  BY <1>1, <1>2 DEF PruneDelete
<1>4. PICK r \in Uses : r.at = "close" /\ r.n = o.n /\ pruner' = r
  <2>1. pruner' = [o EXCEPT !.at = "close"]
    BY <1>1 DEF PruneDelete
  <2>2. PICK r : r = [o EXCEPT !.at = "close"]
    OBVIOUS
  <2>3. r \in Uses /\ r.at = "close" /\ r.n = o.n
    BY <2>2 DEF Uses, Places
  <2>4. QED  BY <2>1, <2>2, <2>3
<1>5. /\ cache' \in [Sources -> 0 .. Len(ast)] /\ cache'[z] = 0
      /\ \A s \in Sources : cache'[s] \in {0, cache[s]}
      /\ \A s, y \in Sources : cache'[s] = cache'[y] /\ cache'[s] # 0 => s = y
      /\ \A n \in 1 .. Len(ast) : (\E s \in Sources : cache'[s] = n) \/ ~ast[n].old => ast[n].open
      /\ \A q \in Uses : Closer(q) => Closer(q)'
  BY <1>3, Deleted
<1>6. Closer(r)'
  <2>1. r.n \in 1 .. Len(ast) /\ ast[r.n].old /\ \A s \in Sources : cache[s] = r.n => s = z
    BY <1>1, <1>2, <1>3, <1>4 DEF Closer
  <2>2. \A s \in Sources : cache'[s] # r.n
    BY <1>5, <2>1
  <2>3. QED  BY <1>3, <1>4, <2>1, <2>2 DEF Closer
<1>7. r.n <= Len(ast) /\ ast' \in Seq(Asts) /\ Len(ast') = Len(ast)
      /\ \A n \in 1 .. Len(ast) : (\E s \in Sources : cache'[s] = n) \/ ~ast'[n].old => ast'[n].open
  BY <1>1, <1>3, <1>4, <1>5 DEF CacheInv, CacheTypes
<1>8. QED  BY <1>3, <1>4, <1>5, <1>6, <1>7, PrunerMoved

\* and closes it.
LEMMA PruneCloseStep ==
  ASSUME FileQueryAssumptions, CacheInv, PruneClose
  PROVE  CacheInv'
<1>1. PICK o \in Uses : o = pruner /\ Closer(o) /\ o.at = "close"
  BY DEF CacheInv, CacheTypes, PruneClose
<1>2. ast' = [ast EXCEPT ![o.n].open = FALSE] /\ UNCHANGED <<cache, use, crashed>>
  BY <1>1 DEF PruneClose
<1>3. PICK r \in Uses : r.at = "idle" /\ r.n = 0 /\ pruner' = r
  BY UnusedType DEF PruneClose
<1>4. /\ ast' \in Seq(Asts) /\ Len(ast') = Len(ast)
      /\ \A n \in 1 .. Len(ast) :
           (\E s \in Sources : cache[s] = n) \/ ~ast'[n].old => ast'[n].open
      /\ \A q \in Uses : Closer(q) => Closer(q)'
  BY <1>1, <1>2, Closed
<1>5. Closer(r)'
  BY <1>3 DEF Closer
<1>6. /\ r.n <= Len(ast) /\ cache' \in [Sources -> 0 .. Len(ast)]
      /\ \A s, y \in Sources : cache'[s] = cache'[y] /\ cache'[s] # 0 => s = y
      /\ \A n \in 1 .. Len(ast) : (\E s \in Sources : cache'[s] = n) \/ ~ast'[n].old => ast'[n].open
  BY <1>2, <1>3, <1>4, LenProperties DEF CacheInv, CacheTypes
<1>7. QED  BY <1>2, <1>3, <1>4, <1>5, <1>6, PrunerMoved

-----------------------------------------------------------------------------
(* No tree in use is closed *)

\* The cache is empty at first.
LEMMA CacheStart ==
  ASSUME FileQueryAssumptions, CacheInit
  PROVE  CacheInv
<1>1. ast = <<>> /\ Len(ast) = 0 /\ ast \in Seq(Asts)
  BY EmptySeq DEF CacheInit
<1>2. cache \in [Sources -> 0 .. Len(ast)] /\ \A s \in Sources : cache[s] = 0
  BY <1>1 DEF CacheInit
<1>3. PICK r \in Uses : r.at = "idle" /\ r.n = 0 /\ r = Unused
  BY UnusedType
<1>4. use \in [Users -> Uses] /\ pruner = r /\ \A u \in Users : use[u] = r
  BY <1>3 DEF CacheInit
<1>5. CacheTypes
  <2>1. crashed \in BOOLEAN
    BY DEF CacheInit
  <2>2. r.n <= Len(ast)
    BY <1>1, <1>3
  <2>3. (\A u \in Users : use[u].n <= Len(ast)) /\ pruner \in Uses /\ pruner.n <= Len(ast)
    BY <1>4, <2>2
  <2>4. QED  BY <1>1, <1>2, <1>4, <2>1, <2>3 DEF CacheTypes
<1>6. Closer(r)
  BY <1>3 DEF Closer
<1>7. \A u \in Users : Closer(use[u])
  BY <1>4, <1>6
<1>8. QED  BY <1>1, <1>2, <1>4, <1>5, <1>6, <1>7 DEF CacheInv

\* A step that leaves the cache alone.
LEMMA CacheStutter ==
  ASSUME CacheInv, UNCHANGED cacheVars
  PROVE  CacheInv'
BY DEF CacheInv, CacheTypes, Closer, cacheVars

\* A querier begins to parse its file, or is done with it.
LEMMA TakeCache ==
  ASSUME FileQueryAssumptions, CacheInv, NEW q \in Queriers, TakeResult(q)
  PROVE  CacheInv'
<1>1. UNCHANGED <<cache, ast, pruner, crashed>>
  BY DEF TakeResult
<1>2. CASE UNCHANGED use
  BY <1>1, <1>2, CacheStutter DEF cacheVars
<1>3. ASSUME NEW f \in Files,
             use' = [use EXCEPT ![q].at = "look", ![q].src = Text[f], ![q].lang = Language[f]]
      PROVE  CacheInv'
  <2>1. q \in Users /\ Text[f] \in Sources /\ Language[f] \in Languages
    BY DEF FileQueryAssumptions
  <2>2. use[q] \in Uses /\ use[q].n <= Len(ast) /\ use \in [Users -> Uses]
    BY <2>1 DEF CacheInv, CacheTypes
  <2>3. PICK r : r = [use[q] EXCEPT !.at = "look", !.src = Text[f], !.lang = Language[f]]
    OBVIOUS
  <2>4. r \in Uses /\ r.at = "look" /\ r.n = use[q].n
    BY <2>1, <2>2, <2>3 DEF Uses, Places
  <2>5. use' = [use EXCEPT ![q] = r]
    BY <1>3, <2>1, <2>2, <2>3
  <2>6. QED  BY <1>1, <2>1, <2>2, <2>4, <2>5, PlaceMoved
<1>4. QED  BY <1>2, <1>3 DEF TakeResult

\* A querier that has sent its matches uses no tree.
LEMMA SendCache ==
  ASSUME FileQueryAssumptions, CacheInv, NEW q \in Queriers, SendMatches(q)
  PROVE  CacheInv'
<1>1. PICK r \in Uses : r.at = "idle" /\ r.n = 0 /\ r = Unused
  BY UnusedType
<1>2. use' = [use EXCEPT ![q] = r] /\ UNCHANGED <<cache, ast, pruner, crashed>>
  BY <1>1 DEF SendMatches
<1>3. q \in Users /\ r.n <= Len(ast)
  BY <1>1, LenProperties DEF FileQueryAssumptions, CacheInv, CacheTypes
<1>4. QED  BY <1>1, <1>2, <1>3, PlaceMoved

\* A step of GetOrParse.
LEMMA ParseCache ==
  ASSUME FileQueryAssumptions, CacheInv, NEW q \in Queriers, Parse(q)
  PROVE  CacheInv'
<1>1. q \in Users /\ GetOrParse(q)
  BY DEF FileQueryAssumptions, Parse
<1>2. QED  BY <1>1, LookStep, CopyStep, EvictStep, CloseOldStep, StoreStep, ParseFailsStep
           DEF GetOrParse

\* A step of the pruner, or of the clock.
LEMMA AgeingCache ==
  ASSUME FileQueryAssumptions, CacheInv, Ageing
  PROVE  CacheInv'
BY ExpireStep, PruneFindStep, PruneDeleteStep, PruneCloseStep DEF Ageing, Pruning

\* One step of anybody.
LEMMA CacheStep ==
  ASSUME FileQueryAssumptions, CacheInv, [FileQueryNext]_fqVars
  PROVE  CacheInv'
<1>1. CASE RefuseQuery \/ StartQuery \/ CloseMatches \/ Return \/ Stop \/ Collect
  BY <1>1, CacheStutter DEF RefuseQuery, StartQuery, CloseMatches, Return, Stop, Collect
<1>2. CASE Scanner
  BY <1>2, CacheStutter DEF Scanner, LeaveDir, SkipEntry, EnterDir, SendPath, WalkFrame
<1>3. CASE Ageing
  BY <1>3, AgeingCache
<1>4. CASE \E w \in Walkers : Walker(w)
  BY <1>4, CacheStutter DEF Walker, TakePath, SendResult, WalkerEnds, PipeFrame
<1>5. ASSUME NEW q \in Queriers, Querier(q)
      PROVE  CacheInv'
  <2>1. CASE QuerierEnds(q)
    BY <2>1, CacheStutter DEF QuerierEnds
  <2>2. QED  BY <1>5, <2>1, TakeCache, ParseCache, SendCache DEF Querier
<1>6. CASE UNCHANGED fqVars
  BY <1>6, CacheStutter DEF fqVars
<1>7. QED  BY <1>1, <1>2, <1>3, <1>4, <1>5, <1>6 DEF FileQueryNext

\* However many goroutines parse, of however many sources and languages, and
\* whenever entries expire and are pruned: an entry of the map, and one whose
\* time is not over, is not closed (GetOrParse, pruneExpired).
THEOREM TreesOpenHolds == FileQuerySpec => []TreesOpen
<1>1. FileQueryInit => CacheInv
  BY CacheStart, FileQueryAssumptions DEF FileQueryInit
<1>2. CacheInv /\ [FileQueryNext]_fqVars => CacheInv'
  BY CacheStep, FileQueryAssumptions
<1>3. CacheInv => TreesOpen
  <2>1. CacheInv => DOMAIN ast = 1 .. Len(ast)
    BY LenProperties DEF CacheInv, CacheTypes
  <2>2. QED  BY <2>1 DEF CacheInv, TreesOpen
<1>4. QED  BY <1>1, <1>2, <1>3, PTL DEF FileQuerySpec

-----------------------------------------------------------------------------
(* The walk *)

Frames == [dir: Dirs, climb: Nat, at: Nat \ {0}, depth: Nat]
Sent   == [name: Names, climb: Nat, depth: Nat]

WalkTypes ==
  /\ stack \in Seq(Frames) /\ visited \subseteq Keys /\ found \in Seq(Sent)
  /\ scope \in Scopes
  /\ main = "start" => stack = <<>> /\ found = <<>>

\* The directory of a call under the key it was reached by.
Where(fr) == [dir |-> fr.dir, climb |-> fr.climb]

\* How high a path can climb.
Heights == IF scope.absolute THEN {0} ELSE {0} \union {Climb[l] : l \in Links}

HeightInv ==
  /\ \A i \in DOMAIN stack : stack[i].climb \in Heights
  /\ \A i \in DOMAIN found : found[i].climb \in Heights

\* The scanner has been where e is, on a path as high as e was sent from, and
\* is past it.
Behind(e) ==
  \E d \in visited : \E k \in DOMAIN Listing[d.dir] :
    /\ Listing[d.dir][k] = e.name /\ d.climb = e.climb
    /\ \A j \in DOMAIN stack : Where(stack[j]) = d => k < stack[j].at

\* With links followed, a directory is entered once under each of its keys.
OnceInv ==
  scope.follow =>
    /\ \A i, j \in DOMAIN found :
         found[i].name = found[j].name /\ found[i].climb = found[j].climb => i = j
    /\ \A i \in DOMAIN found : Behind(found[i])
    /\ \A i \in DOMAIN stack : Where(stack[i]) \in visited
    /\ \A i, j \in DOMAIN stack : Where(stack[i]) = Where(stack[j]) => i = j

WalkInv ==
  /\ WalkTypes
  /\ LimitsKept
  /\ scope.depth > 0 => \A i \in DOMAIN stack : stack[i].depth <= scope.depth
  /\ OnceInv

\* The stack without its innermost call, and with another in its place.
LEMMA StackShapes ==
  ASSUME NEW F, NEW s \in Seq(F), s # <<>>, NEW t \in F
  PROVE  /\ Tail(s) \in Seq(F) /\ Len(Tail(s)) = Len(s) - 1 /\ Len(s) \in Nat \ {0}
         /\ \A i \in 1 .. Len(s) - 1 : Tail(s)[i] = s[i + 1]
         /\ <<t>> \o Tail(s) \in Seq(F) /\ Len(<<t>> \o Tail(s)) = Len(s)
         /\ (<<t>> \o Tail(s))[1] = t
         /\ \A i \in 2 .. Len(s) : (<<t>> \o Tail(s))[i] = s[i]
<1>1. Tail(s) \in Seq(F) /\ Len(Tail(s)) = Len(s) - 1 /\ Len(s) \in Nat \ {0}
      /\ \A i \in 1 .. Len(s) - 1 : Tail(s)[i] = s[i + 1]
  BY HeadTailProperties, EmptySeq, LenProperties
<1>2. <<t>> \in Seq(F) /\ Len(<<t>>) = 1 /\ <<t>>[1] = t
  OBVIOUS
<1>3. PICK a, b : a = <<t>> /\ b = Tail(s)
  OBVIOUS
<1>4. a \o b \in Seq(F) /\ Len(a \o b) = Len(s) /\ (a \o b)[1] = t
      /\ \A i \in 2 .. Len(s) : (a \o b)[i] = b[i - 1]
  BY <1>1, <1>2, <1>3, ConcatProperties
<1>5. \A i \in 2 .. Len(s) : b[i - 1] = s[i]
  BY <1>1, <1>3
<1>6. QED  BY <1>1, <1>3, <1>4, <1>5

\* The stack with a new innermost call.
LEMMA Pushed ==
  ASSUME NEW F, NEW s \in Seq(F), NEW t \in F
  PROVE  /\ <<t>> \o s \in Seq(F) /\ Len(<<t>> \o s) = Len(s) + 1 /\ (<<t>> \o s)[1] = t
         /\ \A i \in 2 .. Len(s) + 1 : (<<t>> \o s)[i] = s[i - 1]
<1>1. <<t>> \in Seq(F) /\ Len(<<t>>) = 1 /\ <<t>>[1] = t
  OBVIOUS
<1>2. PICK a : a = <<t>>
  OBVIOUS
<1>3. QED  BY <1>1, <1>2, ConcatProperties, LenProperties

\* The innermost call goes on to its next entry.
LEMMA NextFrame ==
  ASSUME WalkTypes, stack # <<>>
  PROVE  /\ Len(stack) \in Nat \ {0} /\ DOMAIN stack = 1 .. Len(stack) /\ Top \in Frames
         /\ Next1 \in Seq(Frames) /\ Len(Next1) = Len(stack) /\ DOMAIN Next1 = 1 .. Len(stack)
         /\ Next1[1].at = Top.at + 1
         /\ \A i \in 1 .. Len(stack) : /\ Next1[i].dir = stack[i].dir
                                       /\ Where(Next1[i]) = Where(stack[i])
                                       /\ Next1[i].climb = stack[i].climb
                                       /\ Next1[i].depth = stack[i].depth
                                       /\ Next1[i].at >= stack[i].at
         /\ \A i \in 2 .. Len(stack) : Next1[i] = stack[i]
<1>1. stack \in Seq(Frames) /\ Len(stack) \in Nat \ {0} /\ DOMAIN stack = 1 .. Len(stack)
  BY EmptySeq, LenProperties DEF WalkTypes
<1>2. Top \in Frames /\ \A i \in 1 .. Len(stack) : stack[i] \in Frames
  BY <1>1, ElementOfSeq DEF Top
<1>3. PICK t \in Frames : t = [Top EXCEPT !.at = @ + 1]
  <2>1. PICK f \in Frames : f = Top
    BY <1>2
  <2>2. f.at + 1 \in Nat \ {0}
    BY DEF Frames
  <2>3. [f EXCEPT !.at = f.at + 1] \in Frames
    BY <2>2 DEF Frames
  <2>4. QED  BY <2>1, <2>3
<1>4. t.at = Top.at + 1 /\ t.dir = Top.dir /\ t.climb = Top.climb /\ t.depth = Top.depth
  BY <1>2, <1>3 DEF Frames
<1>5. Next1 = <<t>> \o Tail(stack)
  BY <1>3 DEF Next1
<1>6. Next1 \in Seq(Frames) /\ Len(Next1) = Len(stack) /\ Next1[1] = t
      /\ \A i \in 2 .. Len(stack) : Next1[i] = stack[i]
  BY <1>1, <1>5, StackShapes
<1>7. DOMAIN Next1 = 1 .. Len(stack)
  BY <1>6, LenProperties
<1>8. ASSUME NEW i \in 1 .. Len(stack)
      PROVE  /\ Next1[i].dir = stack[i].dir /\ Next1[i].depth = stack[i].depth
             /\ Where(Next1[i]) = Where(stack[i]) /\ Next1[i].climb = stack[i].climb
             /\ Next1[i].at >= stack[i].at
  <2>1. CASE i = 1
    BY <1>2, <1>4, <1>6, <2>1 DEF Top, Frames, Where
  <2>2. CASE i # 1
    <3>1. i \in 2 .. Len(stack) /\ stack[i].at \in Nat
      BY <1>1, <1>2, <2>2 DEF Frames
    <3>2. QED  BY <1>6, <3>1
  <2>3. QED  BY <2>1, <2>2
<1>9. QED  BY <1>1, <1>2, <1>4, <1>6, <1>7, <1>8

\* What an entry leads to.
LEMMA EntryTypes ==
  ASSUME FileQueryAssumptions, WalkTypes, More
  PROVE  /\ Top.at \in DOMAIN Listing[Top.dir] /\ Entry \in Names
         /\ IsDir(Entry) => DirOf(Entry) \in Dirs /\ KeyOf(Entry) \in Keys
<1>1. Top \in Frames
  BY NextFrame DEF More
<1>2. Top.dir \in Dirs /\ Top.at \in Nat \ {0} /\ Listing[Top.dir] \in Seq(Names)
  BY <1>1 DEF Frames, FileQueryAssumptions
<1>3. Top.at \in DOMAIN Listing[Top.dir] /\ Entry \in Names
  BY <1>2, LenProperties, ElementOfSeq DEF More, Entry
<1>4. IsDir(Entry) => DirOf(Entry) \in Dirs
  BY DEF IsDir, DirOf, FileQueryAssumptions
<1>5. IsDir(Entry) => KeyOf(Entry) \in Keys
  <2>1. Top.climb \in Nat
    BY <1>1 DEF Frames
  <2>2. Entry \in Links => Climb[Entry] \in Nat
    BY DEF FileQueryAssumptions
  <2>3. QED  BY <1>4, <2>1, <2>2 DEF KeyOf, Keys
<1>6. QED  BY <1>3, <1>4, <1>5

Leaves == stack' \in {Tail(stack), <<>>} /\ UNCHANGED <<visited, found>>

\* The innermost call goes on, and may mark a directory it cannot enter.
Passes ==
  /\ stack' = Next1 /\ UNCHANGED found
  /\ \E d \in Keys : visited' \in {visited, visited \union {d}}

Enters(d) ==
  /\ scope.follow => d \notin visited
  /\ visited' = IF scope.follow THEN visited \union {d} ELSE visited
  /\ scope.depth > 0 => Top.depth + 1 <= scope.depth
  /\ stack' = <<Frame(d, Top.depth + 1)>> \o Next1
  /\ UNCHANGED found

Sends ==
  /\ Entry \notin scope.exclude /\ ~Full
  /\ found' = Append(found, [name |-> Entry, climb |-> Top.climb, depth |-> Top.depth])
  /\ stack' \in {Next1, <<>>} /\ UNCHANGED visited

\* What the scanner does to the walk, whatever it met.
LEMMA ScannerCases ==
  ASSUME FileQueryAssumptions, WalkTypes, Scanner
  PROVE  /\ stack # <<>> /\ UNCHANGED <<scope, main>>
         /\ \/ Leaves \/ Passes
            \/ More /\ (Sends \/ \E d \in Keys : Enters(d) /\ d = KeyOf(Entry))
<1>1. scope.depth \in Nat /\ RootKey \in Keys
  BY DEF WalkTypes, FileQueryAssumptions, RootKey, Keys
<1>2. CASE LeaveDir
  BY <1>2 DEF LeaveDir, Leaves, Scans, More, WalkFrame, mainVars
<1>3. CASE SkipEntry
  BY <1>1, <1>3 DEF SkipEntry, Passes, Scans, More, WalkFrame, mainVars
<1>4. CASE EnterDir
  <2>1. More /\ stack # <<>> /\ UNCHANGED <<scope, main, found>> /\ KeyOf(Entry) \in Keys
    BY <1>4, EntryTypes DEF EnterDir, Scans, More, WalkFrame, mainVars
  <2>2. PICK d \in Keys : d = KeyOf(Entry)
    BY <2>1
  <2>3. /\ scope.follow => d \notin visited
        /\ visited' = IF scope.follow THEN visited \union {d} ELSE visited
    BY <1>4, <2>2 DEF EnterDir
  <2>4. CASE stack' = Next1
    BY <2>1, <2>3, <2>4 DEF Passes
  <2>5. CASE stack' # Next1
    <3>1. ~(scope.depth > 0 /\ Top.depth + 1 > scope.depth)
          /\ stack' = <<Frame(d, Top.depth + 1)>> \o Next1
      BY <1>4, <2>2, <2>5 DEF EnterDir
    <3>2. Top.depth \in Nat
      BY <2>1, NextFrame DEF Frames
    <3>3. Enters(d)
      BY <1>1, <2>1, <2>3, <3>1, <3>2 DEF Enters
    <3>4. QED  BY <2>1, <2>2, <3>3
  <2>6. QED  BY <2>4, <2>5
<1>5. CASE SendPath
  BY <1>5 DEF SendPath, Sends, More, mainVars
<1>6. QED  BY <1>2, <1>3, <1>4, <1>5 DEF Scanner

\* Who is past an entry stays so, as long as the scanner goes forward where it
\* has been.
LEMMA PassedStays ==
  ASSUME NEW e, Behind(e), visited \subseteq visited',
         \A j \in DOMAIN stack' :
           \/ Where(stack'[j]) \notin visited
           \/ \E i \in DOMAIN stack : /\ Where(stack[i]) = Where(stack'[j])
                                      /\ stack[i].at \in Nat /\ stack'[j].at \in Nat
                                      /\ stack[i].at <= stack'[j].at,
         FileQueryAssumptions, visited \subseteq Keys
  PROVE  Behind(e)'
<1>1. PICK d \in visited : \E k \in DOMAIN Listing[d.dir] :
        Listing[d.dir][k] = e.name /\ d.climb = e.climb /\ \A j \in DOMAIN stack : Where(stack[j]) = d => k < stack[j].at
  BY DEF Behind
<1>2. PICK k \in DOMAIN Listing[d.dir] :
        Listing[d.dir][k] = e.name /\ d.climb = e.climb /\ \A j \in DOMAIN stack : Where(stack[j]) = d => k < stack[j].at
  BY <1>1
<1>3. k \in Nat
  <2>1. d.dir \in Dirs /\ Listing[d.dir] \in Seq(Names)
    BY DEF FileQueryAssumptions, Keys
  <2>2. QED  BY <2>1, LenProperties
<1>4. ASSUME NEW j \in DOMAIN stack', Where(stack'[j]) = d
      PROVE  k < stack'[j].at
  <2>1. PICK i \in DOMAIN stack : Where(stack[i]) = d /\ stack[i].at \in Nat /\ stack'[j].at \in Nat
                                  /\ stack[i].at <= stack'[j].at
    BY <1>4
  <2>2. k < stack[i].at
    BY <1>2, <2>1
  <2>3. QED  BY <1>3, <2>1, <2>2
<1>5. QED  BY <1>2, <1>4 DEF Behind

\* The innermost call returns.
LEMMA LeavesStep ==
  ASSUME FileQueryAssumptions, WalkInv, stack # <<>>, Leaves, UNCHANGED <<scope, main>>
  PROVE  WalkInv'
<1>1. stack \in Seq(Frames) /\ Len(stack) \in Nat \ {0} /\ DOMAIN stack = 1 .. Len(stack)
      /\ Top \in Frames
  BY NextFrame DEF WalkInv, WalkTypes
<1>2. ASSUME stack' = Tail(stack)
      PROVE  /\ stack' \in Seq(Frames)
             /\ \A j \in DOMAIN stack' : j \in Nat /\ j + 1 \in DOMAIN stack /\ stack'[j] = stack[j + 1]
  <2>1. /\ stack' \in Seq(Frames) /\ Len(stack') = Len(stack) - 1
        /\ \A i \in 1 .. Len(stack) - 1 : stack'[i] = stack[i + 1]
    BY <1>1, <1>2, StackShapes
  <2>2. DOMAIN stack' = 1 .. Len(stack) - 1
    BY <2>1, LenProperties
  <2>3. \A j \in DOMAIN stack' : j \in Nat /\ j + 1 \in DOMAIN stack /\ stack'[j] = stack[j + 1]
    BY <1>1, <2>1, <2>2
  <2>4. QED  BY <2>1, <2>3
<1>3. ASSUME stack' = <<>> PROVE stack' \in Seq(Frames) /\ DOMAIN stack' = {}
  BY <1>3
<1>4. /\ stack' \in Seq(Frames)
      /\ \A j \in DOMAIN stack' : j \in Nat /\ j + 1 \in DOMAIN stack /\ stack'[j] = stack[j + 1]
  BY <1>2, <1>3 DEF Leaves
<1>5. UNCHANGED <<visited, found, scope, main>>
  BY DEF Leaves
<1>6. WalkTypes'
  BY <1>4, <1>5 DEF WalkInv, WalkTypes
<1>7. LimitsKept'
  BY <1>5 DEF WalkInv, LimitsKept
<1>8. scope.depth > 0 => \A i \in DOMAIN stack' : stack'[i].depth <= scope.depth
  BY <1>4 DEF WalkInv
<1>9. OnceInv'
  <2>1. SUFFICES ASSUME scope.follow
                 PROVE  /\ \A i \in DOMAIN found : Behind(found[i])'
                        /\ \A i \in DOMAIN stack' : Where(stack'[i]) \in visited
                        /\ \A i, j \in DOMAIN stack' : Where(stack'[i]) = Where(stack'[j]) => i = j
    BY <1>5 DEF WalkInv, OnceInv, Behind
  <2>2. \A i, j \in DOMAIN stack' : Where(stack'[i]) = Where(stack'[j]) => i = j
    <3>1. ASSUME NEW i \in DOMAIN stack', NEW j \in DOMAIN stack', Where(stack'[i]) = Where(stack'[j])
          PROVE  i = j
      <4>1. i + 1 = j + 1
        BY <1>4, <2>1, <3>1 DEF WalkInv, OnceInv
      <4>2. QED  BY <1>4, <4>1
    <3>2. QED  BY <3>1
  <2>3. \A i \in DOMAIN stack' : Where(stack'[i]) \in visited
    BY <1>4, <2>1 DEF WalkInv, OnceInv
  <2>4. \A j \in DOMAIN stack' : stack'[j].at \in Nat /\ stack'[j].at <= stack'[j].at
    <3>1. ASSUME NEW j \in DOMAIN stack' PROVE stack'[j].at \in Nat
      <4>1. stack'[j] \in Frames
        BY <1>4, ElementOfSeq, LenProperties
      <4>2. QED  BY <4>1 DEF Frames
    <3>2. QED  BY <3>1
  <2>5. ASSUME NEW i \in DOMAIN found PROVE Behind(found[i])'
    <3>1. PICK e : e = found[i]
      OBVIOUS
    <3>2. Behind(e)
      BY <2>1, <3>1 DEF WalkInv, OnceInv
    <3>3. \A j \in DOMAIN stack' :
            \E m \in DOMAIN stack : /\ Where(stack[m]) = Where(stack'[j])
                                    /\ stack[m].at \in Nat /\ stack'[j].at \in Nat
                                    /\ stack[m].at <= stack'[j].at
      BY <1>4, <2>4
    <3>4. Behind(e)'
      BY <1>5, <3>2, <3>3, PassedStays DEF WalkInv, WalkTypes
    <3>5. QED  BY <1>5, <3>1, <3>4 DEF Behind
  <2>6. QED  BY <2>2, <2>3, <2>5
<1>10. QED  BY <1>5, <1>6, <1>7, <1>8, <1>9 DEF WalkInv

\* What the step to the next entry keeps.
LEMMA NextMoves ==
  ASSUME FileQueryAssumptions, WalkInv, stack # <<>>, stack' = Next1, visited \subseteq visited'
  PROVE  /\ stack' \in Seq(Frames) /\ DOMAIN stack' = DOMAIN stack
         /\ scope.depth > 0 => \A i \in DOMAIN stack' : stack'[i].depth <= scope.depth
         /\ scope.follow =>
              /\ \A i \in DOMAIN stack' : Where(stack'[i]) \in visited'
              /\ \A i, j \in DOMAIN stack' : Where(stack'[i]) = Where(stack'[j]) => i = j
         /\ \A e \in Sent : Behind(e) => Behind(e)'
         /\ stack'[1].at = Top.at + 1
         /\ \A i \in DOMAIN stack : Where(stack'[i]) = Where(stack[i])
<1>1. /\ Len(stack) \in Nat \ {0} /\ DOMAIN stack = 1 .. Len(stack)
      /\ stack' \in Seq(Frames) /\ Len(stack') = Len(stack) /\ DOMAIN stack' = 1 .. Len(stack)
      /\ stack'[1].at = Top.at + 1
      /\ \A i \in 1 .. Len(stack) : /\ Where(stack'[i]) = Where(stack[i])
                                    /\ stack'[i].depth = stack[i].depth
                                    /\ stack'[i].at >= stack[i].at
  BY NextFrame DEF WalkInv
<1>2. scope.depth > 0 => \A i \in DOMAIN stack' : stack'[i].depth <= scope.depth
  BY <1>1 DEF WalkInv
<1>3. scope.follow =>
        /\ \A i \in DOMAIN stack' : Where(stack'[i]) \in visited'
        /\ \A i, j \in DOMAIN stack' : Where(stack'[i]) = Where(stack'[j]) => i = j
  <2>1. SUFFICES ASSUME scope.follow
                 PROVE  /\ \A i \in 1 .. Len(stack) : Where(stack'[i]) \in visited'
                        /\ \A i, j \in 1 .. Len(stack) : Where(stack'[i]) = Where(stack'[j]) => i = j
    BY <1>1
  <2>2. /\ \A i \in 1 .. Len(stack) : Where(stack[i]) \in visited
        /\ \A i, j \in 1 .. Len(stack) : Where(stack[i]) = Where(stack[j]) => i = j
    BY <1>1, <2>1 DEF WalkInv, OnceInv
  <2>3. QED  BY <1>1, <2>2
<1>4. \A j \in DOMAIN stack' :
        \E i \in DOMAIN stack : /\ Where(stack[i]) = Where(stack'[j])
                                /\ stack[i].at \in Nat /\ stack'[j].at \in Nat
                                /\ stack[i].at <= stack'[j].at
  <2>1. ASSUME NEW j \in 1 .. Len(stack)
        PROVE  stack[j].at \in Nat /\ stack'[j].at \in Nat
    <3>1. stack[j] \in Frames /\ stack'[j] \in Frames
      BY <1>1, ElementOfSeq DEF WalkInv, WalkTypes
    <3>2. QED  BY <3>1 DEF Frames
  <2>2. \A j \in 1 .. Len(stack) : stack[j].at <= stack'[j].at
    BY <1>1, <2>1
  <2>3. QED  BY <1>1, <2>1, <2>2
<1>5. ASSUME NEW e \in Sent, Behind(e) PROVE Behind(e)'
  BY <1>4, <1>5, PassedStays DEF WalkInv, WalkTypes
<1>6. QED  BY <1>1, <1>2, <1>3, <1>5

\* The innermost call goes on without sending.
LEMMA PassesStep ==
  ASSUME FileQueryAssumptions, WalkInv, stack # <<>>, Passes, UNCHANGED <<scope, main>>
  PROVE  WalkInv'
<1>1. stack' = Next1 /\ UNCHANGED <<found, scope, main>> /\ visited \subseteq visited'
      /\ visited' \subseteq Keys
  BY DEF Passes, WalkInv, WalkTypes
<1>2. /\ stack' \in Seq(Frames)
      /\ scope.depth > 0 => \A i \in DOMAIN stack' : stack'[i].depth <= scope.depth
      /\ scope.follow =>
           /\ \A i \in DOMAIN stack' : Where(stack'[i]) \in visited'
           /\ \A i, j \in DOMAIN stack' : Where(stack'[i]) = Where(stack'[j]) => i = j
      /\ \A e \in Sent : Behind(e) => Behind(e)'
  BY <1>1, NextMoves
<1>3. WalkTypes'
  BY <1>1, <1>2 DEF WalkInv, WalkTypes
<1>4. LimitsKept'
  BY <1>1 DEF WalkInv, LimitsKept
<1>5. ASSUME scope.follow, NEW i \in DOMAIN found PROVE Behind(found[i])'
  <2>1. PICK e \in Sent : e = found[i]
    <3>1. found[i] \in Sent
      BY ElementOfSeq, LenProperties DEF WalkInv, WalkTypes
    <3>2. QED  BY <3>1
  <2>2. Behind(e)'
    BY <1>2, <1>5, <2>1 DEF WalkInv, OnceInv
  <2>3. QED  BY <1>1, <2>1, <2>2 DEF Behind
<1>6. OnceInv'
  BY <1>1, <1>2, <1>5 DEF WalkInv, OnceInv
<1>7. QED  BY <1>1, <1>2, <1>3, <1>4, <1>6 DEF WalkInv

\* An entry is sent: it was not passed before, so it is new.
LEMMA SendsStep ==
  ASSUME FileQueryAssumptions, WalkInv, More, Sends, UNCHANGED <<scope, main>>
  PROVE  WalkInv'
<1>1. stack # <<>> /\ stack' \in {Next1, <<>>} /\ UNCHANGED <<visited, scope, main>>
  BY DEF Sends, More
<1>2. /\ stack' \in Seq(Frames)
      /\ \A j \in DOMAIN stack' : /\ j \in DOMAIN stack /\ Where(stack'[j]) = Where(stack[j])
                                  /\ j = 1 => stack'[1].at = Top.at + 1
      /\ scope.depth > 0 => \A i \in DOMAIN stack' : stack'[i].depth <= scope.depth
      /\ scope.follow =>
           /\ \A i \in DOMAIN stack' : Where(stack'[i]) \in visited'
           /\ \A i, j \in DOMAIN stack' : Where(stack'[i]) = Where(stack'[j]) => i = j
      /\ \A e \in Sent : Behind(e) => Behind(e)'
  <2>1. CASE stack' = Next1
    BY <1>1, <2>1, NextMoves
  <2>2. CASE stack' = <<>>
    <3>1. stack' \in Seq(Frames) /\ DOMAIN stack' = {}
      BY <2>2
    <3>2. \A e \in Sent : Behind(e) => Behind(e)'
      BY <1>1, <3>1 DEF Behind
    <3>3. QED  BY <3>1, <3>2
  <2>3. QED  BY <1>1, <2>1, <2>2
<1>3. /\ Top \in Frames /\ 1 \in DOMAIN stack /\ Entry \in Names
      /\ Top.at \in DOMAIN Listing[Top.dir] /\ Top.depth \in Nat /\ Top.at \in Nat /\ Top.dir \in Dirs
      /\ Top.climb \in Nat
  BY <1>1, NextFrame, EntryTypes DEF WalkInv, Frames
<1>4. PICK x \in Sent : x = [name |-> Entry, climb |-> Top.climb, depth |-> Top.depth]
  BY <1>3 DEF Sent
<1>5. x.name = Entry /\ x.depth = Top.depth /\ x.climb = Top.climb
  BY <1>4
<1>6. /\ found \in Seq(Sent) /\ Len(found) \in Nat /\ DOMAIN found = 1 .. Len(found)
      /\ found' \in Seq(Sent) /\ Len(found') = Len(found) + 1 /\ DOMAIN found' = 1 .. Len(found) + 1
      /\ found'[Len(found) + 1] = x
      /\ \A i \in 1 .. Len(found) : found'[i] = found[i]
  <2>1. found \in Seq(Sent) /\ found' = Append(found, x)
    BY <1>4 DEF WalkInv, WalkTypes, Sends
  <2>2. QED  BY <2>1, AppendProperties, LenProperties
<1>7. main # "start"
  BY <1>1 DEF WalkInv, WalkTypes
<1>8. WalkTypes'
  BY <1>1, <1>2, <1>6, <1>7 DEF WalkInv, WalkTypes
<1>9. LimitsKept'
  <2>1. scope.files > 0 => Len(found') <= scope.files
    <3>1. scope.files \in Nat
      BY DEF WalkInv, WalkTypes, FileQueryAssumptions
    <3>2. ~Full
      BY DEF Sends
    <3>3. QED  BY <1>6, <3>1, <3>2 DEF Full
  <2>2. scope.depth > 0 => Top.depth <= scope.depth
    BY <1>3 DEF WalkInv, Top
  <2>3. Entry \notin scope.exclude
    BY DEF Sends
  <2>4. ASSUME NEW i \in DOMAIN found'
        PROVE  found'[i].name \notin scope.exclude
               /\ (scope.depth > 0 => found'[i].depth <= scope.depth)
    <3>1. CASE i = Len(found) + 1
      BY <1>5, <1>6, <2>2, <2>3, <3>1
    <3>2. CASE i # Len(found) + 1
      <4>1. i \in DOMAIN found /\ found'[i] = found[i]
        BY <1>6, <2>4, <3>2
      <4>2. QED  BY <4>1 DEF WalkInv, LimitsKept
    <3>3. QED  BY <3>1, <3>2
  <2>5. QED  BY <1>1, <2>1, <2>4 DEF LimitsKept
<1>10. ASSUME NEW i \in 1 .. Len(found) PROVE found[i] \in Sent
  BY <1>6, ElementOfSeq
<1>11. ASSUME scope.follow PROVE ~Behind(x)
  <2>1. SUFFICES ASSUME Behind(x) PROVE FALSE
    OBVIOUS
  <2>2. PICK d \in visited : \E k \in DOMAIN Listing[d.dir] :
          /\ Listing[d.dir][k] = x.name /\ d.climb = x.climb
          /\ \A j \in DOMAIN stack : Where(stack[j]) = d => k < stack[j].at
    BY <2>1 DEF Behind
  <2>3. PICK k \in DOMAIN Listing[d.dir] :
          /\ Listing[d.dir][k] = x.name /\ d.climb = x.climb
          /\ \A j \in DOMAIN stack : Where(stack[j]) = d => k < stack[j].at
    BY <2>2
  <2>4. d \in Keys /\ d.dir \in Dirs /\ Listing[Top.dir][Top.at] = Entry
    BY DEF WalkInv, WalkTypes, Entry, Keys
  <2>5. d.dir = Top.dir /\ k = Top.at
    BY <1>3, <1>5, <2>3, <2>4 DEF FileQueryAssumptions
  <2>6. d = Where(stack[1])
    BY <1>5, <2>3, <2>4, <2>5 DEF Keys, Where, Top
  <2>7. k < Top.at
    BY <1>3, <2>3, <2>6 DEF Top
  <2>8. QED  BY <1>3, <2>5, <2>7
<1>12. ASSUME scope.follow PROVE Behind(x)'
  <2>1. PICK d, k : d = Where(stack[1]) /\ k = Top.at
    OBVIOUS
  <2>2. d \in visited' /\ d.dir = Top.dir /\ d.climb = x.climb
    BY <1>1, <1>3, <1>5, <1>12, <2>1 DEF WalkInv, OnceInv, Where, Top
  <2>3. k \in DOMAIN Listing[d.dir] /\ Listing[d.dir][k] = x.name
    BY <1>3, <1>5, <2>1, <2>2 DEF Entry
  <2>4. ASSUME NEW j \in DOMAIN stack', Where(stack'[j]) = d PROVE k < stack'[j].at
    <3>1. j \in DOMAIN stack /\ Where(stack[j]) = Where(stack[1])
      BY <1>2, <2>1, <2>4
    <3>2. j = 1
      BY <1>3, <1>12, <3>1 DEF WalkInv, OnceInv
    <3>3. stack'[1].at = Top.at + 1
      BY <1>2, <2>4, <3>2
    <3>4. QED  BY <1>3, <2>1, <3>2, <3>3
  <2>5. QED  BY <2>2, <2>3, <2>4 DEF Behind
<1>13. OnceInv'
  <2>1. SUFFICES ASSUME scope.follow
                 PROVE  /\ \A i, j \in DOMAIN found' :
                             found'[i].name = found'[j].name /\ found'[i].climb = found'[j].climb => i = j
                        /\ \A i \in DOMAIN found' : Behind(found[i])'
    BY <1>1, <1>2 DEF OnceInv
  <2>2. \A i \in DOMAIN found : ~(found[i].name = x.name /\ found[i].climb = x.climb)
    <3>1. ASSUME NEW i \in DOMAIN found, found[i].name = x.name /\ found[i].climb = x.climb
          PROVE  FALSE
      <4>1. PICK e : e = found[i]
        OBVIOUS
      <4>2. Behind(e) /\ e.name = x.name /\ e.climb = x.climb
        BY <2>1, <3>1, <4>1 DEF WalkInv, OnceInv
      <4>3. Behind(x)
        BY <4>2 DEF Behind
      <4>4. QED  BY <1>11, <2>1, <4>3
    <3>2. QED  BY <3>1
  <2>3. \A i, j \in DOMAIN found' :
          found'[i].name = found'[j].name /\ found'[i].climb = found'[j].climb => i = j
    <3>1. ASSUME NEW i \in DOMAIN found', NEW j \in DOMAIN found',
                 found'[i].name = found'[j].name, found'[i].climb = found'[j].climb
          PROVE  i = j
      <4>1. CASE i \in DOMAIN found /\ j \in DOMAIN found
        <5>1. found[i].name = found[j].name /\ found[i].climb = found[j].climb
          BY <1>6, <3>1, <4>1
        <5>2. QED  BY <2>1, <4>1, <5>1 DEF WalkInv, OnceInv
      <4>2. CASE i = Len(found) + 1 \/ j = Len(found) + 1
        <5>1. \A m \in 1 .. Len(found) : ~(found'[m].name = x.name /\ found'[m].climb = x.climb)
          BY <1>6, <2>2
        <5>2. found'[Len(found) + 1].name = x.name /\ found'[Len(found) + 1].climb = x.climb
          BY <1>6
        <5>3. \A m \in DOMAIN found' : m = Len(found) + 1 \/ m \in 1 .. Len(found)
          BY <1>6
        <5>4. QED  BY <3>1, <4>2, <5>1, <5>2, <5>3
      <4>3. QED  BY <1>6, <4>1, <4>2
    <3>2. QED  BY <3>1
  <2>4. ASSUME NEW i \in DOMAIN found' PROVE Behind(found[i])'
    <3>1. CASE i = Len(found) + 1
      <4>1. Behind(x)' /\ found'[i] = x
        BY <1>6, <1>12, <2>1, <3>1
      <4>2. QED  BY <4>1 DEF Behind
    <3>2. CASE i \in 1 .. Len(found)
      <4>1. PICK e \in Sent : e = found[i]
        BY <1>10, <3>2
      <4>2. Behind(e)'
        BY <1>2, <1>6, <2>1, <3>2, <4>1 DEF WalkInv, OnceInv
      <4>3. found'[i] = e
        BY <1>6, <3>2, <4>1
      <4>4. QED  BY <4>2, <4>3 DEF Behind
    <3>3. QED  BY <1>6, <3>1, <3>2
  <2>5. QED  BY <2>3, <2>4
<1>14. QED  BY <1>1, <1>2, <1>8, <1>9, <1>13 DEF WalkInv

\* A directory is entered: it was not visited, so nothing was sent from it.
LEMMA EntersStep ==
  ASSUME FileQueryAssumptions, WalkInv, More, NEW d \in Keys, Enters(d), UNCHANGED <<scope, main>>
  PROVE  WalkInv'
<1>1. stack # <<>> /\ UNCHANGED <<found, scope, main>>
      /\ visited \subseteq visited' /\ visited' \subseteq Keys
      /\ (scope.follow => d \notin visited /\ visited' = visited \union {d})
  BY DEF More, Enters, WalkInv, WalkTypes
<1>2. /\ Len(stack) \in Nat \ {0} /\ DOMAIN stack = 1 .. Len(stack) /\ Top \in Frames
      /\ Next1 \in Seq(Frames) /\ Len(Next1) = Len(stack)
      /\ \A i \in 1 .. Len(stack) : /\ Where(Next1[i]) = Where(stack[i])
                                    /\ Next1[i].depth = stack[i].depth
                                    /\ Next1[i].at >= stack[i].at
  BY <1>1, NextFrame DEF WalkInv
<1>3. PICK t \in Frames : t = Frame(d, Top.depth + 1)
  <2>1. Top.depth + 1 \in Nat
    BY <1>2 DEF Frames
  <2>2. Frame(d, Top.depth + 1) \in Frames
    BY <2>1 DEF Frames, Frame, Keys
  <2>3. QED  BY <2>2
<1>4. Where(t) = d /\ t.depth = Top.depth + 1
  BY <1>3 DEF Frame, Where, Keys
<1>5. /\ stack' \in Seq(Frames) /\ DOMAIN stack' = 1 .. Len(stack) + 1 /\ stack'[1] = t
      /\ \A i \in 2 .. Len(stack) + 1 : stack'[i] = Next1[i - 1]
  <2>1. stack' = <<t>> \o Next1
    BY <1>3 DEF Enters
  <2>2. QED  BY <1>2, <2>1, Pushed, LenProperties
<1>6. \A i \in DOMAIN stack' : i # 1 =>
        /\ i - 1 \in DOMAIN stack
        /\ Where(stack'[i]) = Where(stack[i - 1]) /\ stack'[i].depth = stack[i - 1].depth
        /\ stack'[i].at >= stack[i - 1].at
  <2>1. ASSUME NEW i \in DOMAIN stack', i # 1
        PROVE  i \in 2 .. Len(stack) + 1 /\ i - 1 \in 1 .. Len(stack)
    BY <1>2, <1>5, <2>1
  <2>2. QED  BY <1>2, <1>5, <2>1
<1>7. WalkTypes'
  <2>1. main' # "start"
    BY <1>1 DEF WalkInv, WalkTypes
  <2>2. QED  BY <1>1, <1>5, <2>1 DEF WalkInv, WalkTypes
<1>8. LimitsKept'
  BY <1>1 DEF WalkInv, LimitsKept
<1>9. scope.depth > 0 => \A i \in DOMAIN stack' : stack'[i].depth <= scope.depth
  <2>1. scope.depth > 0 => t.depth <= scope.depth
    BY <1>4 DEF Enters
  <2>2. QED  BY <1>5, <1>6, <2>1 DEF WalkInv
<1>10. OnceInv'
  <2>1. SUFFICES ASSUME scope.follow
                 PROVE  /\ \A i \in DOMAIN found : Behind(found[i])'
                        /\ \A i \in DOMAIN stack' : Where(stack'[i]) \in visited'
                        /\ \A i, j \in DOMAIN stack' : Where(stack'[i]) = Where(stack'[j]) => i = j
    BY <1>1 DEF WalkInv, OnceInv, Behind
  <2>2. \A i \in DOMAIN stack' : i # 1 => Where(stack'[i]) \in visited
    BY <1>6, <2>1 DEF WalkInv, OnceInv
  <2>3. d \notin visited /\ visited' = visited \union {d} /\ Where(stack'[1]) = d
    BY <1>1, <1>4, <1>5, <2>1
  <2>4. \A i, j \in DOMAIN stack' : Where(stack'[i]) = Where(stack'[j]) => i = j
    <3>1. ASSUME NEW i \in DOMAIN stack', NEW j \in DOMAIN stack', Where(stack'[i]) = Where(stack'[j])
          PROVE  i = j
      <4>1. CASE i = 1 \/ j = 1
        BY <2>2, <2>3, <3>1, <4>1
      <4>2. CASE i # 1 /\ j # 1
        <5>1. i - 1 = j - 1
          BY <1>6, <2>1, <3>1, <4>2 DEF WalkInv, OnceInv
        <5>2. QED  BY <1>5, <5>1
      <4>3. QED  BY <4>1, <4>2
    <3>2. QED  BY <3>1
  <2>5. \A i \in DOMAIN stack' : i # 1 =>
          \E m \in DOMAIN stack : /\ Where(stack[m]) = Where(stack'[i])
                                  /\ stack[m].at \in Nat /\ stack'[i].at \in Nat
                                  /\ stack[m].at <= stack'[i].at
    <3>1. ASSUME NEW i \in DOMAIN stack', i # 1
          PROVE  stack[i - 1].at \in Nat /\ stack'[i].at \in Nat
      <4>1. stack[i - 1] \in Frames /\ stack'[i] \in Frames
        BY <1>2, <1>5, <1>6, <3>1, ElementOfSeq, LenProperties DEF WalkInv, WalkTypes
      <4>2. QED  BY <4>1 DEF Frames
    <3>2. \A i \in DOMAIN stack' : i # 1 => stack[i - 1].at <= stack'[i].at
      BY <1>6, <3>1
    <3>3. QED  BY <1>6, <3>1, <3>2
  <2>6. ASSUME NEW i \in DOMAIN found PROVE Behind(found[i])'
    <3>1. PICK e : e = found[i]
      OBVIOUS
    <3>2. Behind(e)
      BY <2>1, <3>1 DEF WalkInv, OnceInv
    <3>3. Behind(e)'
      <4>1. \A j \in DOMAIN stack' :
              \/ Where(stack'[j]) \notin visited
              \/ \E m \in DOMAIN stack : /\ Where(stack[m]) = Where(stack'[j])
                                         /\ stack[m].at \in Nat /\ stack'[j].at \in Nat
                                         /\ stack[m].at <= stack'[j].at
        BY <2>3, <2>5
      <4>2. visited \subseteq Keys
        BY DEF WalkInv, WalkTypes
      <4>3. QED  BY <1>1, <3>2, <4>1, <4>2, PassedStays
    <3>4. QED  BY <1>1, <3>1, <3>3 DEF Behind
  <2>7. \A i \in DOMAIN stack' : Where(stack'[i]) \in visited'
    BY <2>2, <2>3
  <2>8. QED  BY <2>4, <2>6, <2>7
<1>11. QED  BY <1>1, <1>7, <1>8, <1>9, <1>10 DEF WalkInv

\* The walk begins at the root.
LEMMA StartStep ==
  ASSUME FileQueryAssumptions, WalkInv, StartQuery
  PROVE  WalkInv'
<1>1. stack' \in {<<Frame(RootKey, 0)>>, <<>>} /\ visited' = {RootKey} /\ main' = "query"
      /\ UNCHANGED <<found, scope>>
      /\ found = <<>>
  BY DEF StartQuery, WalkInv, WalkTypes
<1>2. PICK t \in Frames : t = Frame(RootKey, 0)
  <2>1. Root \in Dirs
    BY DEF FileQueryAssumptions
  <2>2. Frame(RootKey, 0) \in Frames
    BY <2>1 DEF Frames, Frame, RootKey
  <2>3. QED  BY <2>2
<1>3. Where(t) = RootKey /\ t.depth = 0 /\ RootKey \in Keys
  BY <1>2 DEF Frame, Where, RootKey, Keys, FileQueryAssumptions
<1>4. stack' \in Seq(Frames) /\ DOMAIN stack' \subseteq {1} /\ (1 \in DOMAIN stack' => stack'[1] = t)
  <2>1. CASE stack' = <<t>>
    <3>1. <<t>> \in Seq(Frames) /\ DOMAIN <<t>> = {1} /\ <<t>>[1] = t
      OBVIOUS
    <3>2. QED  BY <2>1, <3>1
  <2>2. CASE stack' = <<>>
    <3>1. <<>> \in Seq(Frames) /\ DOMAIN <<>> = {}
      OBVIOUS
    <3>2. QED  BY <2>2, <3>1
  <2>3. QED  BY <1>1, <1>2, <2>1, <2>2
<1>5. WalkTypes'
  BY <1>1, <1>3, <1>4 DEF WalkInv, WalkTypes
<1>6. LimitsKept'
  BY <1>1 DEF WalkInv, LimitsKept
<1>7. DOMAIN found = {}
  BY <1>1
<1>8. OnceInv'
  BY <1>1, <1>3, <1>4, <1>7 DEF OnceInv
<1>9. scope.depth \in Nat
  BY DEF WalkInv, WalkTypes, FileQueryAssumptions
<1>10. QED  BY <1>1, <1>3, <1>4, <1>5, <1>6, <1>8, <1>9 DEF WalkInv

\* A step that leaves the walk alone.
LEMMA WalkStutter ==
  ASSUME WalkInv, UNCHANGED <<walkVars, scope>>, main' = "start" => main = "start"
  PROVE  WalkInv'
<1>1. WalkTypes'
  BY DEF WalkInv, WalkTypes, walkVars
<1>2. LimitsKept'
  BY DEF WalkInv, LimitsKept, walkVars
<1>3. OnceInv'
  BY DEF WalkInv, OnceInv, Behind, walkVars
<1>4. QED  BY <1>1, <1>2, <1>3 DEF WalkInv, walkVars

\* One step of anybody.
LEMMA WalkStep ==
  ASSUME FileQueryAssumptions, WalkInv, [FileQueryNext]_fqVars
  PROVE  WalkInv'
<1>1. CASE RefuseQuery \/ CloseMatches \/ Return \/ Stop \/ Collect
  BY <1>1, WalkStutter DEF RefuseQuery, CloseMatches, Return, Stop, Collect, mainVars
<1>2. CASE StartQuery
  BY <1>2, StartStep
<1>3. CASE Scanner
  BY <1>3, ScannerCases, LeavesStep, PassesStep, SendsStep, EntersStep DEF WalkInv
<1>4. CASE Ageing
  BY <1>4, WalkStutter DEF Ageing, mainVars
<1>5. CASE \E w \in Walkers : Walker(w)
  BY <1>5, WalkStutter DEF Walker, TakePath, SendResult, WalkerEnds, PipeFrame, mainVars
<1>6. CASE \E q \in Queriers : Querier(q)
  BY <1>6, WalkStutter DEF Querier, TakeResult, Parse, SendMatches, QuerierEnds, mainVars
<1>7. CASE UNCHANGED fqVars
  BY <1>7, WalkStutter DEF fqVars, mainVars
<1>8. QED  BY <1>1, <1>2, <1>3, <1>4, <1>5, <1>6, <1>7 DEF FileQueryNext

\* No path climbs higher than its links.
LEMMA HeightStep ==
  ASSUME FileQueryAssumptions, WalkInv, HeightInv, [FileQueryNext]_fqVars
  PROVE  HeightInv'
<1>1. CASE UNCHANGED <<walkVars, scope>>
  BY <1>1 DEF HeightInv, Heights, walkVars
<1>2. CASE StartQuery
  <2>1. stack' \in {<<Frame(RootKey, 0)>>, <<>>} /\ UNCHANGED <<found, scope>>
    BY <1>2 DEF StartQuery
  <2>2. \A i \in DOMAIN stack' : stack'[i].climb = 0
    BY <2>1 DEF Frame, RootKey
  <2>3. QED  BY <2>1, <2>2 DEF HeightInv, Heights
<1>3. CASE Scanner
  <2>1. stack # <<>> /\ UNCHANGED scope
    BY <1>3, ScannerCases DEF WalkInv
  <2>2. Heights' = Heights
    BY <2>1 DEF Heights
  <2>3. /\ Len(stack) \in Nat \ {0} /\ DOMAIN stack = 1 .. Len(stack) /\ Top \in Frames
        /\ Next1 \in Seq(Frames) /\ Len(Next1) = Len(stack) /\ DOMAIN Next1 = 1 .. Len(stack)
        /\ \A i \in 1 .. Len(stack) : Next1[i].climb = stack[i].climb
    BY <2>1, NextFrame DEF WalkInv
  <2>4. Top.climb \in Heights /\ \A i \in DOMAIN Next1 : Next1[i].climb \in Heights
    <3>1. \A i \in 1 .. Len(stack) : stack[i].climb \in Heights
      BY <2>3 DEF HeightInv
    <3>2. stack[1].climb \in Heights
      BY <2>3, <3>1
    <3>3. QED  BY <2>3, <3>1, <3>2 DEF Top
  <2>5. CASE Leaves
    <3>1. /\ Tail(stack) \in Seq(Frames) /\ Len(Tail(stack)) = Len(stack) - 1
          /\ \A i \in 1 .. Len(stack) - 1 : Tail(stack)[i] = stack[i + 1]
      BY <2>1, <2>3, StackShapes DEF WalkInv, WalkTypes
    <3>2. DOMAIN Tail(stack) = 1 .. Len(stack) - 1
      BY <3>1, LenProperties
    <3>3. \A i \in DOMAIN Tail(stack) : i + 1 \in DOMAIN stack /\ Tail(stack)[i] = stack[i + 1]
      BY <2>3, <3>1, <3>2
    <3>4. \A i \in DOMAIN Tail(stack) : Tail(stack)[i].climb \in Heights
      BY <3>3 DEF HeightInv
    <3>5. \A i \in DOMAIN stack' : stack'[i].climb \in Heights
      <4>1. CASE stack' = Tail(stack)
        BY <3>4, <4>1
      <4>2. CASE stack' = <<>>
        BY <4>2
      <4>3. QED  BY <2>5, <4>1, <4>2 DEF Leaves
    <3>6. QED  BY <2>2, <2>5, <3>5 DEF HeightInv, Leaves
  <2>6. CASE Passes
    BY <2>2, <2>4, <2>6 DEF HeightInv, Passes
  <2>7. CASE Sends
    <3>1. PICK x : x = [name |-> Entry, climb |-> Top.climb, depth |-> Top.depth]
      OBVIOUS
    <3>2. found \in Seq(Sent) /\ found' = Append(found, x) /\ x.climb \in Heights
      BY <2>4, <2>7, <3>1 DEF Sends, WalkInv, WalkTypes
    <3>3. /\ Len(found) \in Nat /\ DOMAIN found = 1 .. Len(found)
          /\ DOMAIN found' = 1 .. Len(found) + 1 /\ found'[Len(found) + 1] = x
          /\ \A i \in 1 .. Len(found) : found'[i] = found[i]
      BY <3>2, LenProperties
    <3>4. \A i \in DOMAIN found' : found'[i] = x \/ (i \in DOMAIN found /\ found'[i] = found[i])
      BY <3>3
    <3>5. \A i \in DOMAIN found' : found'[i].climb \in Heights
      BY <3>2, <3>4 DEF HeightInv
    <3>6. QED  BY <2>2, <2>4, <2>7, <3>5 DEF HeightInv, Sends
  <2>8. CASE More /\ \E d \in Keys : Enters(d) /\ d = KeyOf(Entry)
    <3>1. PICK d \in Keys : Enters(d) /\ d = KeyOf(Entry)
      BY <2>8
    <3>2. d.climb \in Heights
      <4>1. Entry \in Links => Climb[Entry] \in {Climb[l] : l \in Links}
        OBVIOUS
      <4>2. QED  BY <2>4, <3>1, <4>1 DEF KeyOf, Heights
    <3>3. PICK t \in Frames : t = Frame(d, Top.depth + 1) /\ t.climb = d.climb
      <4>1. Top.depth + 1 \in Nat
        BY <2>3 DEF Frames
      <4>2. Frame(d, Top.depth + 1) \in Frames
        BY <4>1 DEF Frames, Frame, Keys
      <4>3. QED  BY <4>2 DEF Frame
    <3>4. stack' = <<t>> \o Next1 /\ UNCHANGED found
      BY <3>1, <3>3 DEF Enters
    <3>5. /\ DOMAIN stack' = 1 .. Len(stack) + 1 /\ stack'[1] = t
          /\ \A i \in 2 .. Len(stack) + 1 : stack'[i] = Next1[i - 1]
      BY <2>3, <3>4, Pushed, LenProperties
    <3>6. \A i \in DOMAIN stack' : i = 1 \/ (i - 1 \in DOMAIN Next1 /\ stack'[i] = Next1[i - 1])
      BY <2>3, <3>5
    <3>7. \A i \in DOMAIN stack' : stack'[i].climb \in Heights
      BY <2>4, <3>2, <3>3, <3>5, <3>6
    <3>8. QED  BY <2>2, <3>4, <3>7 DEF HeightInv
  <2>9. QED  BY <1>3, <2>5, <2>6, <2>7, <2>8, ScannerCases DEF WalkInv
<1>4. CASE RefuseQuery \/ CloseMatches \/ Return \/ Stop \/ Collect \/ Ageing \/ UNCHANGED fqVars
  BY <1>1, <1>4 DEF RefuseQuery, CloseMatches, Return, Stop, Collect, Ageing, mainVars, fqVars
<1>5. CASE (\E w \in Walkers : Walker(w)) \/ \E q \in Queriers : Querier(q)
  BY <1>1, <1>5 DEF Walker, TakePath, SendResult, WalkerEnds, PipeFrame, Querier, TakeResult, Parse,
     SendMatches, QuerierEnds, mainVars
<1>6. QED  BY <1>2, <1>3, <1>4, <1>5 DEF FileQueryNext

\* Nothing is walked at first.
LEMMA WalkStart ==
  ASSUME FileQueryAssumptions, FileQueryInit
  PROVE  WalkInv /\ HeightInv
<1>1. stack = <<>> /\ visited = {} /\ found = <<>> /\ scope \in Scopes
      /\ DOMAIN stack = {} /\ DOMAIN found = {} /\ Len(found) = 0
  BY DEF FileQueryInit
<1>2. scope.files \in Nat
  BY <1>1 DEF FileQueryAssumptions
<1>3. WalkTypes /\ LimitsKept /\ OnceInv
  BY <1>1, <1>2 DEF WalkTypes, LimitsKept, OnceInv
<1>4. QED  BY <1>1, <1>3 DEF WalkInv, HeightInv

-----------------------------------------------------------------------------
(* The channels and their ends *)

Results == [name: Names, ok: BOOLEAN]

MainTypes ==
  /\ main \in {"start", "query", "collect", "returned", "refused"}
  /\ answer \in {"none", "error", "matches"}
  /\ ctx \in {"live", "timeout", "cancelled", "over"}
  /\ closed \in BOOLEAN /\ trouble \in BOOLEAN

PipeTypes ==
  /\ paths \in Seq(Names) /\ Len(paths) <= BufferSize
  /\ results \in Seq(Results) /\ Len(results) <= BufferSize
  /\ walker \in [Walkers -> {"idle", "done"} \union Names]

\* Who parses has a file.
MatchTypes ==
  /\ querier \in [Queriers -> {"idle", "done"} \union Files]
  /\ matches \in Seq(Files) /\ Len(matches) <= Cardinality(Queriers)
  /\ all \in Seq(Files)
  /\ \A q \in Queriers : querier[q] \in {"idle", "done"} => use[q].at = "idle"

\* A sequence after a send, and after a receive.
LEMMA Channel ==
  ASSUME NEW S, NEW s \in Seq(S)
  PROVE  /\ Len(s) \in Nat
         /\ \A e \in S : Append(s, e) \in Seq(S) /\ Len(Append(s, e)) = Len(s) + 1
         /\ s # <<>> => Head(s) \in S /\ Tail(s) \in Seq(S) /\ Len(Tail(s)) = Len(s) - 1
BY AppendProperties, HeadTailProperties, LenProperties

\* The places of the tool and its context.
LEMMA MainStep ==
  ASSUME MainTypes, [FileQueryNext]_fqVars
  PROVE  MainTypes'
<1>1. CASE RefuseQuery \/ StartQuery \/ CloseMatches \/ Return \/ Stop \/ Collect
  BY <1>1 DEF MainTypes, RefuseQuery, StartQuery, CloseMatches, Return, Stop, Collect,
     queryVars, mainVars, Goes
<1>2. CASE Scanner
  BY <1>2 DEF MainTypes, Scanner, LeaveDir, SkipEntry, EnterDir, SendPath, WalkFrame, queryVars,
     mainVars, Goes
<1>3. CASE Ageing
  BY <1>3 DEF MainTypes, Ageing, queryVars, mainVars
<1>4. CASE \E w \in Walkers : Walker(w)
  BY <1>4 DEF MainTypes, Walker, TakePath, SendResult, WalkerEnds, PipeFrame, queryVars,
     mainVars, Goes
<1>5. ASSUME NEW q \in Queriers, Querier(q) PROVE MainTypes'
  <2>1. CASE Parse(q)
    BY <2>1, Zenon DEF MainTypes, Parse, queryVars, mainVars
  <2>2. CASE TakeResult(q) \/ SendMatches(q) \/ QuerierEnds(q)
    BY <2>2 DEF MainTypes, TakeResult, SendMatches, QuerierEnds, mainVars, Goes
  <2>3. QED  BY <1>5, <2>1, <2>2 DEF Querier
<1>6. CASE UNCHANGED fqVars
  BY <1>6 DEF MainTypes, fqVars, queryVars, mainVars
<1>7. QED  BY <1>1, <1>2, <1>3, <1>4, <1>5, <1>6 DEF FileQueryNext

\* The channels of paths and of results hold what they can.
LEMMA PipeStep ==
  ASSUME FileQueryAssumptions, WalkTypes, PipeTypes, [FileQueryNext]_fqVars
  PROVE  PipeTypes'
<1>1. CASE UNCHANGED pipeVars
  BY <1>1 DEF PipeTypes, pipeVars
<1>2. CASE SendPath
  <2>1. Entry \in Names /\ paths' = Append(paths, Entry) /\ Len(paths) < BufferSize
        /\ UNCHANGED <<walker, results>>
    BY <1>2, EntryTypes DEF SendPath
  <2>2. paths' \in Seq(Names) /\ Len(paths') = Len(paths) + 1 /\ Len(paths) \in Nat
    BY <2>1, Channel DEF PipeTypes
  <2>3. Len(paths') <= BufferSize
    BY <2>1, <2>2 DEF FileQueryAssumptions
  <2>4. QED  BY <2>1, <2>2, <2>3 DEF PipeTypes
<1>3. ASSUME NEW w \in Walkers, Walker(w) PROVE PipeTypes'
  <2>1. CASE TakePath(w)
    <3>1. /\ Head(paths) \in Names /\ Tail(paths) \in Seq(Names)
          /\ Len(Tail(paths)) = Len(paths) - 1 /\ Len(paths) \in Nat
      BY <2>1, Channel DEF TakePath, PipeTypes
    <3>2. Len(Tail(paths)) <= BufferSize
      BY <3>1 DEF PipeTypes, FileQueryAssumptions
    <3>3. QED  BY <2>1, <3>1, <3>2 DEF TakePath, PipeTypes
  <2>2. CASE SendResult(w)
    <3>1. PICK b \in BOOLEAN : results' = Append(results, [name |-> walker[w], ok |-> b])
      BY <2>2 DEF SendResult
    <3>2. walker[w] \in Names /\ Len(results) < BufferSize /\ UNCHANGED paths
          /\ walker' = [walker EXCEPT ![w] = "idle"]
      BY <2>2 DEF SendResult
    <3>3. PICK e \in Results : e = [name |-> walker[w], ok |-> b]
      BY <3>2 DEF Results
    <3>4. results' \in Seq(Results) /\ Len(results') = Len(results) + 1 /\ Len(results) \in Nat
      BY <3>1, <3>3, Channel DEF PipeTypes
    <3>5. Len(results') <= BufferSize
      BY <3>2, <3>4 DEF FileQueryAssumptions
    <3>6. QED  BY <3>2, <3>4, <3>5 DEF PipeTypes
  <2>3. CASE WalkerEnds(w)
    BY <2>3 DEF WalkerEnds, PipeTypes
  <2>4. QED  BY <1>3, <2>1, <2>2, <2>3 DEF Walker
<1>4. ASSUME NEW q \in Queriers, TakeResult(q) PROVE PipeTypes'
  <2>1. results # <<>> /\ results' = Tail(results) /\ UNCHANGED <<paths, walker>>
    BY <1>4 DEF TakeResult
  <2>2. Tail(results) \in Seq(Results) /\ Len(Tail(results)) = Len(results) - 1
        /\ Len(results) \in Nat
    BY <2>1, Channel DEF PipeTypes
  <2>3. Len(Tail(results)) <= BufferSize
    BY <2>2 DEF PipeTypes, FileQueryAssumptions
  <2>4. QED  BY <2>1, <2>2, <2>3 DEF PipeTypes
<1>5. CASE RefuseQuery \/ StartQuery \/ CloseMatches \/ Return \/ Stop \/ Collect \/ Ageing
  BY <1>1, <1>5 DEF RefuseQuery, StartQuery, CloseMatches, Return, Stop, Collect, Ageing
<1>6. CASE LeaveDir \/ SkipEntry \/ EnterDir
  BY <1>1, <1>6 DEF LeaveDir, SkipEntry, EnterDir, WalkFrame
<1>7. ASSUME NEW q \in Queriers, Parse(q) \/ SendMatches(q) \/ QuerierEnds(q) PROVE PipeTypes'
  BY <1>1, <1>7 DEF Parse, SendMatches, QuerierEnds
<1>8. CASE UNCHANGED fqVars
  BY <1>1, <1>8 DEF fqVars
<1>9. QED  BY <1>2, <1>3, <1>4, <1>5, <1>6, <1>7, <1>8 DEF FileQueryNext, Scanner, Querier

\* A step of GetOrParse is of a goroutine that is in it, and stays in it.
LEMMA ParseMoves ==
  ASSUME FileQueryAssumptions, CacheTypes, NEW u \in Queriers, GetOrParse(u)
  PROVE  /\ use[u].at # "idle"
         /\ \A v \in Queriers \ {u} : use'[v] = use[v]
<1>1. use \in [Queriers -> Uses]
  BY DEF CacheTypes, FileQueryAssumptions
<1>2. use[u].at # "idle"
  BY DEF GetOrParse, Look, CopyTree, Evict, CloseOld, Store, ParseFails
<1>3. ASSUME NEW v \in Queriers \ {u} PROVE use'[v] = use[v]
  <2>1. CASE Look(u)
    BY <1>1, <2>1 DEF Look
  <2>2. CASE CopyTree(u)
    BY <1>1, <2>2 DEF CopyTree, Got
  <2>3. CASE Evict(u) \/ CloseOld(u) \/ Store(u) \/ ParseFails(u)
    BY <1>1, <2>3 DEF Evict, CloseOld, Store, ParseFails, Go
  <2>4. QED  BY <2>1, <2>2, <2>3 DEF GetOrParse
<1>4. QED  BY <1>2, <1>3

\* A querier that parses has a file; what it sends are files.
LEMMA MatchStep ==
  ASSUME FileQueryAssumptions, CacheTypes, MatchTypes, [FileQueryNext]_fqVars
  PROVE  MatchTypes'
<1> use \in [Queriers -> Uses]
  BY DEF CacheTypes, FileQueryAssumptions
<1> Cardinality(Queriers) \in Nat
  BY FS_CardinalityType DEF FileQueryAssumptions
<1>1. CASE UNCHANGED <<querier, matches, all, use>>
  BY <1>1 DEF MatchTypes
<1>2. CASE RefuseQuery \/ StartQuery \/ CloseMatches \/ Return \/ Stop
  BY <1>1, <1>2 DEF RefuseQuery, StartQuery, CloseMatches, Return, Stop, queryVars, cacheVars
<1>3. CASE Scanner \/ \E w \in Walkers : Walker(w)
  BY <1>1, <1>3 DEF Scanner, LeaveDir, SkipEntry, EnterDir, SendPath, WalkFrame,
     Walker, TakePath, SendResult, WalkerEnds, PipeFrame, queryVars, cacheVars
<1>4. CASE Ageing
  BY <1>1, <1>4 DEF Ageing, Pruning, PruneFind, PruneDelete, PruneClose, Expire, queryVars
<1>5. CASE Collect
  <2>1. matches # <<>> /\ all' = Append(all, Head(matches)) /\ matches' = Tail(matches)
        /\ UNCHANGED <<querier, use>>
    BY <1>5 DEF Collect, cacheVars
  <2>2. /\ Head(matches) \in Files /\ Tail(matches) \in Seq(Files)
        /\ Len(Tail(matches)) = Len(matches) - 1 /\ Len(matches) \in Nat
    BY <2>1, Channel DEF MatchTypes
  <2>3. Append(all, Head(matches)) \in Seq(Files)
    BY <2>2, Channel DEF MatchTypes
  <2>4. Len(Tail(matches)) <= Cardinality(Queriers)
    BY <2>2 DEF MatchTypes
  <2>5. QED  BY <2>1, <2>2, <2>3, <2>4 DEF MatchTypes
<1>6. ASSUME NEW q \in Queriers, TakeResult(q) PROVE MatchTypes'
  <2>1. UNCHANGED <<matches, all>>
    BY <1>6 DEF TakeResult
  <2>2. CASE UNCHANGED <<querier, use>>
    BY <2>1, <2>2 DEF MatchTypes
  <2>3. ASSUME NEW f \in Files, querier' = [querier EXCEPT ![q] = f],
               use' = [use EXCEPT ![q].at = "look", ![q].src = Text[f], ![q].lang = Language[f]]
        PROVE  MatchTypes'
    <3>1. f \notin {"idle", "done"}
      BY DEF FileQueryAssumptions, Names
    <3>2. \A v \in Queriers \ {q} : use'[v] = use[v]
      BY <2>3
    <3>3. QED  BY <2>1, <2>3, <3>1, <3>2 DEF MatchTypes
  <2>4. QED  BY <1>6, <2>2, <2>3 DEF TakeResult
<1>7. ASSUME NEW q \in Queriers, Parse(q) PROVE MatchTypes'
  <2>1. GetOrParse(q) /\ UNCHANGED <<querier, matches, all>>
    BY <1>7 DEF Parse, queryVars
  <2>2. use[q].at # "idle" /\ \A v \in Queriers \ {q} : use'[v] = use[v]
    BY <2>1, ParseMoves
  <2>3. \A v \in Queriers : querier[v] \in {"idle", "done"} => use'[v].at = "idle"
    BY <2>2 DEF MatchTypes
  <2>4. QED  BY <2>1, <2>3 DEF MatchTypes
<1>8. ASSUME NEW q \in Queriers, SendMatches(q) PROVE MatchTypes'
  <2>1. /\ use[q].at \in {"got", "failed"} /\ UNCHANGED all
        /\ querier' = [querier EXCEPT ![q] = "idle"] /\ use' = [use EXCEPT ![q] = Unused]
        /\ \/ UNCHANGED matches
           \/ Len(matches) < Cardinality(Queriers) /\ matches' = Append(matches, querier[q])
    BY <1>8 DEF SendMatches
  <2>2. querier[q] \in Files
    BY <2>1 DEF MatchTypes
  <2>3. matches' \in Seq(Files) /\ Len(matches') <= Cardinality(Queriers)
    <3>1. /\ Append(matches, querier[q]) \in Seq(Files) /\ Len(matches) \in Nat
          /\ Len(Append(matches, querier[q])) = Len(matches) + 1
      BY <2>2, Channel DEF MatchTypes
    <3>2. CASE UNCHANGED matches
      BY <3>2 DEF MatchTypes
    <3>3. CASE Len(matches) < Cardinality(Queriers) /\ matches' = Append(matches, querier[q])
      BY <3>1, <3>3
    <3>4. QED  BY <2>1, <3>2, <3>3
  <2>4. \A v \in Queriers : querier'[v] \in {"idle", "done"} => use'[v].at = "idle"
    BY <2>1, UnusedType DEF MatchTypes
  <2>5. querier' \in [Queriers -> {"idle", "done"} \union Files]
    BY <2>1 DEF MatchTypes
  <2>6. QED  BY <2>1, <2>3, <2>4, <2>5 DEF MatchTypes
<1>9. ASSUME NEW q \in Queriers, QuerierEnds(q) PROVE MatchTypes'
  BY <1>9 DEF QuerierEnds, MatchTypes, cacheVars
<1>10. CASE UNCHANGED fqVars
  BY <1>1, <1>10 DEF fqVars, queryVars, cacheVars
<1>11. QED
  BY <1>2, <1>3, <1>4, <1>5, <1>6, <1>7, <1>8, <1>9, <1>10 DEF FileQueryNext, Querier

FileQueryInductive ==
  CacheInv /\ WalkInv /\ HeightInv /\ MainTypes /\ PipeTypes /\ MatchTypes

\* The types the run checks follow.
LEMMA TypesFollow ==
  ASSUME FileQueryAssumptions, FileQueryInductive
  PROVE  FileQueryTypeOK
<1>1. CacheTypeOK
  <2>1. Users = Queriers /\ Len(ast) \in Nat
    BY LenProperties DEF FileQueryInductive, CacheInv, CacheTypes, FileQueryAssumptions
  <2>2. ASSUME NEW r \in Uses, r.n <= Len(ast)
        PROVE  /\ r.at \in {"idle", "look", "copy", "evict", "close", "parse", "got", "failed"}
               /\ r.src \in Sources /\ r.lang \in Languages /\ r.n \in 0 .. Len(ast)
    BY <2>1, <2>2 DEF Uses, Places
  <2>3. \A r \in {use[u] : u \in Users} \union {pruner} : r \in Uses /\ r.n <= Len(ast)
    BY DEF FileQueryInductive, CacheInv, CacheTypes
  <2>4. QED  BY <2>2, <2>3 DEF CacheTypeOK, FileQueryInductive, CacheInv, CacheTypes, Asts
<1>2. \A i \in DOMAIN stack : stack[i].dir \in Dirs
  <2>1. \A i \in DOMAIN stack : stack[i] \in Frames
    BY ElementOfSeq, LenProperties DEF FileQueryInductive, WalkInv, WalkTypes
  <2>2. QED  BY <2>1 DEF Frames
<1>3. \A i \in DOMAIN found : found[i].name \in Names
  <2>1. \A i \in DOMAIN found : found[i] \in Sent
    BY ElementOfSeq, LenProperties DEF FileQueryInductive, WalkInv, WalkTypes
  <2>2. QED  BY <2>1 DEF Sent
<1>4. QED
  BY <1>1, <1>2, <1>3 DEF FileQueryTypeOK, FileQueryInductive, WalkInv, WalkTypes, MainTypes,
     PipeTypes, MatchTypes

\* The invariant holds at first.
LEMMA FileQueryStart ==
  ASSUME FileQueryAssumptions, FileQueryInit
  PROVE  FileQueryInductive
<1>1. CacheInv /\ WalkInv /\ HeightInv
  BY CacheStart, WalkStart DEF FileQueryInit
<1>2. MainTypes
  BY DEF FileQueryInit, MainTypes
<1>3. PipeTypes
  BY DEF FileQueryInit, PipeTypes, FileQueryAssumptions
<1>4. MatchTypes
  <2>1. Cardinality(Queriers) \in Nat /\ \A q \in Queriers : use[q].at = "idle"
    BY FS_CardinalityType, UnusedType DEF FileQueryAssumptions, FileQueryInit, CacheInit
  <2>2. QED  BY <2>1 DEF FileQueryInit, MatchTypes
<1>5. QED  BY <1>1, <1>2, <1>3, <1>4 DEF FileQueryInductive

\* The invariant holds throughout.
LEMMA FileQueryInductiveHolds == FileQuerySpec => []FileQueryInductive
<1>1. FileQueryInit => FileQueryInductive
  BY FileQueryStart, FileQueryAssumptions
<1>2. FileQueryInductive /\ [FileQueryNext]_fqVars => FileQueryInductive'
  BY CacheStep, WalkStep, HeightStep, MainStep, PipeStep, MatchStep, FileQueryAssumptions
     DEF FileQueryInductive, CacheInv, WalkInv
<1>3. QED  BY <1>1, <1>2, PTL DEF FileQuerySpec

\* For any tree with any links and cycles, any scope, pools and channels of
\* any size, whatever fails and whenever the context ends: what the scanner
\* sends is within the limits and not excluded.  With links followed, a name is
\* sent once from an absolute scope path, and from a relative one at most once
\* for every height its links lead to (scanDirectory, visited, EvalSymlinks).
THEOREM FileQueryInvHolds == FileQuerySpec => []FileQueryInv
<1>1. FileQueryInductive => FileQueryInv
  <2>1. SUFFICES ASSUME FileQueryInductive PROVE FileQueryInv
    OBVIOUS
  <2>2. FoundOnce
    <3>1. scope \in Scopes /\ (scope.follow => OnceInv) /\ HeightInv
      BY <2>1 DEF FileQueryInductive, WalkInv, WalkTypes
    <3>2. scope.absolute \in BOOLEAN
      BY <3>1, FileQueryAssumptions DEF FileQueryAssumptions
    <3>3. ASSUME scope.follow, NEW i \in DOMAIN found, NEW j \in DOMAIN found,
                 i # j, found[i].name = found[j].name
          PROVE  /\ ~scope.absolute /\ found[i].climb # found[j].climb
                 /\ found[i].climb \in {0} \union {Climb[l] : l \in Links}
      <4>1. found[i].climb # found[j].climb
        BY <3>1, <3>3 DEF OnceInv
      <4>2. found[i].climb \in Heights /\ found[j].climb \in Heights
        BY <3>1 DEF HeightInv
      <4>3. CASE scope.absolute
        BY <4>1, <4>2, <4>3 DEF Heights
      <4>4. CASE ~scope.absolute
        BY <4>1, <4>2, <4>4 DEF Heights
      <4>5. QED  BY <4>3, <4>4
    <3>4. QED  BY <3>3 DEF FoundOnce
  <2>3. LimitsKept
    BY <2>1 DEF FileQueryInductive, WalkInv
  <2>4. FileQueryTypeOK
    BY <2>1, TypesFollow, FileQueryAssumptions
  <2>5. QED  BY <2>2, <2>3, <2>4 DEF FileQueryInv
<1>2. QED  BY <1>1, FileQueryInductiveHolds, PTL

-----------------------------------------------------------------------------
(* Counting *)

\* How many of a sequence are in a set, and how many values of a function are.
Hits(s, T) == Cardinality({i \in DOMAIN s : s[i] \in T})
Holding(g, D, T) == Cardinality({v \in D : g[v] \in T})

\* Nothing is in the empty sequence.
LEMMA HitsEmpty ==
  ASSUME NEW T PROVE Hits(<<>>, T) = 0
<1>1. {i \in DOMAIN <<>> : <<>>[i] \in T} = {}
  OBVIOUS
<1>2. QED  BY <1>1, FS_EmptySet DEF Hits

\* One more in the sequence.
LEMMA HitsAppend ==
  ASSUME NEW X, NEW s \in Seq(X), NEW e \in X, NEW T
  PROVE  /\ Hits(s, T) \in Nat
         /\ Hits(Append(s, e), T) = IF e \in T THEN Hits(s, T) + 1 ELSE Hits(s, T)
<1>1. PICK n \in Nat : n = Len(s) /\ DOMAIN s = 1 .. n
  BY LenProperties
<1> DEFINE D == {i \in 1 .. n : s[i] \in T}
<1>2. IsFiniteSet(D) /\ Cardinality(D) \in Nat
  <2>1. IsFiniteSet(1 .. n)
    BY FS_Interval
  <2>2. QED  BY <2>1, FS_Subset, FS_CardinalityType
<1>3. PICK a : a = Append(s, e)
  OBVIOUS
<1>4. DOMAIN a = 1 .. n + 1 /\ a[n + 1] = e /\ \A i \in 1 .. n : a[i] = s[i]
  <2>1. a \in Seq(X) /\ Len(a) = n + 1 /\ a[n + 1] = e /\ \A i \in 1 .. n : a[i] = s[i]
    BY <1>1, <1>3, AppendProperties
  <2>2. QED  BY <2>1, LenProperties
<1>5. {i \in DOMAIN a : a[i] \in T} = IF e \in T THEN D \union {n + 1} ELSE D
  BY <1>4
<1>6. Cardinality(D \union {n + 1}) = Cardinality(D) + 1
  <2>1. n + 1 \notin D
    OBVIOUS
  <2> HIDE DEF D
  <2>2. QED  BY <1>2, <2>1, FS_AddElement
<1>7. Hits(s, T) = Cardinality(D)
  BY <1>1 DEF Hits
<1>8. QED  BY <1>2, <1>3, <1>5, <1>6, <1>7 DEF Hits

\* One less.
LEMMA HitsTail ==
  ASSUME NEW X, NEW s \in Seq(X), s # <<>>, NEW T
  PROVE  /\ Hits(Tail(s), T) \in Nat
         /\ Hits(s, T) = IF Head(s) \in T THEN Hits(Tail(s), T) + 1 ELSE Hits(Tail(s), T)
<1>1. PICK n \in Nat : Len(s) = n + 1 /\ DOMAIN s = 1 .. n + 1
  <2>1. Len(s) \in Nat /\ Len(s) # 0 /\ DOMAIN s = 1 .. Len(s)
    BY LenProperties, EmptySeq
  <2>2. Len(s) - 1 \in Nat /\ Len(s) = (Len(s) - 1) + 1
    BY <2>1
  <2>3. QED  BY <2>1, <2>2
<1>2. PICK t : t = Tail(s)
  OBVIOUS
<1>3. DOMAIN t = 1 .. n /\ Head(s) = s[1] /\ \A i \in 1 .. n : t[i] = s[i + 1]
  <2>1. t \in Seq(X) /\ Len(t) = n /\ Head(s) = s[1] /\ \A i \in 1 .. n : t[i] = s[i + 1]
    BY <1>1, <1>2, HeadTailProperties
  <2>2. QED  BY <2>1, LenProperties
<1> DEFINE D == {i \in 1 .. n : t[i] \in T}
           E == {i \in 2 .. n + 1 : s[i] \in T}
           g == [i \in D |-> i + 1]
<1>4. IsFiniteSet(D) /\ Cardinality(D) \in Nat
  <2>1. IsFiniteSet(1 .. n)
    BY FS_Interval
  <2>2. QED  BY <2>1, FS_Subset, FS_CardinalityType
<1>5. IsFiniteSet(E) /\ Cardinality(E) = Cardinality(D)
  <2>1. g \in [D -> E]
    BY <1>3
  <2>2. \A i, j \in D : g[i] = g[j] => i = j
    OBVIOUS
  <2>3. ASSUME NEW j \in E PROVE \E i \in D : g[i] = j
    <3>1. j - 1 \in 1 .. n /\ (j - 1) + 1 = j
      OBVIOUS
    <3>2. j - 1 \in D
      BY <1>3, <3>1
    <3>3. g[j - 1] = j
      BY <3>1, <3>2
    <3>4. QED  BY <3>2, <3>3
  <2>4. g \in Bijection(D, E)
    BY <2>1, <2>2, <2>3 DEF Bijection, Injection, Surjection, IsInjective
  <2>5. ExistsBijection(D, E)
    BY <2>4 DEF ExistsBijection
  <2>6. QED  BY <1>4, <2>5, FS_Bijection
<1>6. {i \in DOMAIN s : s[i] \in T} = IF Head(s) \in T THEN E \union {1} ELSE E
  BY <1>1, <1>3
<1>7. Cardinality(E \union {1}) = Cardinality(E) + 1
  <2>1. 1 \notin E
    OBVIOUS
  <2> HIDE DEF E
  <2>2. QED  BY <1>5, <2>1, FS_AddElement
<1>8. Hits(t, T) = Cardinality(D)
  BY <1>3 DEF Hits
<1>9. QED  BY <1>2, <1>4, <1>5, <1>6, <1>7, <1>8 DEF Hits

\* Two sets that differ only in v.
LEMMA CardMoved ==
  ASSUME NEW A, NEW B, NEW v, IsFiniteSet(A), IsFiniteSet(B), A \ {v} = B \ {v}
  PROVE  /\ Cardinality(A) \in Nat /\ Cardinality(B) \in Nat
         /\ v \in A /\ v \in B => Cardinality(B) = Cardinality(A)
         /\ v \notin A /\ v \notin B => Cardinality(B) = Cardinality(A)
         /\ v \notin A /\ v \in B => Cardinality(B) = Cardinality(A) + 1
         /\ v \in A /\ v \notin B => Cardinality(B) + 1 = Cardinality(A)
<1>1. PICK a, b : a = Cardinality(A) /\ b = Cardinality(B) /\ a \in Nat /\ b \in Nat
  BY FS_CardinalityType
<1>2. /\ Cardinality(A \ {v}) = IF v \in A THEN Cardinality(A) - 1 ELSE Cardinality(A)
      /\ Cardinality(B \ {v}) = IF v \in B THEN Cardinality(B) - 1 ELSE Cardinality(B)
  BY FS_RemoveElement
<1>3. IF v \in A THEN IF v \in B THEN a - 1 = b - 1 ELSE a - 1 = b
      ELSE IF v \in B THEN a = b - 1 ELSE a = b
  BY <1>1, <1>2
<1>4. QED  BY <1>1, <1>3
Pair(fr) == <<fr.dir, Steps(fr.depth)>>
PairsOf(s) == {Pair(s[i]) : i \in DOMAIN s} \* of the directories on a stack

\* In every set that covers the scope.
Reached(p) == \A S \in SUBSET (Dirs \X (0 .. scope.depth)) : Covers(S) => p \in S

InScope(e) == FileOf(e) \in Files => FileOf(e) \in ReachedFiles

\* What goes through the channels is in the scope.
ScopeInv ==
  /\ \A i \in DOMAIN stack : Reached(Pair(stack[i]))
  /\ \A i \in DOMAIN found : InScope(found[i].name)
  /\ \A i \in DOMAIN paths : InScope(paths[i])
  /\ \A w \in Walkers : walker[w] \in Names => InScope(walker[w])
  /\ \A i \in DOMAIN results : InScope(results[i].name)
  /\ \A q \in Queriers : querier[q] \in Files => querier[q] \in ReachedFiles

\* A file in the scope with this text is of this language.
Known(s, l) == \E g \in ReachedFiles : Text[g] = s /\ Language[g] = l

Parsing == {"look", "copy", "evict", "close", "parse"}

\* A tree is of the language of a file in the scope with its text.
UseLang(f, r) ==
  /\ r.src = Text[f]
  /\ r.at \in Parsing => r.lang = Language[f]
  /\ r.at = "copy" => Known(r.src, ast[r.n].lang)
  /\ r.at = "got" => Known(r.src, r.lang)
LangInv ==
  /\ \A s \in Sources : cache[s] # 0 => Known(s, ast[cache[s]].lang)
  /\ \A q \in Queriers : querier[q] \in Files => UseLang(querier[q], use[q])

\* Nobody leaves before his channel is empty and those before him have left.
FlowInv ==
  /\ main \in {"start", "query", "collect"} => Live
  /\ main = "refused" => stack = <<>>
  /\ \A w \in Walkers : walker[w] = "done" =>
       main \notin {"start", "refused"} /\ stack = <<>> /\ paths = <<>>
  /\ \A q \in Queriers : querier[q] = "done" => main \notin {"start", "refused"} /\ ResultsEnd
  /\ main \in {"collect", "returned"} => \A q \in Queriers : querier[q] = "done"
  /\ main = "returned" => matches = <<>>
  /\ \A i \in DOMAIN results : results[i].ok
  /\ \A q \in Queriers : use[q].at # "failed"

Only(f)    == {f}
NamesOf(f) == {e \in Names : FileOf(e) = f}
SentOf(f)  == {r \in Sent : r.name \in NamesOf(f)}
StatOf(f)  == {r \in Results : r.name \in NamesOf(f)}

\* Every name sent for a file is somewhere on its way.
OnTheWay(f) ==
  Hits(paths, NamesOf(f)) + Holding(walker, Walkers, NamesOf(f)) + Hits(results, StatOf(f))
    + Holding(querier, Queriers, Only(f)) + Hits(matches, Only(f)) + Hits(all, Only(f))
CountInv ==
  \A f \in Files : ~Ambiguous(f) =>
    IF f \in Matching THEN Hits(found, SentOf(f)) = OnTheWay(f)
    ELSE Hits(matches, Only(f)) = 0 /\ Hits(all, Only(f)) = 0

FoundNames == {found[i].name : i \in DOMAIN found}

\* An entry of the directory of p, once the scanner is past it: T are the
\* directories it has left or is in, F the names it has sent.
Settled(e, p, T, F) ==
  \/ e \in scope.exclude
  \/ IsDir(e) /\ (scope.depth = 0 \/ p[2] < scope.depth => <<DirOf(e), Steps(p[2] + 1)>> \in T)
  \/ ~IsDir(e) /\ e \in F

LeftSettled(S, T, F) == \A p \in S : \A k \in DOMAIN Listing[p[1]] : Settled(Listing[p[1]][k], p, T, F)
StackSettled(s, T, F) ==
  \A i \in DOMAIN s : \A k \in DOMAIN Listing[s[i].dir] :
    k < s[i].at => Settled(Listing[s[i].dir][k], Pair(s[i]), T, F)

\* S are the directories it has left.
Met(S) == S \union PairsOf(stack)
Scanned(S) ==
  /\ LeftSettled(S, Met(S), FoundNames)
  /\ StackSettled(stack, Met(S), FoundNames)
  /\ main \notin {"start", "refused"} => <<Root, 0>> \in Met(S)
  /\ scope.follow => \A d \in visited : <<d.dir, 0>> \in Met(S)

ScanInv == \E S \in SUBSET (Dirs \X (0 .. scope.depth)) : Scanned(S)

CompleteInv ==
  /\ ScopeInv
  /\ LangInv
  /\ ~trouble => FlowInv /\ CountInv
  /\ ~trouble /\ scope.files = 0 /\ ~(scope.follow /\ scope.depth > 0) => ScanInv

\* What goes wrong is not forgotten.
LEMMA TroubleStays ==
  ASSUME MainTypes, [FileQueryNext]_fqVars, ~trouble'
  PROVE  ~trouble
<1>1. CASE RefuseQuery \/ StartQuery \/ CloseMatches \/ Return \/ Stop \/ Collect \/ Ageing
  BY <1>1 DEF RefuseQuery, StartQuery, CloseMatches, Return, Stop, Collect, Ageing, Goes
<1>2. CASE Scanner
  BY <1>2 DEF Scanner, LeaveDir, SkipEntry, EnterDir, SendPath, Goes
<1>3. CASE \E w \in Walkers : Walker(w)
  BY <1>3 DEF Walker, TakePath, SendResult, WalkerEnds, Goes
<1>4. ASSUME NEW q \in Queriers, Querier(q) PROVE ~trouble
  <2>1. CASE Parse(q)
    BY <2>1, Zenon DEF Parse
  <2>2. CASE TakeResult(q) \/ SendMatches(q) \/ QuerierEnds(q)
    BY <2>2 DEF TakeResult, SendMatches, QuerierEnds, Goes
  <2>3. QED  BY <1>4, <2>1, <2>2 DEF Querier
<1>5. CASE UNCHANGED fqVars
  BY <1>5 DEF fqVars
<1>6. QED  BY <1>1, <1>2, <1>3, <1>4, <1>5 DEF FileQueryNext

\* At the end the channels are empty and all have left.
LEMMA FlowEnds ==
  ASSUME FileQueryAssumptions, FlowInv, main \in {"collect", "returned"}
  PROVE  /\ stack = <<>> /\ paths = <<>> /\ results = <<>>
         /\ \A w \in Walkers : walker[w] = "done"
         /\ \A q \in Queriers : querier[q] = "done"
<1>1. PICK q \in Queriers, w \in Walkers : TRUE
  BY DEF FileQueryAssumptions
<1>2. QED  BY <1>1 DEF FlowInv, ResultsEnd

\* While the context is over, nobody is left.
LEMMA FlowDead ==
  ASSUME FileQueryAssumptions, MainTypes, FlowInv, ~Live, main # "refused"
  PROVE  main = "returned" /\ stack = <<>> /\ \A w \in Walkers : walker[w] = "done"
<1>1. main = "returned"
  BY DEF FlowInv, MainTypes
<1>2. QED  BY <1>1, FlowEnds

\* The tool goes on.
LEMMA MainFlow ==
  ASSUME FileQueryAssumptions, FileQueryInductive, FlowInv, ~trouble',
         RefuseQuery \/ StartQuery \/ CloseMatches \/ Return \/ Stop \/ Collect
  PROVE  FlowInv'
<1>1. CASE RefuseQuery
  BY <1>1 DEF RefuseQuery, FlowInv, Live, ResultsEnd, walkVars, pipeVars, queryVars, cacheVars,
     FileQueryInductive, WalkInv, WalkTypes
<1>2. CASE StartQuery
  BY <1>2 DEF StartQuery, Goes, FlowInv, Live, ResultsEnd, pipeVars, queryVars, cacheVars
<1>3. CASE CloseMatches
  BY <1>3 DEF CloseMatches, FlowInv, Live, ResultsEnd, walkVars, pipeVars, queryVars, cacheVars
<1>4. CASE Return
  BY <1>4 DEF Return, FlowInv, Live, ResultsEnd, walkVars, pipeVars, queryVars, cacheVars
<1>5. CASE Stop
  BY <1>5 DEF Stop, Goes
<1>6. CASE Collect
  <2>1. main # "returned"
    BY <1>6 DEF Collect, FlowInv
  <2>2. QED  BY <1>6, <2>1 DEF Collect, FlowInv, Live, ResultsEnd, walkVars, pipeVars, mainVars, cacheVars
<1>7. QED  BY <1>1, <1>2, <1>3, <1>4, <1>5, <1>6

\* The scanner has not ended.
LEMMA ScannerFlow ==
  ASSUME FileQueryAssumptions, FileQueryInductive, FlowInv, Scanner
  PROVE  FlowInv'
<1>1. stack # <<>> /\ UNCHANGED <<walker, results, queryVars, mainVars, cacheVars>>
  BY DEF Scanner, LeaveDir, SkipEntry, EnterDir, SendPath, Scans, More, WalkFrame, pipeVars
<1>2. \A w \in Walkers : walker[w] # "done"
  BY <1>1 DEF FlowInv
<1>3. \A q \in Queriers : querier[q] # "done"
  <2>1. PICK w \in Walkers : TRUE
    BY DEF FileQueryAssumptions
  <2>2. QED  BY <1>2, <2>1 DEF FlowInv, ResultsEnd
<1>4. QED
  BY <1>1, <1>2, <1>3 DEF FlowInv, Live, queryVars, mainVars, cacheVars

\* Walkers end last.
LEMMA WalkerFlow ==
  ASSUME FileQueryAssumptions, FileQueryInductive, FlowInv, NEW w \in Walkers, Walker(w), ~trouble'
  PROVE  FlowInv'
<1>1. UNCHANGED <<stack, queryVars, mainVars, cacheVars>> /\ walker[w] # "done"
      /\ walker \in [Walkers -> {"idle", "done"} \union Names]
  BY DEF Walker, TakePath, SendResult, WalkerEnds, PipeFrame, walkVars, FileQueryInductive,
     PipeTypes, FileQueryAssumptions
<1>2. \A q \in Queriers : querier[q] # "done"
  BY <1>1 DEF FlowInv, ResultsEnd
<1>3. \A v \in Walkers : walker'[v] = "done" => main \notin {"start", "refused"} /\ stack = <<>> /\ paths' = <<>>
  <2>1. CASE TakePath(w)
    <3>1. paths # <<>> /\ paths \in Seq(Names) /\ walker' = [walker EXCEPT ![w] = Head(paths)]
      BY <2>1 DEF TakePath, FileQueryInductive, PipeTypes
    <3>2. Head(paths) # "done"
      BY <3>1, Channel DEF FileQueryAssumptions
    <3>3. QED  BY <1>1, <3>1, <3>2 DEF FlowInv
  <2>2. CASE SendResult(w)
    BY <1>1, <2>2 DEF SendResult, FlowInv
  <2>3. CASE WalkerEnds(w)
    <3>1. Live
      BY <1>1, <2>3, FlowDead DEF WalkerEnds, FileQueryInductive
    <3>2. QED  BY <1>1, <2>3, <3>1 DEF WalkerEnds, PathsEnd, FlowInv
  <2>4. QED  BY <2>1, <2>2, <2>3 DEF Walker
<1>4. \A i \in DOMAIN results' : results'[i].ok
  <2>1. CASE UNCHANGED results
    BY <2>1 DEF FlowInv
  <2>2. CASE SendResult(w)
    <3>1. PICK e \in Results : e.ok /\ results' = Append(results, e)
      BY <2>2 DEF SendResult, Goes, Results
    <3>2. PICK r : r = results'
      OBVIOUS
    <3>3. /\ results \in Seq(Results) /\ DOMAIN results = 1 .. Len(results) /\ Len(results) \in Nat
          /\ r \in Seq(Results) /\ Len(r) = Len(results) + 1 /\ r[Len(results) + 1] = e
          /\ \A i \in 1 .. Len(results) : r[i] = results[i]
      BY <3>1, <3>2, AppendProperties, LenProperties DEF FileQueryInductive, PipeTypes
    <3>4. DOMAIN r = 1 .. Len(results) + 1
      BY <3>3, LenProperties
    <3>5. QED  BY <3>1, <3>2, <3>3, <3>4 DEF FlowInv
  <2>3. QED  BY <2>1, <2>2 DEF Walker, TakePath, WalkerEnds
<1>5. QED
  BY <1>1, <1>2, <1>3, <1>4 DEF FlowInv, Live, queryVars, mainVars, cacheVars

\* What a querier that has not left does to its own record and the others'.
LEMMA QuerierBusy ==
  ASSUME FileQueryAssumptions, FileQueryInductive, NEW q \in Queriers, Querier(q)
  PROVE  /\ querier[q] # "done" /\ use \in [Queriers -> Uses]
         /\ querier \in [Queriers -> {"idle", "done"} \union Files]
         /\ UNCHANGED <<walkVars, paths, walker, mainVars>>
         /\ \A v \in Queriers \ {q} : querier'[v] = querier[v] /\ use'[v] = use[v]
<1>1. /\ use \in [Queriers -> Uses] /\ querier \in [Queriers -> {"idle", "done"} \union Files]
      /\ \A v \in Queriers : querier[v] \in {"idle", "done"} => use[v].at = "idle"
      /\ CacheTypes
  BY DEF FileQueryInductive, CacheInv, CacheTypes, MatchTypes, FileQueryAssumptions
<1>2. CASE TakeResult(q)
  BY <1>1, <1>2 DEF TakeResult
<1>3. CASE Parse(q)
  BY <1>1, <1>3, ParseMoves DEF Parse, pipeVars, queryVars
<1>4. CASE SendMatches(q)
  BY <1>1, <1>4 DEF SendMatches, pipeVars
<1>5. CASE QuerierEnds(q)
  BY <1>1, <1>5 DEF QuerierEnds, pipeVars, cacheVars
<1>6. QED  BY <1>1, <1>2, <1>3, <1>4, <1>5 DEF Querier

\* Queriers end when all results are taken.
LEMMA QuerierFlow ==
  ASSUME FileQueryAssumptions, FileQueryInductive, FlowInv, NEW q \in Queriers, Querier(q), ~trouble'
  PROVE  FlowInv'
<1>1. /\ querier[q] # "done" /\ use \in [Queriers -> Uses]
      /\ querier \in [Queriers -> {"idle", "done"} \union Files]
      /\ UNCHANGED <<walkVars, paths, walker, mainVars>>
      /\ \A v \in Queriers \ {q} : querier'[v] = querier[v] /\ use'[v] = use[v]
  BY QuerierBusy
<1>2. main \notin {"collect", "returned"}
  BY <1>1 DEF FlowInv
<1>3. results' = results \/ (results # <<>> /\ results' = Tail(results))
  BY DEF Querier, TakeResult, Parse, SendMatches, QuerierEnds, pipeVars
<1>4. \A i \in DOMAIN results' : results'[i].ok
  <2>1. CASE results # <<>> /\ results' = Tail(results)
    <3>1. PICK r : r = Tail(results)
      OBVIOUS
    <3>2. /\ results \in Seq(Results) /\ DOMAIN results = 1 .. Len(results) /\ Len(results) \in Nat
          /\ r \in Seq(Results) /\ Len(r) = Len(results) - 1
          /\ \A i \in 1 .. Len(results) - 1 : r[i] = results[i + 1]
      BY <2>1, <3>1, HeadTailProperties, LenProperties DEF FileQueryInductive, PipeTypes
    <3>3. DOMAIN r = 1 .. Len(results) - 1
      BY <3>2, LenProperties
    <3>4. \A i \in DOMAIN r : i + 1 \in DOMAIN results /\ r[i] = results[i + 1]
      BY <3>2, <3>3
    <3>5. QED  BY <2>1, <3>1, <3>4 DEF FlowInv
  <2>2. QED  BY <1>3, <2>1 DEF FlowInv
<1>5. \A v \in Queriers : querier'[v] = "done" => main \notin {"start", "refused"} /\ ResultsEnd'
  <2>1. ResultsEnd => ResultsEnd'
    BY <1>1, <1>3 DEF ResultsEnd
  <2>2. ASSUME querier'[q] = "done" PROVE main \notin {"start", "refused"} /\ ResultsEnd'
    <3>1. QuerierEnds(q)
      <4>1. CASE TakeResult(q)
        BY <1>1, <2>2, <4>1 DEF TakeResult, FileQueryAssumptions, Names
      <4>2. CASE Parse(q)
        BY <1>1, <2>2, <4>2 DEF Parse, queryVars
      <4>3. CASE SendMatches(q)
        BY <1>1, <2>2, <4>3 DEF SendMatches
      <4>4. QED  BY <4>1, <4>2, <4>3 DEF Querier
    <3>2. Live /\ main = "query"
      BY <3>1 DEF QuerierEnds, FlowInv
    <3>3. QED  BY <3>1, <3>2, <2>1 DEF QuerierEnds
  <2>3. QED  BY <1>1, <2>1, <2>2 DEF FlowInv
<1>6. use'[q].at # "failed"
  <2>1. CASE TakeResult(q)
    <3>1. CASE UNCHANGED use
      BY <3>1 DEF FlowInv
    <3>2. ASSUME NEW f \in Files,
                 use' = [use EXCEPT ![q].at = "look", ![q].src = Text[f], ![q].lang = Language[f]]
          PROVE  use'[q].at # "failed"
      BY <1>1, <3>2 DEF Uses
    <3>3. QED  BY <2>1, <3>1, <3>2 DEF TakeResult
  <2>2. CASE Parse(q)
    BY <2>2, Zenon DEF Parse
  <2>3. CASE SendMatches(q)
    BY <1>1, <2>3, UnusedType DEF SendMatches
  <2>4. CASE QuerierEnds(q)
    BY <2>4 DEF QuerierEnds, cacheVars, FlowInv
  <2>5. QED  BY <2>1, <2>2, <2>3, <2>4 DEF Querier
<1>7. QED
  BY <1>1, <1>2, <1>4, <1>5, <1>6 DEF FlowInv, Live, walkVars, mainVars

\* One step of anybody.
LEMMA FlowStep ==
  ASSUME FileQueryAssumptions, FileQueryInductive, FlowInv, [FileQueryNext]_fqVars, ~trouble'
  PROVE  FlowInv'
<1>1. CASE Ageing
  <2>1. UNCHANGED <<use, walkVars, pipeVars, queryVars, mainVars>>
    BY <1>1 DEF Ageing, Pruning, PruneFind, PruneDelete, PruneClose, Expire
  <2>2. QED  BY <2>1 DEF FlowInv, Live, ResultsEnd, walkVars, pipeVars, queryVars, mainVars
<1>2. CASE UNCHANGED fqVars
  BY <1>2 DEF FlowInv, Live, ResultsEnd, fqVars, walkVars, pipeVars, queryVars, mainVars, cacheVars
<1>3. QED
  BY <1>1, <1>2, MainFlow, ScannerFlow, WalkerFlow, QuerierFlow DEF FileQueryNext

-----------------------------------------------------------------------------
(* What is in the scope *)

\* The scope does not change.
LEMMA ScopeStays ==
  ASSUME [FileQueryNext]_fqVars
  PROVE  /\ UNCHANGED scope /\ ReachedFiles' = ReachedFiles
         /\ \A e : IsDir(e)' = IsDir(e) /\ DirOf(e)' = DirOf(e)
         /\ \A S : Covers(S)' = Covers(S)
         /\ \A f \in Files : Ambiguous(f)' = Ambiguous(f)
<1>1. UNCHANGED scope
  BY DEF FileQueryNext, RefuseQuery, StartQuery, CloseMatches, Return, Stop, Scanner, LeaveDir,
     SkipEntry, EnterDir, SendPath, WalkFrame, Collect, Ageing, Walker, TakePath, SendResult,
     WalkerEnds, PipeFrame, Querier, TakeResult, Parse, SendMatches, QuerierEnds, mainVars, fqVars
<1>2. \A e : IsDir(e)' = IsDir(e) /\ DirOf(e)' = DirOf(e)
  BY <1>1 DEF IsDir, DirOf
<1>3. \A S : Covers(S)' = Covers(S)
  BY <1>1 DEF Covers, Steps, IsDir, DirOf
<1>4. ReachedDirs' = ReachedDirs
  BY <1>1, <1>3 DEF ReachedDirs
<1>5. ReachedFiles' = ReachedFiles
  BY <1>1, <1>4 DEF ReachedFiles, IsDir
<1>6. QED  BY <1>1, <1>2, <1>3, <1>5 DEF Ambiguous

\* The members of a sequence after a send, and after a receive.
LEMMA Members ==
  ASSUME NEW X, NEW s \in Seq(X)
  PROVE  /\ \A e \in X : \A i \in DOMAIN Append(s, e) :
              Append(s, e)[i] = e \/ \E j \in DOMAIN s : Append(s, e)[i] = s[j]
         /\ s # <<>> => /\ 1 \in DOMAIN s /\ Head(s) = s[1]
                        /\ \A i \in DOMAIN Tail(s) : \E j \in DOMAIN s : Tail(s)[i] = s[j]
<1>1. Len(s) \in Nat /\ DOMAIN s = 1 .. Len(s)
  BY LenProperties
<1>2. ASSUME NEW e \in X, NEW i \in DOMAIN Append(s, e)
      PROVE  Append(s, e)[i] = e \/ \E j \in DOMAIN s : Append(s, e)[i] = s[j]
  <2>1. PICK a : a = Append(s, e)
    OBVIOUS
  <2>2. /\ a \in Seq(X) /\ Len(a) = Len(s) + 1 /\ a[Len(s) + 1] = e
        /\ \A j \in 1 .. Len(s) : a[j] = s[j]
    BY <2>1, AppendProperties
  <2>3. DOMAIN a = 1 .. Len(s) + 1
    BY <2>2, LenProperties
  <2>4. QED  BY <1>1, <1>2, <2>1, <2>2, <2>3
<1>3. ASSUME s # <<>>
      PROVE  /\ 1 \in DOMAIN s /\ Head(s) = s[1]
             /\ \A i \in DOMAIN Tail(s) : \E j \in DOMAIN s : Tail(s)[i] = s[j]
  <2>1. PICK t : t = Tail(s)
    OBVIOUS
  <2>2. /\ t \in Seq(X) /\ Len(t) = Len(s) - 1 /\ Head(s) = s[1] /\ Len(s) # 0
        /\ \A j \in 1 .. Len(s) - 1 : t[j] = s[j + 1]
    BY <1>3, <2>1, HeadTailProperties, EmptySeq
  <2>3. DOMAIN t = 1 .. Len(s) - 1
    BY <2>2, LenProperties
  <2>4. \A j \in DOMAIN t : j + 1 \in DOMAIN s /\ t[j] = s[j + 1]
    BY <1>1, <2>2, <2>3
  <2>5. QED  BY <1>1, <2>1, <2>2, <2>4
<1>4. QED  BY <1>2, <1>3

\* What the entry the scanner is at leads to is in the scope.
LEMMA LeadsOn ==
  ASSUME FileQueryAssumptions, WalkInv, More, Reached(Pair(Top)), Entry \notin scope.exclude
  PROVE  /\ ~IsDir(Entry) => InScope(Entry)
         /\ IsDir(Entry) /\ (scope.depth = 0 \/ Top.depth < scope.depth) =>
              Reached(<<DirOf(Entry), Steps(Top.depth + 1)>>)
<1>1. /\ Top \in Frames /\ Top.dir \in Dirs /\ Top.depth \in Nat /\ scope.depth \in Nat
      /\ Entry \in ToSet(Listing[Top.dir])
  <2>1. Top \in Frames /\ scope \in Scopes
    BY NextFrame DEF More, WalkInv, WalkTypes
  <2>2. Top.at \in DOMAIN Listing[Top.dir]
    BY EntryTypes DEF WalkInv
  <2>3. QED  BY <2>1, <2>2 DEF Frames, FileQueryAssumptions, ToSet, Entry
<1>2. scope.depth > 0 => Top.depth <= scope.depth
  <2>1. 1 \in DOMAIN stack
    BY Members DEF More, WalkInv, WalkTypes
  <2>2. QED  BY <2>1 DEF WalkInv, Top
<1>3. Steps(Top.depth) \in 0 .. scope.depth
  BY <1>1, <1>2 DEF Steps
<1>4. PICK p : p = Pair(Top)
  OBVIOUS
<1>5. p = <<Top.dir, Steps(Top.depth)>>
  BY <1>4 DEF Pair
<1>6. p[1] = Top.dir /\ p[2] = Steps(Top.depth)
  BY <1>5
<1>7. \A S \in SUBSET (Dirs \X (0 .. scope.depth)) : Covers(S) => p \in S
  BY <1>4 DEF Reached
<1>8. ASSUME ~IsDir(Entry), FileOf(Entry) \in Files PROVE FileOf(Entry) \in ReachedFiles
  <2>1. Top.dir \in ReachedDirs
    <3>1. PICK k \in 0 .. scope.depth : p = <<Top.dir, k>>
      BY <1>3, <1>5
    <3>2. QED  BY <1>1, <1>7, <3>1 DEF ReachedDirs
  <2>2. Entry \in UNION {ToSet(Listing[d]) : d \in ReachedDirs}
    BY <1>1, <2>1
  <2>3. QED  BY <1>8, <2>2 DEF ReachedFiles
<1>9. ASSUME IsDir(Entry), scope.depth = 0 \/ Top.depth < scope.depth,
             NEW S \in SUBSET (Dirs \X (0 .. scope.depth)), Covers(S)
      PROVE  <<DirOf(Entry), Steps(Top.depth + 1)>> \in S
  <2>1. p \in S
    BY <1>7, <1>9
  <2>2. scope.depth = 0 \/ p[2] < scope.depth
    BY <1>6, <1>9 DEF Steps
  <2>3. Entry \in ToSet(Listing[p[1]]) \ scope.exclude
    BY <1>1, <1>6
  <2>4. <<DirOf(Entry), Steps(p[2] + 1)>> \in S
    BY <1>9, <2>1, <2>2, <2>3 DEF Covers
  <2>5. Steps(p[2] + 1) = Steps(Top.depth + 1)
    BY <1>6 DEF Steps
  <2>6. QED  BY <1>6, <2>4, <2>5
<1>10. QED  BY <1>8, <1>9 DEF InScope, Reached

\* The directories on the stack, and on another.
LEMMA NextPairs ==
  ASSUME WalkTypes, stack # <<>>
  PROVE  PairsOf(Next1) = PairsOf(stack)
<1>1. /\ DOMAIN stack = DOMAIN Next1
      /\ \A i \in DOMAIN stack : Next1[i].dir = stack[i].dir /\ Next1[i].depth = stack[i].depth
  BY NextFrame
<1>2. \A i \in DOMAIN stack : Pair(Next1[i]) = Pair(stack[i])
  BY <1>1 DEF Pair
<1>3. QED  BY <1>1, <1>2 DEF PairsOf

\* Without the innermost call.
LEMMA TailPairs ==
  ASSUME WalkTypes, stack # <<>>
  PROVE  PairsOf(stack) = PairsOf(Tail(stack)) \union {Pair(Top)}
<1>1. stack \in Seq(Frames) /\ DOMAIN stack = 1 .. Len(stack) /\ Len(stack) \in Nat \ {0}
  BY NextFrame DEF WalkTypes
<1>2. PICK t : t = Tail(stack)
  OBVIOUS
<1>3. /\ t \in Seq(Frames) /\ Len(t) = Len(stack) - 1
      /\ \A i \in 1 .. Len(stack) - 1 : t[i] = stack[i + 1]
  BY <1>1, <1>2, HeadTailProperties
<1>4. DOMAIN t = 1 .. Len(stack) - 1
  BY <1>3, LenProperties
<1>5. ASSUME NEW i \in DOMAIN stack PROVE Pair(stack[i]) \in PairsOf(t) \union {Pair(Top)}
  <2>1. CASE i = 1
    BY <2>1 DEF Top
  <2>2. CASE i # 1
    <3>1. i - 1 \in DOMAIN t /\ t[i - 1] = stack[i]
      BY <1>1, <1>3, <1>4, <2>2
    <3>2. QED  BY <3>1 DEF PairsOf
  <2>3. QED  BY <2>1, <2>2
<1>6. \A i \in DOMAIN t : i + 1 \in DOMAIN stack /\ t[i] = stack[i + 1]
  BY <1>1, <1>3, <1>4
<1>7. PairsOf(t) \subseteq PairsOf(stack)
  BY <1>6 DEF PairsOf
<1>8. Pair(Top) \in PairsOf(stack)
  BY <1>1 DEF PairsOf, Top
<1>9. PairsOf(stack) \subseteq PairsOf(t) \union {Pair(Top)}
  BY <1>5 DEF PairsOf
<1>10. QED  BY <1>2, <1>7, <1>8, <1>9

\* With a new one.
LEMMA PushPairs ==
  ASSUME NEW s \in Seq(Frames), NEW t \in Frames
  PROVE  PairsOf(<<t>> \o s) = PairsOf(s) \union {Pair(t)}
<1>1. PICK r : r = <<t>> \o s
  OBVIOUS
<1>2. r \in Seq(Frames) /\ Len(r) = Len(s) + 1 /\ r[1] = t /\ \A i \in 2 .. Len(s) + 1 : r[i] = s[i - 1]
  BY <1>1, Pushed
<1>3. Len(s) \in Nat /\ DOMAIN s = 1 .. Len(s) /\ DOMAIN r = 1 .. Len(s) + 1
  BY <1>2, LenProperties
<1>4. \A i \in DOMAIN r : i = 1 \/ (i - 1 \in DOMAIN s /\ r[i] = s[i - 1])
  BY <1>2, <1>3
<1>5. \A i \in DOMAIN s : i + 1 \in DOMAIN r /\ r[i + 1] = s[i]
  <2>1. ASSUME NEW i \in DOMAIN s PROVE i + 1 \in DOMAIN r /\ r[i + 1] = s[i]
    <3>1. i + 1 \in 2 .. Len(s) + 1 /\ (i + 1) - 1 = i
      BY <1>3
    <3>2. QED  BY <1>2, <1>3, <3>1
  <2>2. QED  BY <2>1
<1>6. PairsOf(r) \subseteq PairsOf(s) \union {Pair(t)}
  BY <1>2, <1>4 DEF PairsOf
<1>7. PairsOf(s) \subseteq PairsOf(r)
  BY <1>5 DEF PairsOf
<1>8. Pair(t) \in PairsOf(r)
  BY <1>2, <1>3 DEF PairsOf
<1>9. QED  BY <1>1, <1>6, <1>7, <1>8

\* As the scope stays, so does what is in it.
LEMMA InScopeStays ==
  ASSUME [FileQueryNext]_fqVars
  PROVE  /\ \A e : InScope(e)' = InScope(e)
         /\ \A p : Reached(p)' = Reached(p)
         /\ \A fr : Pair(fr)' = Pair(fr)
BY ScopeStays DEF InScope, Reached, Pair, Steps

\* What the scanner enters and sends is in the scope.
LEMMA ScannerScope ==
  ASSUME FileQueryAssumptions, WalkInv, PipeTypes, ScopeInv, Scanner
  PROVE  /\ \A p \in PairsOf(stack') : Reached(p)
         /\ found' = found \/ (\E r \in Sent : InScope(r.name) /\ found' = Append(found, r))
         /\ paths' = paths \/ (\E e \in Names : InScope(e) /\ paths' = Append(paths, e))
<1>1. WalkTypes /\ stack # <<>> /\ stack \in Seq(Frames)
  BY ScannerCases DEF WalkInv, WalkTypes
<1>2. \A p \in PairsOf(stack) : Reached(p)
  BY DEF ScopeInv, PairsOf
<1>3. PairsOf(Next1) = PairsOf(stack) /\ PairsOf(Tail(stack)) \subseteq PairsOf(stack)
  BY <1>1, NextPairs, TailPairs
<1>4. Reached(Pair(Top))
  BY <1>1, <1>2, TailPairs
<1>5. CASE LeaveDir \/ SkipEntry
  <2>1. PairsOf(<<>>) = {}
    BY DEF PairsOf
  <2>2. stack' \in {Tail(stack), <<>>, Next1} /\ UNCHANGED <<found, paths>>
    BY <1>5 DEF LeaveDir, SkipEntry, WalkFrame, pipeVars
  <2>3. QED  BY <1>2, <1>3, <2>1, <2>2
<1>6. CASE EnterDir
  <2>1. More /\ Entry \notin scope.exclude /\ IsDir(Entry) /\ UNCHANGED <<found, paths>>
    BY <1>6 DEF EnterDir, Scans, WalkFrame, pipeVars
  <2>2. CASE stack' = Next1
    BY <1>2, <1>3, <2>1, <2>2
  <2>3. CASE stack' # Next1
    <3>1. /\ ~(scope.depth > 0 /\ Top.depth + 1 > scope.depth)
          /\ stack' = <<Frame(KeyOf(Entry), Top.depth + 1)>> \o Next1
      BY <1>6, <2>3 DEF EnterDir
    <3>2. Top \in Frames /\ Next1 \in Seq(Frames) /\ KeyOf(Entry) \in Keys
          /\ scope.depth \in Nat
      BY <1>1, <2>1, NextFrame, EntryTypes DEF WalkTypes, FileQueryAssumptions
    <3>3. Top.depth \in Nat
      BY <3>2 DEF Frames
    <3>4. scope.depth = 0 \/ Top.depth < scope.depth
      BY <3>1, <3>2, <3>3
    <3>5. Reached(<<DirOf(Entry), Steps(Top.depth + 1)>>)
      BY <1>4, <2>1, <3>4, LeadsOn
    <3>6. PICK d \in Keys, k \in Nat : d = KeyOf(Entry) /\ k = Top.depth + 1
      BY <3>2, <3>3
    <3>7. PICK t \in Frames : t = Frame(d, k)
      <4>1. Frame(d, k) \in Frames
        BY DEF Frame, Frames, Keys
      <4>2. QED  BY <4>1
    <3>8. Pair(t) = <<DirOf(Entry), Steps(Top.depth + 1)>>
      BY <3>6, <3>7 DEF Frame, Pair, KeyOf
    <3>9. PICK s \in Seq(Frames) : s = Next1
      BY <3>2
    <3>10. stack' = <<t>> \o s
      BY <3>1, <3>6, <3>7, <3>9
    <3>11. PairsOf(stack') = PairsOf(s) \union {Pair(t)}
      BY <3>10, PushPairs
    <3>12. QED  BY <1>2, <1>3, <2>1, <3>5, <3>8, <3>9, <3>11
  <2>4. QED  BY <2>2, <2>3
<1>7. CASE SendPath
  <2>1. More /\ Entry \notin scope.exclude /\ ~IsDir(Entry) /\ stack' \in {Next1, <<>>}
        /\ paths' = Append(paths, Entry)
        /\ found' = Append(found, [name |-> Entry, climb |-> Top.climb, depth |-> Top.depth])
    BY <1>7 DEF SendPath
  <2>2. InScope(Entry) /\ Entry \in Names
    BY <1>1, <1>4, <2>1, LeadsOn, EntryTypes
  <2>3. Top.depth \in Nat /\ Top.climb \in Nat
    BY <1>1, NextFrame DEF Frames
  <2>4. PICK r \in Sent : r = [name |-> Entry, climb |-> Top.climb, depth |-> Top.depth] /\ r.name = Entry
    <3>1. [name |-> Entry, climb |-> Top.climb, depth |-> Top.depth] \in Sent
      BY <2>2, <2>3 DEF Sent
    <3>2. QED  BY <3>1
  <2>5. PairsOf(<<>>) = {}
    BY DEF PairsOf
  <2>6. QED  BY <1>2, <1>3, <2>1, <2>2, <2>4, <2>5
<1>8. QED  BY <1>5, <1>6, <1>7 DEF Scanner

\* The walk begins in the scope.
LEMMA StartScope ==
  ASSUME FileQueryAssumptions, StartQuery
  PROVE  \A p \in PairsOf(stack') : Reached(p)
<1>1. PICK t : t = Frame(RootKey, 0)
  OBVIOUS
<1>2. stack' \in {<<t>>, <<>>} /\ Pair(t) = <<Root, 0>>
  BY <1>1 DEF StartQuery, Pair, Steps, Frame, RootKey
<1>3. PairsOf(<<t>>) = {<<Root, 0>>} /\ PairsOf(<<>>) = {}
  BY <1>2 DEF PairsOf
<1>4. Reached(<<Root, 0>>)
  BY DEF Reached, Covers
<1>5. QED  BY <1>2, <1>3, <1>4

\* One step of anybody.
LEMMA ScopeStep ==
  ASSUME FileQueryAssumptions, FileQueryInductive, ScopeInv, [FileQueryNext]_fqVars
  PROVE  ScopeInv'
<1>1. /\ \A e : InScope(e)' = InScope(e)
      /\ \A p : Reached(p)' = Reached(p)
      /\ \A fr : Pair(fr)' = Pair(fr)
      /\ ReachedFiles' = ReachedFiles
  BY InScopeStays, ScopeStays
<1> DEFINE Walked == /\ \A p \in PairsOf(stack') : Reached(p)
                     /\ \A i \in DOMAIN found' : InScope(found'[i].name)
           Sending == /\ \A i \in DOMAIN paths' : InScope(paths'[i])
                      /\ \A w \in Walkers : walker'[w] \in Names => InScope(walker'[w])
                      /\ \A i \in DOMAIN results' : InScope(results'[i].name)
           Querying == \A q \in Queriers : querier'[q] \in Files => querier'[q] \in ReachedFiles
<1>2. SUFFICES Walked /\ Sending /\ Querying
  <2>1. ASSUME Walked, Sending, Querying PROVE ScopeInv'
    <3>1. \A i \in DOMAIN stack' : Reached(Pair(stack'[i]))
      BY <2>1 DEF PairsOf
    <3>2. QED  BY <1>1, <2>1, <3>1 DEF ScopeInv
  <2>2. QED  BY <2>1
<1>3. UNCHANGED walkVars => Walked
  BY DEF ScopeInv, PairsOf, walkVars
<1>4. UNCHANGED pipeVars => Sending
  BY DEF ScopeInv, pipeVars
<1>5. UNCHANGED querier => Querying
  BY DEF ScopeInv
<1>6. CASE RefuseQuery \/ CloseMatches \/ Return \/ Stop \/ Collect \/ Ageing \/ UNCHANGED fqVars
  <2>1. UNCHANGED <<walkVars, pipeVars, querier>>
    BY <1>6 DEF RefuseQuery, CloseMatches, Return, Stop, Collect, Ageing, fqVars, queryVars
  <2>2. QED  BY <1>3, <1>4, <1>5, <2>1
<1>7. CASE StartQuery
  <2>1. UNCHANGED <<found, pipeVars, querier>>
    BY <1>7 DEF StartQuery, queryVars
  <2>2. Walked
    BY <1>7, <2>1, StartScope DEF ScopeInv
  <2>3. QED  BY <1>4, <1>5, <2>1, <2>2
<1>8. CASE Scanner
  <2>1. UNCHANGED <<walker, results, querier>>
    BY <1>8 DEF Scanner, LeaveDir, SkipEntry, EnterDir, SendPath, WalkFrame, pipeVars, queryVars
  <2>2. /\ \A p \in PairsOf(stack') : Reached(p)
        /\ found' = found \/ (\E r \in Sent : InScope(r.name) /\ found' = Append(found, r))
        /\ paths' = paths \/ (\E e \in Names : InScope(e) /\ paths' = Append(paths, e))
    BY <1>8, ScannerScope DEF FileQueryInductive
  <2>3. found \in Seq(Sent) /\ paths \in Seq(Names)
    BY DEF FileQueryInductive, WalkInv, WalkTypes, PipeTypes
  <2>4. \A i \in DOMAIN found' : InScope(found'[i].name)
    <3>1. CASE found' = found
      BY <3>1 DEF ScopeInv
    <3>2. ASSUME NEW r \in Sent, InScope(r.name), found' = Append(found, r)
          PROVE  \A i \in DOMAIN found' : InScope(found'[i].name)
      <4>1. \A i \in DOMAIN found' : found'[i] = r \/ \E j \in DOMAIN found : found'[i] = found[j]
        BY <2>3, <3>2, Members
      <4>2. QED  BY <3>2, <4>1 DEF ScopeInv
    <3>3. QED  BY <2>2, <3>1, <3>2
  <2>5. \A i \in DOMAIN paths' : InScope(paths'[i])
    <3>1. CASE paths' = paths
      BY <3>1 DEF ScopeInv
    <3>2. ASSUME NEW e \in Names, InScope(e), paths' = Append(paths, e)
          PROVE  \A i \in DOMAIN paths' : InScope(paths'[i])
      <4>1. \A i \in DOMAIN paths' : paths'[i] = e \/ \E j \in DOMAIN paths : paths'[i] = paths[j]
        BY <2>3, <3>2, Members
      <4>2. QED  BY <3>2, <4>1 DEF ScopeInv
    <3>3. QED  BY <2>2, <3>1, <3>2
  <2>6. Sending
    BY <2>1, <2>5 DEF ScopeInv
  <2>7. QED  BY <1>5, <2>1, <2>2, <2>4, <2>6
<1>9. ASSUME NEW w \in Walkers, Walker(w) PROVE Walked /\ Sending /\ Querying
  <2>1. UNCHANGED <<walkVars, querier>> /\ walker \in [Walkers -> {"idle", "done"} \union Names]
        /\ {"idle", "done"} \intersect Names = {} /\ paths \in Seq(Names) /\ results \in Seq(Results)
    BY <1>9 DEF Walker, TakePath, SendResult, WalkerEnds, PipeFrame, queryVars,
       FileQueryInductive, PipeTypes, FileQueryAssumptions
  <2>2. CASE TakePath(w)
    <3>1. /\ paths # <<>> /\ paths' = Tail(paths) /\ UNCHANGED results
          /\ walker' = [walker EXCEPT ![w] = Head(paths)]
      BY <2>2 DEF TakePath
    <3>2. /\ 1 \in DOMAIN paths /\ Head(paths) = paths[1]
          /\ \A i \in DOMAIN paths' : \E j \in DOMAIN paths : paths'[i] = paths[j]
      BY <2>1, <3>1, Members
    <3>3. Sending
      BY <2>1, <3>1, <3>2 DEF ScopeInv
    <3>4. QED  BY <1>3, <1>5, <2>1, <3>3
  <2>3. CASE SendResult(w)
    <3>1. /\ walker[w] \in Names /\ walker' = [walker EXCEPT ![w] = "idle"] /\ UNCHANGED paths
          /\ \E b \in BOOLEAN : results' = Append(results, [name |-> walker[w], ok |-> b])
      BY <2>3 DEF SendResult
    <3>2. PICK e \in Results : e.name = walker[w] /\ results' = Append(results, e)
      BY <3>1 DEF Results
    <3>3. \A i \in DOMAIN results' : results'[i] = e \/ \E j \in DOMAIN results : results'[i] = results[j]
      BY <2>1, <3>2, Members
    <3>4. Sending
      BY <2>1, <3>1, <3>2, <3>3 DEF ScopeInv
    <3>5. QED  BY <1>3, <1>5, <2>1, <3>4
  <2>4. CASE WalkerEnds(w)
    <3>1. walker' = [walker EXCEPT ![w] = "done"] /\ UNCHANGED <<paths, results>>
      BY <2>4 DEF WalkerEnds
    <3>2. Sending
      BY <2>1, <3>1 DEF ScopeInv
    <3>3. QED  BY <1>3, <1>5, <2>1, <3>2
  <2>5. QED  BY <1>9, <2>2, <2>3, <2>4 DEF Walker
<1>10. ASSUME NEW q \in Queriers, Querier(q) PROVE Walked /\ Sending /\ Querying
  <2>1. /\ UNCHANGED <<walkVars, paths, walker>>
        /\ querier \in [Queriers -> {"idle", "done"} \union Files]
        /\ {"idle", "done"} \intersect Files = {} /\ results \in Seq(Results)
    BY <1>10, QuerierBusy DEF FileQueryInductive, PipeTypes, FileQueryAssumptions, Names
  <2>2. CASE TakeResult(q)
    <3>1. PICK r : r = Head(results)
      OBVIOUS
    <3>2. /\ results # <<>> /\ results' = Tail(results)
          /\ \/ UNCHANGED querier
             \/ FileOf(r.name) \in Files /\ querier' = [querier EXCEPT ![q] = FileOf(r.name)]
      BY <2>2, <3>1 DEF TakeResult
    <3>3. /\ 1 \in DOMAIN results /\ r = results[1]
          /\ \A i \in DOMAIN results' : \E j \in DOMAIN results : results'[i] = results[j]
      BY <2>1, <3>1, <3>2, Members
    <3>4. InScope(r.name)
      BY <3>3 DEF ScopeInv
    <3>5. Sending
      BY <2>1, <3>3 DEF ScopeInv
    <3>6. Querying
      <4>1. CASE UNCHANGED querier
        BY <1>5, <4>1
      <4>2. CASE FileOf(r.name) \in Files /\ querier' = [querier EXCEPT ![q] = FileOf(r.name)]
        BY <2>1, <3>4, <4>2 DEF ScopeInv, InScope
      <4>3. QED  BY <3>2, <4>1, <4>2
    <3>7. QED  BY <1>3, <2>1, <3>5, <3>6
  <2>3. CASE Parse(q)
    BY <1>3, <1>4, <1>5, <2>3 DEF Parse, queryVars
  <2>4. CASE SendMatches(q) \/ QuerierEnds(q)
    <3>1. /\ UNCHANGED <<walkVars, pipeVars>>
          /\ \E x \in {"idle", "done"} : querier' = [querier EXCEPT ![q] = x]
      BY <2>4 DEF SendMatches, QuerierEnds
    <3>2. Querying
      BY <2>1, <3>1 DEF ScopeInv
    <3>3. QED  BY <1>3, <1>4, <3>1, <3>2
  <2>5. QED  BY <1>10, <2>2, <2>3, <2>4 DEF Querier
<1>11. QED
  BY <1>6, <1>7, <1>8, <1>9, <1>10 DEF FileQueryNext

-----------------------------------------------------------------------------
(* The language of a tree *)

\* Of the entries stored, none changes its language.
LEMMA LangKept ==
  ASSUME NEW a \in Seq(Asts), NEW n
  PROVE  /\ \A m \in 1 .. Len(a) : [a EXCEPT ![n].open = FALSE][m].lang = a[m].lang
         /\ \A m \in 1 .. Len(a) : [a EXCEPT ![n].old = TRUE][m].lang = a[m].lang
         /\ \A e \in Asts : \A m \in 1 .. Len(a) : Append(a, e)[m].lang = a[m].lang
<1>1. a \in [1 .. Len(a) -> Asts] /\ DOMAIN a = 1 .. Len(a)
  BY LenProperties
<1>2. ASSUME NEW m \in 1 .. Len(a)
      PROVE  /\ [a EXCEPT ![n].open = FALSE][m].lang = a[m].lang
             /\ [a EXCEPT ![n].old = TRUE][m].lang = a[m].lang
  <2>1. a[m] \in Asts
    BY <1>1
  <2>2. [a[m] EXCEPT !.open = FALSE].lang = a[m].lang /\ [a[m] EXCEPT !.old = TRUE].lang = a[m].lang
    BY <2>1 DEF Asts
  <2>3. QED  BY <1>1, <2>1, <2>2
<1>3. \A e \in Asts : \A m \in 1 .. Len(a) : Append(a, e)[m] = a[m]
  BY AppendProperties
<1>4. QED  BY <1>2, <1>3

\* What a step of GetOrParse stores, if anything.
LEMMA StoredEntry ==
  ASSUME CacheTypes, NEW u \in Users, Store(u)
  PROVE  \/ UNCHANGED <<ast, cache>>
         \/ \E e \in Asts : /\ e.lang = use[u].lang /\ ast' = Append(ast, e)
                            /\ cache' = [cache EXCEPT ![use[u].src] = Len(ast) + 1]
<1>1. CASE cache[use[u].src] = 0
  <2>1. use[u].lang \in Languages
    BY DEF CacheTypes, Uses
  <2>2. [lang |-> use[u].lang, old |-> FALSE, open |-> TRUE] \in Asts
    BY <2>1 DEF Asts
  <2>3. PICK e \in Asts : e = [lang |-> use[u].lang, old |-> FALSE, open |-> TRUE]
    BY <2>2
  <2>4. ast' = Append(ast, e) /\ cache' = [cache EXCEPT ![use[u].src] = Len(ast')]
    BY <1>1, <2>3 DEF Store
  <2>5. Len(ast') = Len(ast) + 1
    BY <2>4, Channel DEF CacheTypes
  <2>6. QED  BY <2>3, <2>4, <2>5
<1>2. CASE cache[use[u].src] # 0
  BY <1>2 DEF Store
<1>3. QED  BY <1>1, <1>2

\* What a step does to the entries and to the map.
LEMMA EntriesStep ==
  ASSUME FileQueryAssumptions, CacheTypes, [FileQueryNext]_fqVars
  PROVE  /\ \A m \in 1 .. Len(ast) : ast'[m].lang = ast[m].lang
         /\ \/ \A s \in Sources : cache'[s] \in {0, cache[s]}
            \/ \E q \in Queriers : Store(q)
<1>1. ast \in Seq(Asts) /\ cache \in [Sources -> 0 .. Len(ast)] /\ Users = Queriers
  BY DEF CacheTypes, FileQueryAssumptions
<1>2. ASSUME UNCHANGED <<ast, cache>>
      PROVE  /\ \A m \in 1 .. Len(ast) : ast'[m].lang = ast[m].lang
             /\ \A s \in Sources : cache'[s] \in {0, cache[s]}
  BY <1>2
<1>3. CASE RefuseQuery \/ StartQuery \/ CloseMatches \/ Return \/ Stop \/ Collect
  BY <1>2, <1>3 DEF RefuseQuery, StartQuery, CloseMatches, Return, Stop, Collect, cacheVars
<1>4. CASE Scanner \/ \E w \in Walkers : Walker(w)
  BY <1>2, <1>4 DEF Scanner, LeaveDir, SkipEntry, EnterDir, SendPath, WalkFrame, Walker, TakePath,
     SendResult, WalkerEnds, PipeFrame, cacheVars
<1>5. CASE Ageing
  <2>1. ASSUME NEW n, ast' = [ast EXCEPT ![n].old = TRUE] \/ ast' = [ast EXCEPT ![n].open = FALSE],
               UNCHANGED cache
        PROVE  /\ \A m \in 1 .. Len(ast) : ast'[m].lang = ast[m].lang
               /\ \A s \in Sources : cache'[s] \in {0, cache[s]}
    <3>1. \A m \in 1 .. Len(ast) : /\ [ast EXCEPT ![n].old = TRUE][m].lang = ast[m].lang
                                   /\ [ast EXCEPT ![n].open = FALSE][m].lang = ast[m].lang
      BY <1>1, LangKept
    <3>2. PICK a, b : a = [ast EXCEPT ![n].old = TRUE] /\ b = [ast EXCEPT ![n].open = FALSE]
      OBVIOUS
    <3>3. \A m \in 1 .. Len(ast) : a[m].lang = ast[m].lang /\ b[m].lang = ast[m].lang
      BY <3>1, <3>2
    <3>4. ast' = a \/ ast' = b
      BY <2>1, <3>2
    <3>5. QED  BY <2>1, <3>3, <3>4
  <2>2. CASE \E n \in DOMAIN ast : Expire(n)
    BY <2>1, <2>2 DEF Expire
  <2>3. CASE PruneClose
    BY <2>1, <2>3 DEF PruneClose
  <2>4. CASE PruneDelete
    BY <1>1, <2>4 DEF PruneDelete
  <2>5. CASE \E s \in Sources : PruneFind(s)
    BY <1>2, <2>5 DEF PruneFind
  <2>6. QED  BY <1>5, <2>2, <2>3, <2>4, <2>5 DEF Ageing, Pruning
<1>6. ASSUME NEW q \in Queriers, Querier(q)
      PROVE  /\ \A m \in 1 .. Len(ast) : ast'[m].lang = ast[m].lang
             /\ \/ \A s \in Sources : cache'[s] \in {0, cache[s]}
                \/ \E u \in Queriers : Store(u)
  <2>1. CASE TakeResult(q) \/ SendMatches(q) \/ QuerierEnds(q)
    BY <1>2, <2>1 DEF TakeResult, SendMatches, QuerierEnds, cacheVars
  <2>2. CASE Look(q) \/ CopyTree(q) \/ ParseFails(q)
    BY <1>2, <2>2 DEF Look, CopyTree, ParseFails
  <2>3. CASE Evict(q)
    BY <1>1, <2>3 DEF Evict
  <2>4. CASE CloseOld(q)
    BY <1>1, <2>4, LangKept DEF CloseOld
  <2>5. CASE Store(q)
    <3>1. q \in Users
      BY <1>1
    <3>2. CASE UNCHANGED <<ast, cache>>
      BY <1>2, <3>2
    <3>3. ASSUME NEW e \in Asts, ast' = Append(ast, e)
          PROVE  \A m \in 1 .. Len(ast) : ast'[m].lang = ast[m].lang
      BY <1>1, <3>3, LangKept
    <3>4. \A m \in 1 .. Len(ast) : ast'[m].lang = ast[m].lang
      BY <2>5, <3>1, <3>2, <3>3, StoredEntry
    <3>5. QED  BY <2>5, <3>4
  <2>6. QED  BY <1>6, <2>1, <2>2, <2>3, <2>4, <2>5 DEF Querier, Parse, GetOrParse
<1>7. CASE UNCHANGED fqVars
  BY <1>2, <1>7 DEF fqVars, cacheVars
<1>8. QED  BY <1>3, <1>4, <1>5, <1>6, <1>7 DEF FileQueryNext

\* A goroutine that does not move has the tree of the language it had.
LEMMA UseLangStays ==
  ASSUME NEW f, NEW r, UseLang(f, r), r.at = "copy" => r.n \in 1 .. Len(ast),
         \A m \in 1 .. Len(ast) : ast'[m].lang = ast[m].lang, ReachedFiles' = ReachedFiles
  PROVE  UseLang(f, r)'
BY DEF UseLang, Known

\* A querier takes a file.
LEMMA TakeLang ==
  ASSUME FileQueryAssumptions, FileQueryInductive, NEW q \in Queriers, TakeResult(q),
         querier'[q] \in Files
  PROVE  UseLang(querier[q], use[q])'
<1>1. use \in [Queriers -> Uses] /\ querier \in [Queriers -> {"idle", "done"} \union Files]
  BY QuerierBusy DEF Querier
<1>2. querier[q] = "idle" /\ "idle" \notin Files
  BY DEF TakeResult, FileQueryAssumptions, Names
<1>3. PICK f \in Files : /\ querier' = [querier EXCEPT ![q] = f]
                         /\ use' = [use EXCEPT ![q].at = "look", ![q].src = Text[f], ![q].lang = Language[f]]
  BY <1>2 DEF TakeResult
<1>4. querier'[q] = f /\ use'[q].at = "look" /\ use'[q].src = Text[f] /\ use'[q].lang = Language[f]
  BY <1>1, <1>3 DEF Uses
<1>5. QED  BY <1>4 DEF UseLang, Parsing

\* A step of GetOrParse: the tree it copies is of the language of a file in the
\* scope with this text, and the tree it parses is of the language asked for.
LEMMA ParseLang ==
  ASSUME FileQueryAssumptions, FileQueryInductive, ScopeInv, LangInv, NEW q \in Queriers, Parse(q),
         ReachedFiles' = ReachedFiles, \A m \in 1 .. Len(ast) : ast'[m].lang = ast[m].lang
  PROVE  UseLang(querier[q], use[q])'
<1>1. /\ GetOrParse(q) /\ UNCHANGED querier /\ CacheTypes /\ Users = Queriers
      /\ use \in [Queriers -> Uses] /\ Closer(use[q])
  BY DEF Parse, queryVars, FileQueryInductive, CacheInv, CacheTypes, FileQueryAssumptions
<1>2. querier[q] \in Files
  <2>1. use[q].at # "idle"
    BY <1>1, ParseMoves
  <2>2. QED  BY <2>1 DEF FileQueryInductive, MatchTypes
<1>3. PICK f \in ReachedFiles : f = querier[q]
  BY <1>2 DEF ScopeInv
<1>4. PICK r \in Uses : r = use[q] /\ UseLang(f, r) /\ r.src \in Sources
  BY <1>1, <1>2, <1>3 DEF LangInv, Uses
<1>5. SUFFICES UseLang(f, use[q])'
  BY <1>1, <1>3
<1>6. CASE Look(q)
  <2>1. PICK n, p : n = cache[r.src] /\ p = IF n = 0 THEN "parse" ELSE IF ast[n].old THEN "evict" ELSE "copy"
    OBVIOUS
  <2>2. use' = [use EXCEPT ![q].n = n, ![q].at = p] /\ r.at = "look" /\ UNCHANGED ast
    BY <1>4, <1>6, <2>1 DEF Look
  <2>3. PICK z : z = use'[q]
    OBVIOUS
  <2>4. z.n = n /\ z.at = p /\ z.src = r.src /\ z.lang = r.lang
    BY <1>1, <1>4, <2>2, <2>3 DEF Uses
  <2>5. p = "copy" => Known(r.src, ast[n].lang)
    BY <1>4, <2>1 DEF LangInv
  <2>6. p \in {"parse", "evict", "copy"}
    BY <2>1
  <2>7. z.src = Text[f] /\ z.lang = Language[f] /\ z.at # "got"
    BY <1>4, <2>2, <2>4, <2>6 DEF UseLang, Parsing
  <2>8. z.at = "copy" => Known(z.src, ast[z.n].lang)
    BY <2>4, <2>5
  <2>9. UseLang(f, z)'
    BY <2>2, <2>7, <2>8 DEF UseLang, Known
  <2>10. QED  BY <2>3, <2>9
<1>7. CASE CopyTree(q)
  <2>1. CASE UNCHANGED use
    BY <1>4, <1>7, <2>1 DEF UseLang, Known, CopyTree
  <2>2. CASE Got(q, ast[use[q].n].lang)
    <3>1. PICK l : l = ast[r.n].lang
      OBVIOUS
    <3>2. use' = [use EXCEPT ![q].at = "got", ![q].lang = l] /\ r.at = "copy"
      BY <1>4, <1>7, <2>2, <3>1 DEF Got, CopyTree
    <3>3. PICK z : z = use'[q]
      OBVIOUS
    <3>4. z.at = "got" /\ z.src = r.src /\ z.lang = l
      BY <1>1, <1>4, <3>2, <3>3 DEF Uses
    <3>5. Known(r.src, l) /\ r.src = Text[f]
      BY <1>4, <3>1, <3>2 DEF UseLang
    <3>6. UseLang(f, z)'
      BY <3>4, <3>5 DEF UseLang, Known, Parsing
    <3>7. QED  BY <3>3, <3>6
  <2>3. QED  BY <1>7, <2>1, <2>2 DEF CopyTree
<1>8. ASSUME NEW p \in Places \ {"copy", "idle", "look"}, r.at \in Parsing,
             use' = [use EXCEPT ![q].at = p]
      PROVE  UseLang(f, use[q])'
  <2>1. PICK z : z = use'[q]
    OBVIOUS
  <2>2. z.at = p /\ z.src = r.src /\ z.lang = r.lang
    BY <1>1, <1>4, <1>8, <2>1 DEF Uses
  <2>3. r.src = Text[f] /\ r.lang = Language[f]
    BY <1>4, <1>8 DEF UseLang
  <2>4. Known(z.src, z.lang)
    BY <2>2, <2>3 DEF Known
  <2>5. UseLang(f, z)'
    BY <1>8, <2>2, <2>3, <2>4 DEF UseLang, Known
  <2>6. QED  BY <2>1, <2>5
<1>9. CASE Evict(q) \/ CloseOld(q) \/ Store(q) \/ ParseFails(q)
  <2>1. \E p \in Places \ {"copy", "idle", "look"} :
          use[q].at \in Parsing /\ use' = [use EXCEPT ![q].at = p]
    BY <1>9 DEF Evict, CloseOld, Store, ParseFails, Go, Places, Parsing
  <2>2. QED  BY <1>4, <1>8, <2>1
<1>10. QED  BY <1>1, <1>6, <1>7, <1>9 DEF GetOrParse

\* One step of anybody.
LEMMA LangStep ==
  ASSUME FileQueryAssumptions, FileQueryInductive, ScopeInv, LangInv, [FileQueryNext]_fqVars
  PROVE  LangInv'
<1>1. /\ ReachedFiles' = ReachedFiles
      /\ \A m \in 1 .. Len(ast) : ast'[m].lang = ast[m].lang
      /\ CacheTypes /\ Users = Queriers /\ use \in [Queriers -> Uses]
      /\ cache \in [Sources -> 0 .. Len(ast)]
  BY ScopeStays, EntriesStep DEF FileQueryInductive, CacheInv, CacheTypes, FileQueryAssumptions
<1>2. \A s, l : Known(s, l)' = Known(s, l)
  BY <1>1 DEF Known
<1>3. ASSUME NEW s \in Sources, cache'[s] # 0 PROVE Known(s, ast'[cache'[s]].lang)
  <2>1. CASE \A z \in Sources : cache'[z] \in {0, cache[z]}
    <3>1. cache'[s] = cache[s] /\ cache[s] \in 1 .. Len(ast)
      BY <1>1, <1>3, <2>1
    <3>2. ast'[cache'[s]].lang = ast[cache[s]].lang
      BY <1>1, <3>1
    <3>3. QED  BY <1>3, <3>1, <3>2 DEF LangInv
  <2>2. ASSUME NEW q \in Queriers, Store(q) PROVE Known(s, ast'[cache'[s]].lang)
    <3>1. CASE UNCHANGED <<ast, cache>>
      BY <1>3, <3>1 DEF LangInv
    <3>2. ASSUME NEW e \in Asts, e.lang = use[q].lang, ast' = Append(ast, e),
                 cache' = [cache EXCEPT ![use[q].src] = Len(ast) + 1]
          PROVE  Known(s, ast'[cache'[s]].lang)
      <4>1. CASE s = use[q].src
        <5>1. use[q].at = "parse" /\ querier[q] \in Files
          BY <2>2 DEF Store, FileQueryInductive, MatchTypes
        <5>2. /\ querier[q] \in ReachedFiles
              /\ use[q].src = Text[querier[q]] /\ use[q].lang = Language[querier[q]]
          BY <5>1 DEF ScopeInv, LangInv, UseLang, Parsing
        <5>3. Known(s, e.lang)
          BY <3>2, <4>1, <5>2 DEF Known
        <5>4. cache'[s] = Len(ast) + 1 /\ ast \in Seq(Asts)
          BY <1>1, <3>2, <4>1 DEF CacheTypes
        <5>5. Append(ast, e)[Len(ast) + 1] = e
          BY <5>4, AppendProperties
        <5>6. QED  BY <3>2, <5>3, <5>4, <5>5
      <4>2. CASE s # use[q].src
        <5>1. cache'[s] = cache[s]
          BY <1>1, <3>2, <4>2
        <5>2. cache[s] \in 1 .. Len(ast)
          BY <1>1, <1>3, <5>1
        <5>3. ast'[cache'[s]].lang = ast[cache[s]].lang
          BY <1>1, <5>1, <5>2
        <5>4. QED  BY <1>3, <5>1, <5>3 DEF LangInv
      <4>3. QED  BY <4>1, <4>2
    <3>3. QED  BY <1>1, <2>2, <3>1, <3>2, StoredEntry
  <2>3. QED  BY <2>1, <2>2, EntriesStep, <1>1
<1>4. ASSUME NEW q \in Queriers, querier'[q] \in Files PROVE UseLang(querier[q], use[q])'
  <2>1. CASE querier'[q] = querier[q] /\ use'[q] = use[q]
    <3>1. UseLang(querier[q], use[q]) /\ (use[q].at = "copy" => use[q].n \in 1 .. Len(ast))
      BY <1>4, <2>1 DEF LangInv, FileQueryInductive, CacheInv, Closer, FileQueryAssumptions
    <3>2. PICK f, r : f = querier[q] /\ r = use[q]
      OBVIOUS
    <3>3. UseLang(f, r) /\ (r.at = "copy" => r.n \in 1 .. Len(ast))
      BY <3>1, <3>2
    <3>4. UseLang(f, r)'
      BY <1>1, <3>3, UseLangStays
    <3>5. querier'[q] = f /\ use'[q] = r
      BY <2>1, <3>2
    <3>6. QED  BY <3>4, <3>5
  <2>2. CASE ~(querier'[q] = querier[q] /\ use'[q] = use[q])
    <3>1. Querier(q)
      <4>1. ~UNCHANGED <<querier, use>>
        BY <2>2
      <4>2. \E v \in Queriers : Querier(v)
        BY <4>1 DEF FileQueryNext, RefuseQuery, StartQuery, CloseMatches, Return, Stop, Scanner,
           LeaveDir, SkipEntry, EnterDir, SendPath, WalkFrame, Collect, Ageing, Pruning, PruneFind,
           PruneDelete, PruneClose, Expire, Walker, TakePath, SendResult, WalkerEnds, PipeFrame,
           queryVars, cacheVars, fqVars
      <4>3. QED  BY <2>2, <4>2, QuerierBusy
    <3>2. CASE TakeResult(q)
      BY <1>4, <3>2, TakeLang
    <3>3. CASE Parse(q)
      BY <1>1, <3>3, ParseLang
    <3>4. CASE SendMatches(q) \/ QuerierEnds(q)
      BY <1>4, <3>1, <3>4, QuerierBusy DEF SendMatches, QuerierEnds, FileQueryAssumptions, Names
    <3>5. QED  BY <3>1, <3>2, <3>3, <3>4 DEF Querier
  <2>3. QED  BY <2>1, <2>2
<1>5. QED  BY <1>2, <1>3, <1>4 DEF LangInv

-----------------------------------------------------------------------------
(* Counting the names on their way *)

\* Counts are numbers.
LEMMA HitsNat ==
  ASSUME NEW X, NEW s \in Seq(X), NEW T PROVE Hits(s, T) \in Nat
<1>1. Len(s) \in Nat /\ DOMAIN s = 1 .. Len(s)
  BY LenProperties
<1>2. IsFiniteSet(DOMAIN s)
  BY <1>1, FS_Interval
<1>3. QED  BY <1>2, FS_Subset, FS_CardinalityType DEF Hits

\* So are those over a function.
LEMMA HoldsNat ==
  ASSUME NEW D, IsFiniteSet(D), NEW g, NEW T PROVE Holding(g, D, T) \in Nat
BY FS_Subset, FS_CardinalityType DEF Holding

\* The counts are numbers.
LEMMA CountTypes ==
  ASSUME FileQueryAssumptions, FileQueryInductive, NEW f
  PROVE  /\ Hits(found, SentOf(f)) \in Nat /\ Hits(paths, NamesOf(f)) \in Nat
         /\ Holding(walker, Walkers, NamesOf(f)) \in Nat /\ Hits(results, StatOf(f)) \in Nat
         /\ Holding(querier, Queriers, Only(f)) \in Nat /\ Hits(matches, Only(f)) \in Nat
         /\ Hits(all, Only(f)) \in Nat
<1>1. /\ found \in Seq(Sent) /\ paths \in Seq(Names) /\ results \in Seq(Results)
      /\ matches \in Seq(Files) /\ all \in Seq(Files)
      /\ IsFiniteSet(Walkers) /\ IsFiniteSet(Queriers)
  BY DEF FileQueryInductive, WalkInv, WalkTypes, PipeTypes, MatchTypes, FileQueryAssumptions
<1>2. QED  BY <1>1, HitsNat, HoldsNat

\* A name is sent.
LEMMA CountSent ==
  ASSUME FileQueryAssumptions, FileQueryInductive, SendPath, NEW f \in Files
  PROVE  /\ \/ /\ Hits(found', SentOf(f)) = Hits(found, SentOf(f)) + 1
               /\ Hits(paths', NamesOf(f)) = Hits(paths, NamesOf(f)) + 1
            \/ /\ Hits(found', SentOf(f)) = Hits(found, SentOf(f))
               /\ Hits(paths', NamesOf(f)) = Hits(paths, NamesOf(f))
         /\ UNCHANGED <<walker, results, querier, matches, all>>
<1>1. /\ WalkTypes /\ More /\ paths' = Append(paths, Entry)
      /\ found' = Append(found, [name |-> Entry, climb |-> Top.climb, depth |-> Top.depth])
      /\ UNCHANGED <<walker, results, querier, matches, all>>
  BY DEF SendPath, FileQueryInductive, WalkInv, queryVars
<1>2. Entry \in Names /\ Top.depth \in Nat /\ Top.climb \in Nat
  BY <1>1, EntryTypes, NextFrame DEF More, Frames
<1>3. PICK e, r : e = Entry /\ r = [name |-> Entry, climb |-> Top.climb, depth |-> Top.depth]
  OBVIOUS
<1>4. e \in Names /\ r \in Sent /\ r.name = e
  BY <1>2, <1>3 DEF Sent
<1>5. found \in Seq(Sent) /\ paths \in Seq(Names)
  BY DEF FileQueryInductive, WalkInv, WalkTypes, PipeTypes
<1>6. Hits(Append(found, r), SentOf(f)) =
        IF r \in SentOf(f) THEN Hits(found, SentOf(f)) + 1 ELSE Hits(found, SentOf(f))
  BY <1>4, <1>5, HitsAppend
<1>7. Hits(Append(paths, e), NamesOf(f)) =
        IF e \in NamesOf(f) THEN Hits(paths, NamesOf(f)) + 1 ELSE Hits(paths, NamesOf(f))
  BY <1>4, <1>5, HitsAppend
<1>8. r \in SentOf(f) <=> e \in NamesOf(f)
  BY <1>4 DEF SentOf
<1>9. found' = Append(found, r) /\ paths' = Append(paths, e)
  BY <1>1, <1>3
<1>10. QED  BY <1>1, <1>6, <1>7, <1>8, <1>9

\* What a move of one walker does to the count.
LEMMA WalkerMoved ==
  ASSUME FileQueryAssumptions, PipeTypes, NEW w \in Walkers, NEW x,
         walker' = [walker EXCEPT ![w] = x], NEW f
  PROVE  /\ Holding(walker, Walkers, NamesOf(f)) \in Nat /\ Holding(walker', Walkers, NamesOf(f)) \in Nat
         /\ x \in NamesOf(f) /\ walker[w] \notin NamesOf(f) =>
              Holding(walker', Walkers, NamesOf(f)) = Holding(walker, Walkers, NamesOf(f)) + 1
         /\ x \notin NamesOf(f) /\ walker[w] \in NamesOf(f) =>
              Holding(walker', Walkers, NamesOf(f)) + 1 = Holding(walker, Walkers, NamesOf(f))
         /\ x \notin NamesOf(f) /\ walker[w] \notin NamesOf(f) =>
              Holding(walker', Walkers, NamesOf(f)) = Holding(walker, Walkers, NamesOf(f))
<1>1. PICK T : T = NamesOf(f)
  OBVIOUS
<1>2. PICK A, B : A = {v \in Walkers : walker[v] \in T} /\ B = {v \in Walkers : walker'[v] \in T}
  OBVIOUS
<1>3. IsFiniteSet(A) /\ IsFiniteSet(B)
  BY <1>2, FS_Subset DEF FileQueryAssumptions
<1>4. A \ {w} = B \ {w} /\ (w \in A <=> walker[w] \in T) /\ (w \in B <=> x \in T)
  BY <1>2 DEF PipeTypes
<1>5. Holding(walker, Walkers, T) = Cardinality(A) /\ Holding(walker', Walkers, T) = Cardinality(B)
  BY <1>2 DEF Holding
<1>6. /\ Cardinality(A) \in Nat /\ Cardinality(B) \in Nat
      /\ w \notin A /\ w \notin B => Cardinality(B) = Cardinality(A)
      /\ w \notin A /\ w \in B => Cardinality(B) = Cardinality(A) + 1
      /\ w \in A /\ w \notin B => Cardinality(B) + 1 = Cardinality(A)
  BY <1>3, <1>4, CardMoved
<1>7. QED  BY <1>1, <1>4, <1>5, <1>6

\* The same of a querier.
LEMMA QuerierMoved ==
  ASSUME FileQueryAssumptions, MatchTypes, NEW q \in Queriers, NEW x,
         querier' = [querier EXCEPT ![q] = x], NEW f
  PROVE  /\ Holding(querier, Queriers, Only(f)) \in Nat /\ Holding(querier', Queriers, Only(f)) \in Nat
         /\ x \in Only(f) /\ querier[q] \notin Only(f) =>
              Holding(querier', Queriers, Only(f)) = Holding(querier, Queriers, Only(f)) + 1
         /\ x \notin Only(f) /\ querier[q] \in Only(f) =>
              Holding(querier', Queriers, Only(f)) + 1 = Holding(querier, Queriers, Only(f))
         /\ x \notin Only(f) /\ querier[q] \notin Only(f) =>
              Holding(querier', Queriers, Only(f)) = Holding(querier, Queriers, Only(f))
<1>1. PICK T : T = Only(f)
  OBVIOUS
<1>2. PICK A, B : A = {v \in Queriers : querier[v] \in T} /\ B = {v \in Queriers : querier'[v] \in T}
  OBVIOUS
<1>3. IsFiniteSet(A) /\ IsFiniteSet(B)
  BY <1>2, FS_Subset DEF FileQueryAssumptions
<1>4. A \ {q} = B \ {q} /\ (q \in A <=> querier[q] \in T) /\ (q \in B <=> x \in T)
  BY <1>2 DEF MatchTypes
<1>5. Holding(querier, Queriers, T) = Cardinality(A) /\ Holding(querier', Queriers, T) = Cardinality(B)
  BY <1>2 DEF Holding
<1>6. /\ Cardinality(A) \in Nat /\ Cardinality(B) \in Nat
      /\ q \notin A /\ q \notin B => Cardinality(B) = Cardinality(A)
      /\ q \notin A /\ q \in B => Cardinality(B) = Cardinality(A) + 1
      /\ q \in A /\ q \notin B => Cardinality(B) + 1 = Cardinality(A)
  BY <1>3, <1>4, CardMoved
<1>7. QED  BY <1>1, <1>4, <1>5, <1>6

\* A walker takes a name, or sends its result, or leaves.
LEMMA CountWalked ==
  ASSUME FileQueryAssumptions, FileQueryInductive, FlowInv, NEW w \in Walkers, Walker(w),
         NEW f \in Files
  PROVE  /\ Hits(paths', NamesOf(f)) + Holding(walker', Walkers, NamesOf(f)) + Hits(results', StatOf(f))
            = Hits(paths, NamesOf(f)) + Holding(walker, Walkers, NamesOf(f)) + Hits(results, StatOf(f))
         /\ UNCHANGED <<found, querier, matches, all>>
<1>1. /\ walker \in [Walkers -> {"idle", "done"} \union Names] /\ IsFiniteSet(Walkers)
      /\ paths \in Seq(Names) /\ results \in Seq(Results) /\ {"idle", "done"} \intersect Names = {}
      /\ NamesOf(f) \subseteq Names
  BY DEF FileQueryInductive, PipeTypes, FileQueryAssumptions, NamesOf
<1>2. UNCHANGED <<found, querier, matches, all>>
  BY DEF Walker, TakePath, SendResult, WalkerEnds, PipeFrame, walkVars, queryVars
<1>3. /\ Hits(paths, NamesOf(f)) \in Nat /\ Holding(walker, Walkers, NamesOf(f)) \in Nat
      /\ Hits(results, StatOf(f)) \in Nat
  BY CountTypes
<1>4. CASE TakePath(w)
  <2>1. /\ walker[w] = "idle" /\ paths # <<>> /\ paths' = Tail(paths) /\ UNCHANGED results
        /\ walker' = [walker EXCEPT ![w] = Head(paths)]
    BY <1>4 DEF TakePath
  <2>2. PICK e \in Names : e = Head(paths)
    BY <1>1, <2>1, Channel
  <2>3. /\ Hits(Tail(paths), NamesOf(f)) \in Nat
        /\ Hits(paths, NamesOf(f)) = IF e \in NamesOf(f) THEN Hits(Tail(paths), NamesOf(f)) + 1
                                     ELSE Hits(Tail(paths), NamesOf(f))
    BY <1>1, <2>1, <2>2, HitsTail
  <2>4. walker[w] \notin NamesOf(f)
    BY <1>1, <2>1
  <2>5. Holding(walker', Walkers, NamesOf(f)) =
          IF e \in NamesOf(f) THEN Holding(walker, Walkers, NamesOf(f)) + 1
          ELSE Holding(walker, Walkers, NamesOf(f))
    BY <2>1, <2>2, <2>4, WalkerMoved DEF FileQueryInductive
  <2>6. QED  BY <1>2, <1>3, <2>1, <2>3, <2>5
<1>5. CASE SendResult(w)
  <2>1. /\ walker[w] \in Names /\ UNCHANGED paths /\ walker' = [walker EXCEPT ![w] = "idle"]
        /\ \E b \in BOOLEAN : results' = Append(results, [name |-> walker[w], ok |-> b])
    BY <1>5 DEF SendResult
  <2>2. PICK e \in Results : e.name = walker[w] /\ results' = Append(results, e)
    BY <2>1 DEF Results
  <2>3. Hits(Append(results, e), StatOf(f)) = IF e \in StatOf(f) THEN Hits(results, StatOf(f)) + 1
                                              ELSE Hits(results, StatOf(f))
    BY <1>1, HitsAppend
  <2>4. e \in StatOf(f) <=> walker[w] \in NamesOf(f)
    BY <2>2 DEF StatOf
  <2>5. "idle" \notin NamesOf(f)
    BY <1>1
  <2>6. /\ Holding(walker', Walkers, NamesOf(f)) \in Nat
        /\ Holding(walker, Walkers, NamesOf(f)) =
             IF walker[w] \in NamesOf(f) THEN Holding(walker', Walkers, NamesOf(f)) + 1
             ELSE Holding(walker', Walkers, NamesOf(f))
    BY <2>1, <2>5, WalkerMoved DEF FileQueryInductive
  <2>7. CASE walker[w] \in NamesOf(f)
    BY <1>2, <1>3, <2>1, <2>2, <2>3, <2>4, <2>6, <2>7
  <2>8. CASE walker[w] \notin NamesOf(f)
    BY <1>2, <1>3, <2>1, <2>2, <2>3, <2>4, <2>6, <2>8
  <2>9. QED  BY <2>7, <2>8
<1>6. CASE WalkerEnds(w)
  <2>1. Live /\ walker[w] # "done" /\ UNCHANGED <<paths, results>>
        /\ walker' = [walker EXCEPT ![w] = "done"]
    BY <1>6, FlowDead DEF WalkerEnds, FileQueryInductive
  <2>2. walker[w] = "idle"
    BY <1>6, <2>1 DEF WalkerEnds
  <2>3. "done" \notin NamesOf(f) /\ walker[w] \notin NamesOf(f)
    BY <1>1, <2>2
  <2>4. Holding(walker', Walkers, NamesOf(f)) = Holding(walker, Walkers, NamesOf(f))
    BY <2>1, <2>3, WalkerMoved DEF FileQueryInductive
  <2>5. QED  BY <1>2, <2>1, <2>4
<1>7. QED  BY <1>4, <1>5, <1>6 DEF Walker

\* A querier takes a result: nothing goes wrong, so it takes its file.
LEMMA CountTaken ==
  ASSUME FileQueryAssumptions, FileQueryInductive, FlowInv, NEW q \in Queriers, TakeResult(q),
         ~trouble', NEW f \in Files
  PROVE  Hits(results', StatOf(f)) + Holding(querier', Queriers, Only(f))
         = Hits(results, StatOf(f)) + Holding(querier, Queriers, Only(f))
<1>1. /\ querier \in [Queriers -> {"idle", "done"} \union Files] /\ results \in Seq(Results)
      /\ querier[q] = "idle" /\ results # <<>> /\ results' = Tail(results)
      /\ "idle" \notin Files /\ Dirs \intersect Files = {}
  BY DEF FileQueryInductive, PipeTypes, MatchTypes, TakeResult, FileQueryAssumptions, Names
<1>2. PICK r \in Results : r = Head(results) /\ r.ok
  <2>1. 1 \in DOMAIN results /\ Head(results) = results[1] /\ Head(results) \in Results
    BY <1>1, Members, Channel
  <2>2. QED  BY <2>1 DEF FlowInv
<1>3. /\ Hits(results, StatOf(f)) \in Nat /\ Holding(querier, Queriers, Only(f)) \in Nat
      /\ Hits(Tail(results), StatOf(f)) \in Nat
      /\ Hits(results, StatOf(f)) = IF r \in StatOf(f) THEN Hits(Tail(results), StatOf(f)) + 1
                                    ELSE Hits(Tail(results), StatOf(f))
  BY <1>1, <1>2, CountTypes, HitsTail
<1>4. r \in StatOf(f) <=> FileOf(r.name) = f
  BY <1>2 DEF StatOf, NamesOf, Results
<1>5. CASE FileOf(r.name) \in Dirs /\ UNCHANGED querier
  BY <1>1, <1>3, <1>4, <1>5
<1>6. CASE querier' = [querier EXCEPT ![q] = FileOf(r.name)]
  <2>1. PICK x : x = FileOf(r.name)
    OBVIOUS
  <2>2. querier[q] \notin Only(f) /\ querier' = [querier EXCEPT ![q] = x]
    BY <1>1, <1>6, <2>1 DEF Only
  <2>3. Holding(querier', Queriers, Only(f)) = IF x \in Only(f) THEN Holding(querier, Queriers, Only(f)) + 1
                                               ELSE Holding(querier, Queriers, Only(f))
    BY <2>2, QuerierMoved DEF FileQueryInductive
  <2>4. x \in Only(f) <=> FileOf(r.name) = f
    BY <2>1 DEF Only
  <2>5. QED  BY <1>1, <1>3, <1>4, <2>3, <2>4
<1>7. (FileOf(r.name) \in Dirs /\ UNCHANGED querier) \/ querier' = [querier EXCEPT ![q] = FileOf(r.name)]
  BY <1>2 DEF TakeResult, Goes
<1>8. QED  BY <1>5, <1>6, <1>7

\* A querier sends its file if it has a match, and only then.
LEMMA CountMatched ==
  ASSUME FileQueryAssumptions, FileQueryInductive, FlowInv, LangInv, NEW q \in Queriers,
         SendMatches(q), NEW f \in Files, ~Ambiguous(f)
  PROVE  /\ f \in Matching => Holding(querier', Queriers, Only(f)) + Hits(matches', Only(f))
                              = Holding(querier, Queriers, Only(f)) + Hits(matches, Only(f))
         /\ f \notin Matching => Hits(matches', Only(f)) = Hits(matches, Only(f))
<1>1. /\ querier \in [Queriers -> {"idle", "done"} \union Files] /\ matches \in Seq(Files)
      /\ use[q].at = "got" /\ querier[q] \in Files /\ "idle" \notin Files
      /\ querier' = [querier EXCEPT ![q] = "idle"]
  BY DEF FileQueryInductive, MatchTypes, SendMatches, FlowInv, FileQueryAssumptions, Names
<1>2. PICK g \in Files : g = querier[q]
  BY <1>1
<1>3. \/ matches' = Append(matches, g) /\ (g \in Matching \/ use[q].lang # Language[g])
      \/ UNCHANGED matches /\ (g \in Matching => use[q].lang # Language[g])
  BY <1>1, <1>2 DEF SendMatches
<1>4. Known(Text[g], use[q].lang)
  BY <1>1, <1>2 DEF LangInv, UseLang
<1>5. g = f => use[q].lang = Language[f]
  BY <1>4 DEF Known, Ambiguous
<1>6. /\ Hits(matches, Only(f)) \in Nat /\ Holding(querier, Queriers, Only(f)) \in Nat
      /\ Hits(Append(matches, g), Only(f)) = IF g = f THEN Hits(matches, Only(f)) + 1 ELSE Hits(matches, Only(f))
  <2>1. ASSUME NEW T
        PROVE  Hits(Append(matches, g), T) = IF g \in T THEN Hits(matches, T) + 1 ELSE Hits(matches, T)
    BY <1>1, <1>2, HitsAppend
  <2>2. QED  BY <2>1, CountTypes DEF Only
<1>7. /\ g # f => Holding(querier', Queriers, Only(f)) = Holding(querier, Queriers, Only(f))
      /\ g = f => Holding(querier', Queriers, Only(f)) + 1 = Holding(querier, Queriers, Only(f))
      /\ Holding(querier', Queriers, Only(f)) \in Nat
  <2>1. "idle" \notin Only(f) /\ (querier[q] \in Only(f) <=> g = f)
    BY <1>1, <1>2 DEF Only
  <2>2. /\ querier[q] \in Only(f) => Holding(querier', Queriers, Only(f)) + 1 = Holding(querier, Queriers, Only(f))
        /\ querier[q] \notin Only(f) => Holding(querier', Queriers, Only(f)) = Holding(querier, Queriers, Only(f))
        /\ Holding(querier', Queriers, Only(f)) \in Nat
    BY <1>1, <2>1, QuerierMoved DEF FileQueryInductive
  <2>3. QED  BY <2>1, <2>2
<1>8. CASE g = f
  <2>1. CASE f \in Matching
    <3>1. matches' = Append(matches, g)
      BY <1>3, <1>5, <1>8, <2>1
    <3>2. QED  BY <1>6, <1>7, <1>8, <2>1, <3>1
  <2>2. CASE f \notin Matching
    BY <1>3, <1>5, <1>8, <2>2
  <2>3. QED  BY <2>1, <2>2
<1>9. CASE g # f
  <2>1. Hits(matches', Only(f)) = Hits(matches, Only(f))
    BY <1>3, <1>6, <1>9
  <2>2. QED  BY <1>7, <1>9, <2>1
<1>10. QED  BY <1>8, <1>9

\* The collector takes a match.
LEMMA CountCollected ==
  ASSUME FileQueryAssumptions, FileQueryInductive, Collect, NEW f
  PROVE  /\ Hits(matches', Only(f)) + Hits(all', Only(f)) = Hits(matches, Only(f)) + Hits(all, Only(f))
         /\ Hits(matches', Only(f)) \in Nat /\ Hits(all', Only(f)) \in Nat
<1>1. /\ matches # <<>> /\ all' = Append(all, Head(matches)) /\ matches' = Tail(matches)
      /\ matches \in Seq(Files) /\ all \in Seq(Files)
  BY DEF Collect, FileQueryInductive, MatchTypes
<1>2. PICK g \in Files : g = Head(matches)
  BY <1>1, Channel
<1>3. /\ Hits(Tail(matches), Only(f)) \in Nat
      /\ Hits(matches, Only(f)) = IF g = f THEN Hits(Tail(matches), Only(f)) + 1 ELSE Hits(Tail(matches), Only(f))
  <2>1. g \in Only(f) <=> g = f
    BY DEF Only
  <2>2. QED  BY <1>1, <1>2, <2>1, HitsTail
<1>4. /\ Hits(all, Only(f)) \in Nat
      /\ Hits(Append(all, g), Only(f)) = IF g = f THEN Hits(all, Only(f)) + 1 ELSE Hits(all, Only(f))
  <2>1. g \in Only(f) <=> g = f
    BY DEF Only
  <2>2. QED  BY <1>1, <2>1, HitsAppend
<1>5. all' = Append(all, g)
  BY <1>1, <1>2
<1>6. QED  BY <1>1, <1>3, <1>4, <1>5

\* One step of anybody.
LEMMA CountStep ==
  ASSUME FileQueryAssumptions, FileQueryInductive, ScopeInv, LangInv, FlowInv, CountInv,
         [FileQueryNext]_fqVars, ~trouble', FileQueryInductive'
  PROVE  CountInv'
<1>1. SUFFICES ASSUME NEW f \in Files, ~Ambiguous(f)
               PROVE  IF f \in Matching THEN Hits(found', SentOf(f)) = OnTheWay(f)'
                      ELSE Hits(matches', Only(f)) = 0 /\ Hits(all', Only(f)) = 0
  BY ScopeStays DEF CountInv
<1>2. IF f \in Matching THEN Hits(found, SentOf(f)) = OnTheWay(f)
      ELSE Hits(matches, Only(f)) = 0 /\ Hits(all, Only(f)) = 0
  BY <1>1 DEF CountInv
<1>3. /\ Hits(found, SentOf(f)) \in Nat /\ Hits(paths, NamesOf(f)) \in Nat
      /\ Holding(walker, Walkers, NamesOf(f)) \in Nat /\ Hits(results, StatOf(f)) \in Nat
      /\ Holding(querier, Queriers, Only(f)) \in Nat /\ Hits(matches, Only(f)) \in Nat
      /\ Hits(all, Only(f)) \in Nat
  BY CountTypes
<1> /\ Hits(found', SentOf(f)) \in Nat /\ Hits(paths', NamesOf(f)) \in Nat
    /\ Holding(walker', Walkers, NamesOf(f)) \in Nat /\ Hits(results', StatOf(f)) \in Nat
    /\ Holding(querier', Queriers, Only(f)) \in Nat /\ Hits(matches', Only(f)) \in Nat
    /\ Hits(all', Only(f)) \in Nat
  <2>1. /\ found' \in Seq(Sent) /\ paths' \in Seq(Names) /\ results' \in Seq(Results)
        /\ matches' \in Seq(Files) /\ all' \in Seq(Files)
        /\ IsFiniteSet(Walkers) /\ IsFiniteSet(Queriers)
    BY DEF FileQueryInductive, WalkInv, WalkTypes, PipeTypes, MatchTypes, FileQueryAssumptions
  <2>2. QED  BY <2>1, HitsNat, HoldsNat
<1>4. CASE UNCHANGED <<found, pipeVars, querier, matches, all>>
  BY <1>2, <1>4 DEF OnTheWay, pipeVars
<1>5. CASE RefuseQuery \/ StartQuery \/ CloseMatches \/ Return \/ Stop \/ Ageing \/ UNCHANGED fqVars
  BY <1>4, <1>5 DEF RefuseQuery, StartQuery, CloseMatches, Return, Stop, Ageing, walkVars, queryVars, fqVars
<1>6. CASE LeaveDir \/ SkipEntry \/ EnterDir
  BY <1>4, <1>6 DEF LeaveDir, SkipEntry, EnterDir, WalkFrame, queryVars
<1>7. CASE SendPath
  <2>1. /\ \/ /\ Hits(found', SentOf(f)) = Hits(found, SentOf(f)) + 1
              /\ Hits(paths', NamesOf(f)) = Hits(paths, NamesOf(f)) + 1
           \/ /\ Hits(found', SentOf(f)) = Hits(found, SentOf(f))
              /\ Hits(paths', NamesOf(f)) = Hits(paths, NamesOf(f))
        /\ UNCHANGED <<walker, results, querier, matches, all>>
    BY <1>7, CountSent
  <2>2. CASE f \in Matching
    <3>1. Hits(found, SentOf(f)) = OnTheWay(f)
      BY <1>2, <2>2
    <3>2. OnTheWay(f)' = Hits(paths', NamesOf(f)) + Holding(walker, Walkers, NamesOf(f))
            + Hits(results, StatOf(f)) + Holding(querier, Queriers, Only(f))
            + Hits(matches, Only(f)) + Hits(all, Only(f))
      BY <2>1 DEF OnTheWay
    <3>3. CASE /\ Hits(found', SentOf(f)) = Hits(found, SentOf(f)) + 1
               /\ Hits(paths', NamesOf(f)) = Hits(paths, NamesOf(f)) + 1
      <4>1. PICK n, w, r, q, m, a \in Nat :
              /\ n = Hits(paths, NamesOf(f)) /\ w = Holding(walker, Walkers, NamesOf(f))
              /\ r = Hits(results, StatOf(f)) /\ q = Holding(querier, Queriers, Only(f))
              /\ m = Hits(matches, Only(f)) /\ a = Hits(all, Only(f))
        BY <1>3
      <4>2. OnTheWay(f) = n + w + r + q + m + a /\ OnTheWay(f)' = (n + 1) + w + r + q + m + a
        BY <3>2, <3>3, <4>1 DEF OnTheWay
      <4>3. OnTheWay(f)' = OnTheWay(f) + 1
        BY <4>2
      <4>4. QED  BY <2>2, <3>1, <3>3, <4>3
    <3>4. CASE /\ Hits(found', SentOf(f)) = Hits(found, SentOf(f))
               /\ Hits(paths', NamesOf(f)) = Hits(paths, NamesOf(f))
      BY <2>2, <3>1, <3>2, <3>4 DEF OnTheWay
    <3>5. QED  BY <2>1, <3>3, <3>4
  <2>3. CASE f \notin Matching
    BY <1>2, <2>1, <2>3
  <2>4. QED  BY <2>2, <2>3
<1>8. ASSUME NEW w \in Walkers, Walker(w)
      PROVE  IF f \in Matching THEN Hits(found', SentOf(f)) = OnTheWay(f)'
             ELSE Hits(matches', Only(f)) = 0 /\ Hits(all', Only(f)) = 0
  <2>1. /\ Hits(paths', NamesOf(f)) + Holding(walker', Walkers, NamesOf(f)) + Hits(results', StatOf(f))
           = Hits(paths, NamesOf(f)) + Holding(walker, Walkers, NamesOf(f)) + Hits(results, StatOf(f))
        /\ UNCHANGED <<found, querier, matches, all>>
    BY <1>8, CountWalked
  <2>2. CASE f \in Matching
    BY <1>2, <1>3, <2>1, <2>2 DEF OnTheWay
  <2>3. CASE f \notin Matching
    BY <1>2, <2>1, <2>3
  <2>4. QED  BY <2>2, <2>3
<1>9. CASE Collect
  <2>1. UNCHANGED <<found, paths, walker, results, querier>>
    BY <1>9 DEF Collect, walkVars, pipeVars
  <2>2. /\ Hits(matches', Only(f)) + Hits(all', Only(f)) = Hits(matches, Only(f)) + Hits(all, Only(f))
        /\ Hits(matches', Only(f)) \in Nat /\ Hits(all', Only(f)) \in Nat
    BY <1>9, CountCollected
  <2>3. CASE f \in Matching
    BY <1>2, <1>3, <2>1, <2>2, <2>3 DEF OnTheWay
  <2>4. CASE f \notin Matching
    <3>1. Hits(matches, Only(f)) = 0 /\ Hits(all, Only(f)) = 0
      BY <1>2, <2>4
    <3>2. Hits(matches', Only(f)) + Hits(all', Only(f)) = 0
      BY <2>2, <3>1
    <3>3. Hits(matches', Only(f)) = 0 /\ Hits(all', Only(f)) = 0
      BY <2>2, <3>2
    <3>4. QED  BY <2>4, <3>3
  <2>5. QED  BY <2>3, <2>4
<1>10. ASSUME NEW q \in Queriers, Querier(q)
       PROVE  IF f \in Matching THEN Hits(found', SentOf(f)) = OnTheWay(f)'
              ELSE Hits(matches', Only(f)) = 0 /\ Hits(all', Only(f)) = 0
  <2>1. CASE TakeResult(q)
    <3>1. UNCHANGED <<found, paths, walker, matches, all>>
      BY <2>1 DEF TakeResult, walkVars
    <3>2. Hits(results', StatOf(f)) + Holding(querier', Queriers, Only(f))
          = Hits(results, StatOf(f)) + Holding(querier, Queriers, Only(f))
      BY <2>1, CountTaken
    <3>3. CASE f \in Matching
      <4>1. Hits(found, SentOf(f)) = OnTheWay(f)
        BY <1>2, <3>3
      <4>2. /\ OnTheWay(f) = Hits(paths, NamesOf(f)) + Holding(walker, Walkers, NamesOf(f))
                 + Hits(results, StatOf(f)) + Holding(querier, Queriers, Only(f))
                 + Hits(matches, Only(f)) + Hits(all, Only(f))
            /\ OnTheWay(f)' = Hits(paths, NamesOf(f)) + Holding(walker, Walkers, NamesOf(f))
                 + Hits(results', StatOf(f)) + Holding(querier', Queriers, Only(f))
                 + Hits(matches, Only(f)) + Hits(all, Only(f))
        BY <3>1 DEF OnTheWay
      <4>3. PICK n, w, m, a, r1, q1, r2, q2 \in Nat :
              /\ n = Hits(paths, NamesOf(f)) /\ w = Holding(walker, Walkers, NamesOf(f))
              /\ m = Hits(matches, Only(f)) /\ a = Hits(all, Only(f))
              /\ r1 = Hits(results, StatOf(f)) /\ q1 = Holding(querier, Queriers, Only(f))
              /\ r2 = Hits(results', StatOf(f)) /\ q2 = Holding(querier', Queriers, Only(f))
        BY <1>3
      <4>4. r2 + q2 = r1 + q1
        BY <3>2, <4>3
      <4>5. n + w + r2 + q2 + m + a = n + w + r1 + q1 + m + a
        BY <4>4
      <4>6. OnTheWay(f)' = OnTheWay(f)
        BY <4>2, <4>3, <4>5
      <4>7. QED  BY <3>1, <3>3, <4>1, <4>6
    <3>4. CASE f \notin Matching
      BY <1>2, <3>1, <3>4
    <3>5. QED  BY <3>3, <3>4
  <2>2. CASE Parse(q)
    BY <1>4, <2>2 DEF Parse, walkVars, queryVars
  <2>3. CASE SendMatches(q)
    <3>1. UNCHANGED <<found, paths, walker, results, all>>
      BY <2>3 DEF SendMatches, walkVars, pipeVars
    <3>2. /\ f \in Matching => Holding(querier', Queriers, Only(f)) + Hits(matches', Only(f))
                                = Holding(querier, Queriers, Only(f)) + Hits(matches, Only(f))
          /\ f \notin Matching => Hits(matches', Only(f)) = Hits(matches, Only(f))
      BY <1>1, <2>3, CountMatched
    <3>3. QED  BY <1>2, <1>3, <3>1, <3>2 DEF OnTheWay
  <2>4. CASE QuerierEnds(q)
    <3>1. /\ UNCHANGED <<found, paths, walker, results, matches, all>> /\ querier[q] = "idle"
          /\ querier' = [querier EXCEPT ![q] = "done"] /\ {"idle", "done"} \intersect Files = {}
          /\ querier \in [Queriers -> {"idle", "done"} \union Files]
      BY <2>4 DEF QuerierEnds, walkVars, pipeVars, FileQueryAssumptions, Names, FileQueryInductive, MatchTypes
    <3>2. "done" \notin Only(f) /\ querier[q] \notin Only(f)
      BY <3>1 DEF Only
    <3>3. Holding(querier', Queriers, Only(f)) = Holding(querier, Queriers, Only(f))
      BY <3>1, <3>2, QuerierMoved DEF FileQueryInductive
    <3>4. QED  BY <1>2, <1>3, <3>1, <3>3 DEF OnTheWay
  <2>5. QED  BY <1>10, <2>1, <2>2, <2>3, <2>4 DEF Querier
<1>11. QED
  BY <1>5, <1>6, <1>7, <1>8, <1>9, <1>10 DEF FileQueryNext, Scanner

-----------------------------------------------------------------------------
(* The scanner passes over nothing *)

\* What is settled stays so as more is met and sent.
LEMMA SettledGrows ==
  ASSUME NEW S, NEW s, NEW T, NEW F, NEW U, NEW G, T \subseteq U, F \subseteq G
  PROVE  /\ LeftSettled(S, T, F) => LeftSettled(S, U, G)
         /\ StackSettled(s, T, F) => StackSettled(s, U, G)
<1>1. ASSUME NEW e, NEW p, Settled(e, p, T, F) PROVE Settled(e, p, U, G)
  BY <1>1 DEF Settled
<1>2. QED  BY <1>1 DEF LeftSettled, StackSettled

\* It is enough to look at the stack after the step.
LEMMA ScanMoved ==
  ASSUME [FileQueryNext]_fqVars, NEW S, NEW s, NEW T, NEW F,
         s = stack', T = S \union PairsOf(s), F = FoundNames',
         LeftSettled(S, T, F), StackSettled(s, T, F),
         main' \notin {"start", "refused"} => <<Root, 0>> \in T,
         scope.follow => \A d \in visited' : <<d.dir, 0>> \in T
  PROVE  Scanned(S)'
<1>1. /\ UNCHANGED scope /\ \A fr : Pair(fr)' = Pair(fr)
      /\ \A e : IsDir(e)' = IsDir(e) /\ DirOf(e)' = DirOf(e)
  BY ScopeStays, InScopeStays
<1>2. ASSUME NEW e, NEW p PROVE Settled(e, p, T, F)' <=> Settled(e, p, T, F)
  BY <1>1 DEF Settled, Steps
<1>3. PairsOf(stack)' = PairsOf(s)
  BY <1>1 DEF PairsOf
<1>4. Met(S)' = T
  BY <1>3 DEF Met
<1>5. LeftSettled(S, T, F)'
  BY <1>2 DEF LeftSettled
<1>6. StackSettled(s, T, F)'
  BY <1>1, <1>2 DEF StackSettled
<1>7. LeftSettled(S, Met(S), FoundNames)'
  BY <1>4, <1>5
<1>8. StackSettled(stack, Met(S), FoundNames)'
  BY <1>4, <1>6
<1>9. QED  BY <1>1, <1>4, <1>7, <1>8 DEF Scanned

\* The scanner goes on to the next entry.
LEMMA NextSettled ==
  ASSUME FileQueryAssumptions, WalkTypes, More, NEW T, NEW F, StackSettled(stack, T, F), Settled(Entry, Pair(Top), T, F)
  PROVE  StackSettled(Next1, T, F)
<1>1. PICK n : n = Next1
  OBVIOUS
<1>2. /\ DOMAIN stack = DOMAIN n /\ stack \in Seq(Frames) /\ Top \in Frames
      /\ \A i \in DOMAIN stack : n[i].dir = stack[i].dir /\ n[i].depth = stack[i].depth
  BY <1>1, NextFrame DEF More, WalkTypes
<1>3. n[1].at = Top.at + 1 /\ \A i \in DOMAIN stack : i # 1 => n[i] = stack[i]
  <2>1. /\ n[1].at = Top.at + 1 /\ \A i \in 2 .. Len(stack) : n[i] = stack[i]
        /\ Len(stack) \in Nat /\ DOMAIN stack = 1 .. Len(stack)
    BY <1>1, NextFrame DEF More
  <2>2. QED  BY <2>1
<1>4. \A i \in DOMAIN stack : Pair(n[i]) = Pair(stack[i])
  BY <1>2 DEF Pair
<1>5. ASSUME NEW i \in DOMAIN stack, NEW k \in DOMAIN Listing[stack[i].dir], k < n[i].at
      PROVE  Settled(Listing[stack[i].dir][k], Pair(stack[i]), T, F)
  <2>1. CASE i # 1
    BY <1>3, <1>5, <2>1 DEF StackSettled
  <2>2. CASE i = 1
    <3>1. stack[i] = Top /\ Top.at \in Nat
      BY <1>2, <2>2 DEF Top, Frames
    <3>2. CASE k = Top.at
      BY <3>1, <3>2 DEF Entry
    <3>3. CASE k # Top.at
      <4>1. k < stack[i].at
        <5>1. k \in Nat
          <6>1. Listing[stack[i].dir] \in Seq(Names)
            BY <1>2, <3>1 DEF Frames, FileQueryAssumptions
          <6>2. QED  BY <6>1, LenProperties
        <5>2. QED  BY <1>3, <1>5, <2>2, <3>1, <3>3, <5>1
      <4>2. QED  BY <4>1 DEF StackSettled
    <3>4. QED  BY <3>2, <3>3
  <2>3. QED  BY <2>1, <2>2
<1>6. StackSettled(n, T, F)
  BY <1>2, <1>4, <1>5 DEF StackSettled
<1>7. QED  BY <1>1, <1>6

\* Where the scanner is, counted as the scope counts.
LEMMA TopPlace ==
  ASSUME FileQueryAssumptions, WalkInv, stack # <<>>
  PROVE  /\ Pair(Top) \in Dirs \X (0 .. scope.depth) /\ Pair(Top) \in PairsOf(stack)
         /\ Top.dir \in Dirs /\ Top.depth \in Nat /\ Top.climb \in Nat /\ scope.depth \in Nat
<1>1. Top.dir \in Dirs /\ Top.depth \in Nat /\ Top.climb \in Nat /\ scope.depth \in Nat
  <2>1. Top \in Frames /\ scope \in Scopes
    BY NextFrame DEF WalkInv, WalkTypes
  <2>2. QED  BY <2>1 DEF Frames, FileQueryAssumptions
<1>2. scope.depth > 0 => Top.depth <= scope.depth
  <2>1. 1 \in DOMAIN stack
    BY Members DEF WalkInv, WalkTypes
  <2>2. QED  BY <2>1 DEF WalkInv, Top
<1>3. Steps(Top.depth) \in 0 .. scope.depth
  BY <1>1, <1>2 DEF Steps
<1>4. Pair(Top) \in PairsOf(stack)
  BY TailPairs DEF WalkInv
<1>5. QED  BY <1>1, <1>3, <1>4 DEF Pair

\* The scanner leaves a directory when it is past all its entries.
LEMMA LeaveScan ==
  ASSUME FileQueryAssumptions, FileQueryInductive, FlowInv, FileQueryNext, LeaveDir, scope.files = 0,
         NEW S \in SUBSET (Dirs \X (0 .. scope.depth)), Scanned(S)
  PROVE  \E U \in SUBSET (Dirs \X (0 .. scope.depth)) : Scanned(U)'
<1>1. /\ WalkInv /\ WalkTypes /\ MainTypes /\ stack # <<>>
      /\ UNCHANGED <<visited, found, main>>
  BY DEF LeaveDir, FileQueryInductive, WalkInv, WalkFrame, mainVars
<1>2. ~(Top.at <= Len(Listing[Top.dir])) /\ stack' = Tail(stack)
  <2>1. Live
    <3>1. main # "refused"
      BY <1>1 DEF FlowInv
    <3>2. QED  BY <1>1, <3>1, FlowDead
  <2>2. ~Full
    BY DEF Full
  <2>3. QED  BY <1>1, <2>1, <2>2 DEF LeaveDir, More
<1>3. PICK p : p = Pair(Top)
  OBVIOUS
<1>4. PICK U : U = S \union {p}
  OBVIOUS
<1>5. U \in SUBSET (Dirs \X (0 .. scope.depth))
  BY <1>1, <1>3, <1>4, TopPlace
<1>6. PICK s, T, F : s = stack' /\ T = Met(S) /\ F = FoundNames
  OBVIOUS
<1>7. T = U \union PairsOf(s)
  BY <1>1, <1>2, <1>3, <1>4, <1>6, TailPairs DEF Met
<1>8. LeftSettled(S, T, F) /\ StackSettled(stack, T, F)
  BY <1>6 DEF Scanned
<1>9. ASSUME NEW k \in DOMAIN Listing[p[1]] PROVE Settled(Listing[p[1]][k], p, T, F)
  <2>1. p[1] = Top.dir
    BY <1>3 DEF Pair
  <2>2. 1 \in DOMAIN stack /\ stack[1] = Top /\ Top.at \in Nat /\ Top.dir \in Dirs
    BY <1>1, NextFrame DEF Top, Frames
  <2>3. Listing[Top.dir] \in Seq(Names)
    BY <2>2 DEF FileQueryAssumptions
  <2>4. k \in 1 .. Len(Listing[Top.dir]) /\ Len(Listing[Top.dir]) \in Nat
    BY <2>1, <2>3, LenProperties
  <2>5. k < Top.at
    BY <1>2, <2>2, <2>4
  <2>6. QED  BY <1>3, <1>8, <2>1, <2>2, <2>5 DEF StackSettled
<1>10. LeftSettled(U, T, F)
  <2>1. ASSUME NEW u \in U, NEW k \in DOMAIN Listing[u[1]] PROVE Settled(Listing[u[1]][k], u, T, F)
    <3>1. CASE u \in S
      BY <1>8, <3>1 DEF LeftSettled
    <3>2. CASE u = p
      BY <1>9, <3>2
    <3>3. QED  BY <1>4, <3>1, <3>2
  <2>2. QED  BY <2>1 DEF LeftSettled
<1>11. StackSettled(s, T, F)
  <2>1. /\ s \in Seq(Frames) /\ Len(s) = Len(stack) - 1 /\ Len(stack) \in Nat \ {0}
        /\ DOMAIN stack = 1 .. Len(stack) /\ \A i \in 1 .. Len(stack) - 1 : s[i] = stack[i + 1]
    BY <1>1, <1>2, <1>6, NextFrame, HeadTailProperties DEF WalkTypes
  <2>2. DOMAIN s = 1 .. Len(stack) - 1
    BY <2>1, LenProperties
  <2>3. \A i \in DOMAIN s : i + 1 \in DOMAIN stack /\ s[i] = stack[i + 1]
    BY <2>1, <2>2
  <2>4. QED  BY <1>8, <2>3 DEF StackSettled
<1>12. FoundNames' = F
  BY <1>1, <1>6 DEF FoundNames
<1>13. /\ main' \notin {"start", "refused"} => <<Root, 0>> \in T
       /\ scope.follow => \A d \in visited' : <<d.dir, 0>> \in T
  BY <1>1, <1>6 DEF Scanned
<1>14. Scanned(U)'
  BY <1>6, <1>7, <1>10, <1>11, <1>12, <1>13, ScanMoved
<1>15. QED  BY <1>5, <1>14

\* The scanner goes on, and has settled the entry.
LEMMA OnScan ==
  ASSUME FileQueryAssumptions, FileQueryInductive, FileQueryNext, More, UNCHANGED main,
         NEW S, Scanned(S), NEW s, s = stack', NEW T, T = S \union PairsOf(s), NEW F, F = FoundNames',
         StackSettled(Next1, T, F) => StackSettled(s, T, F),
         Met(S) \subseteq T, FoundNames \subseteq F, Settled(Entry, Pair(Top), T, F),
         scope.follow => \A d \in visited' \ visited : <<d.dir, 0>> \in T
  PROVE  Scanned(S)'
<1>1. WalkTypes
  BY DEF FileQueryInductive, WalkInv
<1>2. PICK M, G : M = Met(S) /\ G = FoundNames
  OBVIOUS
<1>3. LeftSettled(S, M, G) /\ StackSettled(stack, M, G) /\ M \subseteq T /\ G \subseteq F
  BY <1>2 DEF Scanned
<1>4. LeftSettled(S, T, F)
  BY <1>3, SettledGrows
<1>5. StackSettled(stack, T, F)
  <2>1. PICK r : r = stack
    OBVIOUS
  <2>2. StackSettled(r, M, G) => StackSettled(r, T, F)
    BY <1>3, SettledGrows
  <2>3. QED  BY <1>3, <2>1, <2>2
<1>6. StackSettled(s, T, F)
  BY <1>1, <1>5, NextSettled
<1>7. /\ main' \notin {"start", "refused"} => <<Root, 0>> \in T
      /\ scope.follow => \A d \in visited' : <<d.dir, 0>> \in T
  BY <1>2, <1>3 DEF Scanned
<1>8. QED  BY <1>4, <1>6, <1>7, ScanMoved

\* An entry is skipped because it is excluded or was met before.
LEMMA SkipScan ==
  ASSUME FileQueryAssumptions, FileQueryInductive, FileQueryNext, SkipEntry,
         ~(scope.follow /\ scope.depth > 0), NEW S, Scanned(S)
  PROVE  Scanned(S)'
<1>1. /\ WalkTypes /\ WalkInv /\ More /\ stack # <<>> /\ stack' = Next1 /\ UNCHANGED <<visited, found, main>>
  BY DEF SkipEntry, FileQueryInductive, WalkInv, WalkFrame, mainVars, Scans, More
<1>2. PICK s, T, F : s = stack' /\ T = S \union PairsOf(s) /\ F = FoundNames'
  OBVIOUS
<1>3. T = Met(S) /\ FoundNames = F
  BY <1>1, <1>2, NextPairs DEF Met, FoundNames
<1>4. StackSettled(Next1, T, F) => StackSettled(s, T, F)
  BY <1>1, <1>2
<1>5. Settled(Entry, Pair(Top), T, F)
  <2>1. CASE Entry \in scope.exclude
    BY <2>1 DEF Settled
  <2>2. CASE IsDir(Entry) /\ scope.follow /\ KeyOf(Entry) \in visited
    <3>1. scope.depth = 0
      BY <1>1, <2>2, TopPlace
    <3>2. <<DirOf(Entry), 0>> \in T
      <4>1. <<KeyOf(Entry).dir, 0>> \in T
        BY <1>3, <2>2 DEF Scanned
      <4>2. QED  BY <4>1 DEF KeyOf
    <3>3. \A k : Steps(k) = 0
      BY <3>1 DEF Steps
    <3>4. QED  BY <2>2, <3>2, <3>3 DEF Settled
  <2>3. QED  BY <2>1, <2>2 DEF SkipEntry
<1>6. QED  BY <1>1, <1>2, <1>3, <1>4, <1>5, OnScan

\* A directory is entered, or is beyond the limit of depth.
LEMMA EnterScan ==
  ASSUME FileQueryAssumptions, FileQueryInductive, FileQueryNext, EnterDir, ~trouble', scope.files = 0,
         ~(scope.follow /\ scope.depth > 0), NEW S, Scanned(S)
  PROVE  Scanned(S)'
<1>1. /\ WalkTypes /\ WalkInv /\ More /\ stack # <<>> /\ UNCHANGED <<found, main>> /\ IsDir(Entry)
      /\ visited' = IF scope.follow THEN visited \union {KeyOf(Entry)} ELSE visited
      /\ Top.depth \in Nat /\ scope.depth \in Nat /\ KeyOf(Entry) \in Keys /\ Next1 \in Seq(Frames)
  BY TopPlace, EntryTypes, NextFrame
     DEF EnterDir, FileQueryInductive, WalkInv, WalkFrame, mainVars, Scans, More
<1>2. PICK s, T, F : s = stack' /\ T = S \union PairsOf(s) /\ F = FoundNames'
  OBVIOUS
<1>3. FoundNames = F
  BY <1>1, <1>2 DEF FoundNames
<1>4. PICK p : p = Pair(Top)
  OBVIOUS
<1>5. p[2] = Steps(Top.depth)
  BY <1>4 DEF Pair
<1>6. CASE scope.depth > 0 /\ Top.depth + 1 > scope.depth
  <2>1. stack' = Next1
    BY <1>6 DEF EnterDir
  <2>2. T = Met(S)
    BY <1>1, <1>2, <2>1, NextPairs DEF Met
  <2>3. ~(scope.depth = 0 \/ p[2] < scope.depth) /\ ~scope.follow
    BY <1>1, <1>5, <1>6 DEF Steps
  <2>4. Settled(Entry, Pair(Top), T, F)
    BY <1>1, <1>4, <2>3 DEF Settled
  <2>5. StackSettled(Next1, T, F) => StackSettled(s, T, F)
    BY <1>2, <2>1
  <2>6. QED  BY <1>1, <1>2, <1>3, <2>2, <2>3, <2>4, <2>5, OnScan
<1>7. CASE ~(scope.depth > 0 /\ Top.depth + 1 > scope.depth)
  <2>1. PICK d \in Keys, k \in Nat :
          d = KeyOf(Entry) /\ d.dir = DirOf(Entry) /\ d.dir \in Dirs /\ k = Top.depth + 1
    <3>1. KeyOf(Entry).dir = DirOf(Entry)
      BY DEF KeyOf
    <3>2. \A d \in Keys : d.dir \in Dirs
      BY DEF Keys
    <3>3. QED  BY <1>1, <3>1, <3>2
  <2>2. stack' = <<Frame(d, k)>> \o Next1
    BY <1>7, <2>1 DEF EnterDir, Goes, Full
  <2>3. PICK t \in Frames : t = Frame(d, k)
    <3>1. Frame(d, k) \in Frames
      BY DEF Frame, Frames, Keys
    <3>2. QED  BY <3>1
  <2>4. t.at = 1 /\ t.dir = d.dir /\ Pair(t) = <<d.dir, Steps(k)>>
    BY <2>3 DEF Frame, Pair
  <2>5. PICK n \in Seq(Frames) : n = Next1
    BY <1>1
  <2>6. s = <<t>> \o n
    BY <1>2, <2>2, <2>3, <2>5
  <2>7. PairsOf(s) = PairsOf(n) \union {Pair(t)}
    BY <2>6, PushPairs
  <2>8. PairsOf(n) = PairsOf(stack)
    BY <1>1, <2>5, NextPairs
  <2>9. Met(S) \subseteq T /\ <<d.dir, Steps(k)>> \in T
    BY <1>2, <2>4, <2>7, <2>8 DEF Met
  <2>10. Settled(Entry, Pair(Top), T, F)
    <3>1. Steps(p[2] + 1) = Steps(k)
      BY <1>5, <2>1 DEF Steps
    <3>2. QED  BY <1>1, <1>4, <2>1, <2>9, <3>1 DEF Settled
  <2>11. ASSUME scope.follow PROVE \A e \in visited' \ visited : <<e.dir, 0>> \in T
    <3>1. Steps(k) = 0
      BY <1>1, <2>11 DEF Steps
    <3>2. QED  BY <1>1, <2>1, <2>9, <3>1
  <2>12. ASSUME StackSettled(Next1, T, F) PROVE StackSettled(s, T, F)
    <3>1. StackSettled(n, T, F)
      BY <2>5, <2>12
    <3>2. /\ s \in Seq(Frames) /\ Len(s) = Len(n) + 1 /\ s[1] = t /\ Len(n) \in Nat
          /\ DOMAIN n = 1 .. Len(n) /\ \A i \in 2 .. Len(n) + 1 : s[i] = n[i - 1]
      BY <2>6, Pushed, LenProperties
    <3>3. DOMAIN s = 1 .. Len(n) + 1
      BY <3>2, LenProperties
    <3>4. \A i \in DOMAIN s : i = 1 \/ (i - 1 \in DOMAIN n /\ s[i] = n[i - 1])
      BY <3>2, <3>3
    <3>5. ASSUME NEW i \in DOMAIN Listing[t.dir] PROVE ~(i < t.at)
      <4>1. Listing[d.dir] \in Seq(Names)
        BY <2>1 DEF FileQueryAssumptions
      <4>2. QED  BY <2>4, <3>5, <4>1, LenProperties
    <3>6. QED  BY <3>1, <3>2, <3>4, <3>5 DEF StackSettled
  <2>13. QED  BY <1>1, <1>2, <1>3, <2>9, <2>10, <2>11, <2>12, OnScan
<1>8. QED  BY <1>6, <1>7

\* An entry is sent.
LEMMA SendScan ==
  ASSUME FileQueryAssumptions, FileQueryInductive, FlowInv, FileQueryNext, SendPath, NEW S, Scanned(S)
  PROVE  Scanned(S)'
<1>0. Live
  <2>1. stack # <<>> /\ MainTypes /\ main # "refused"
    BY DEF SendPath, More, FlowInv, FileQueryInductive
  <2>2. QED  BY <2>1, FlowDead
<1>1. /\ WalkTypes /\ WalkInv /\ More /\ stack # <<>> /\ stack' = Next1 /\ UNCHANGED <<visited, main>>
      /\ found' = Append(found, [name |-> Entry, climb |-> Top.climb, depth |-> Top.depth]) /\ ~IsDir(Entry)
      /\ found \in Seq(Sent)
  BY <1>0 DEF SendPath, FileQueryInductive, WalkInv, WalkTypes, mainVars, More
<1>2. PICK s, T, F : s = stack' /\ T = S \union PairsOf(s) /\ F = FoundNames'
  OBVIOUS
<1>3. T = Met(S)
  BY <1>1, <1>2, NextPairs DEF Met
<1>4. StackSettled(Next1, T, F) => StackSettled(s, T, F)
  BY <1>1, <1>2
<1>5. FoundNames \subseteq F /\ Entry \in F
  <2>1. Entry \in Names /\ Top.depth \in Nat /\ Top.climb \in Nat
    BY <1>1, EntryTypes, TopPlace
  <2>2. PICK r \in Sent : r = [name |-> Entry, climb |-> Top.climb, depth |-> Top.depth] /\ r.name = Entry
    <3>1. [name |-> Entry, climb |-> Top.climb, depth |-> Top.depth] \in Sent
      BY <2>1 DEF Sent
    <3>2. QED  BY <3>1
  <2>3. PICK b : b = found'
    OBVIOUS
  <2>4. b = Append(found, r)
    BY <1>1, <2>2, <2>3
  <2>5. /\ b \in Seq(Sent) /\ Len(b) = Len(found) + 1 /\ b[Len(found) + 1] = r
        /\ Len(found) \in Nat /\ DOMAIN found = 1 .. Len(found)
        /\ \A i \in 1 .. Len(found) : b[i] = found[i]
    BY <1>1, <2>4, AppendProperties, LenProperties
  <2>6. DOMAIN b = 1 .. Len(found) + 1
    BY <2>5, LenProperties
  <2>7. F = {b[i].name : i \in DOMAIN b}
    BY <1>2, <2>3 DEF FoundNames
  <2>8. Len(found) + 1 \in DOMAIN b /\ b[Len(found) + 1].name = Entry
    BY <2>2, <2>5, <2>6
  <2>9. \A i \in DOMAIN found : i \in DOMAIN b /\ b[i] = found[i]
    BY <2>5, <2>6
  <2>10. FoundNames \subseteq F
    BY <2>7, <2>9 DEF FoundNames
  <2>11. Entry \in F
    BY <2>7, <2>8
  <2>12. QED  BY <2>10, <2>11
<1>6. Settled(Entry, Pair(Top), T, F)
  BY <1>1, <1>5 DEF Settled
<1>7. QED  BY <1>1, <1>2, <1>3, <1>4, <1>5, <1>6, OnScan

\* The walk begins.
LEMMA StartScan ==
  ASSUME FileQueryAssumptions, FileQueryNext, StartQuery, ~trouble'
  PROVE  Scanned({})'
<1>1. PICK t : t = Frame(RootKey, 0)
  OBVIOUS
<1>2. /\ stack' = <<t>> /\ visited' = {RootKey} /\ RootKey.dir = Root
      /\ t.at = 1 /\ t.dir = Root /\ Pair(t) = <<Root, 0>>
  BY <1>1 DEF StartQuery, Goes, Pair, Steps, Frame, RootKey
<1>3. PICK s, T, F : s = stack' /\ T = {} \union PairsOf(s) /\ F = FoundNames'
  OBVIOUS
<1>4. T = {<<Root, 0>>}
  <2>1. s = <<t>>
    BY <1>2, <1>3
  <2>2. PairsOf(s) = {<<Root, 0>>}
    BY <1>2, <2>1 DEF PairsOf
  <2>3. QED  BY <1>3, <2>2
<1>5. LeftSettled({}, T, F)
  BY DEF LeftSettled
<1>6. StackSettled(s, T, F)
  <2>1. ASSUME NEW k \in DOMAIN Listing[Root] PROVE ~(k < 1)
    <3>1. Listing[Root] \in Seq(Names)
      BY DEF FileQueryAssumptions
    <3>2. QED  BY <2>1, <3>1, LenProperties
  <2>2. QED  BY <1>2, <1>3, <2>1 DEF StackSettled
<1>7. QED  BY <1>2, <1>3, <1>4, <1>5, <1>6, ScanMoved

\* One step of anybody.
LEMMA ScanStep ==
  ASSUME FileQueryAssumptions, FileQueryInductive, FlowInv, [FileQueryNext]_fqVars, ~trouble',
         scope.files = 0, ~(scope.follow /\ scope.depth > 0), ScanInv
  PROVE  ScanInv'
<1>1. UNCHANGED scope
  BY ScopeStays
<1>2. PICK D : D = SUBSET (Dirs \X (0 .. scope.depth))
  OBVIOUS
<1>3. PICK S \in D : Scanned(S)
  BY <1>2 DEF ScanInv
<1>4. SUFFICES \E U \in D : Scanned(U)'
  BY <1>1, <1>2 DEF ScanInv
<1>5. CASE FileQueryNext /\ LeaveDir
  BY <1>2, <1>3, <1>5, LeaveScan
<1>6. CASE FileQueryNext /\ (SkipEntry \/ EnterDir \/ SendPath)
  BY <1>3, <1>6, SkipScan, EnterScan, SendScan
<1>7. CASE FileQueryNext /\ StartQuery
  BY <1>2, <1>7, StartScan
<1>8. ASSUME UNCHANGED walkVars, main \in {"start", "refused"} => main' \in {"start", "refused"}
      PROVE  \E U \in D : Scanned(U)'
  <2>1. PICK s, T, F : s = stack' /\ T = S \union PairsOf(s) /\ F = FoundNames'
    OBVIOUS
  <2>2. s = stack /\ T = Met(S) /\ F = FoundNames
    BY <1>8, <2>1 DEF walkVars, Met, FoundNames
  <2>3. Scanned(S)'
    BY <1>3, <1>8, <2>1, <2>2, ScanMoved DEF Scanned, walkVars
  <2>4. QED  BY <1>3, <2>3
<1>9. CASE RefuseQuery \/ CloseMatches \/ Return \/ Stop \/ Collect \/ Ageing \/ UNCHANGED fqVars
  BY <1>8, <1>9 DEF RefuseQuery, CloseMatches, Return, Stop, Collect, Ageing, fqVars, mainVars
<1>10. CASE \E w \in Walkers : Walker(w)
  BY <1>8, <1>10 DEF Walker, TakePath, SendResult, WalkerEnds, PipeFrame, mainVars
<1>11. CASE \E q \in Queriers : Querier(q)
  BY <1>8, <1>11 DEF Querier, TakeResult, Parse, SendMatches, QuerierEnds, mainVars
<1>12. QED
  BY <1>5, <1>6, <1>7, <1>9, <1>10, <1>11 DEF FileQueryNext, Scanner

-----------------------------------------------------------------------------
(* The whole of the argument *)

\* One step of anybody.
LEMMA CompleteStep ==
  ASSUME FileQueryAssumptions, FileQueryInductive, FileQueryInductive', CompleteInv,
         [FileQueryNext]_fqVars
  PROVE  CompleteInv'
<1>1. ScopeInv' /\ LangInv'
  BY ScopeStep, LangStep DEF CompleteInv
<1>2. ASSUME ~trouble' PROVE ~trouble /\ FlowInv' /\ CountInv'
  <2>1. ~trouble
    BY <1>2, TroubleStays DEF FileQueryInductive
  <2>2. FlowInv'
    BY <1>2, <2>1, FlowStep DEF CompleteInv
  <2>3. CountInv'
    BY <1>2, <2>1, CountStep DEF CompleteInv
  <2>4. QED  BY <2>1, <2>2, <2>3
<1>3. ASSUME ~trouble', scope'.files = 0, ~(scope'.follow /\ scope'.depth > 0) PROVE ScanInv'
  <2>1. UNCHANGED scope
    BY ScopeStays
  <2>2. QED  BY <1>2, <1>3, <2>1, ScanStep DEF CompleteInv
<1>4. QED  BY <1>1, <1>2, <1>3 DEF CompleteInv

\* The invariant holds at the start.
LEMMA CompleteStart ==
  ASSUME FileQueryAssumptions, FileQueryInit
  PROVE  CompleteInv
<1>1. /\ main = "start" /\ ctx = "live" /\ stack = <<>> /\ visited = {} /\ found = <<>> /\ paths = <<>>
      /\ walker = [w \in Walkers |-> "idle"] /\ results = <<>> /\ scope \in Scopes
      /\ querier = [q \in Queriers |-> "idle"] /\ matches = <<>> /\ all = <<>>
      /\ \A s \in Sources : cache[s] = 0
      /\ \A q \in Queriers : use[q] = Unused
  BY DEF FileQueryInit, CacheInit, FileQueryAssumptions
<1>2. "idle" \notin Names
  BY DEF FileQueryAssumptions
<1>3. DOMAIN stack = {} /\ DOMAIN found = {} /\ DOMAIN paths = {} /\ DOMAIN results = {}
  BY <1>1
<1>4. ScopeInv
  BY <1>1, <1>2, <1>3 DEF ScopeInv, Names
<1>5. LangInv
  BY <1>1, <1>2 DEF LangInv, Names
<1>6. FlowInv
  <2>1. \A w \in Walkers : walker[w] # "done"
    BY <1>1
  <2>2. \A q \in Queriers : querier[q] # "done"
    BY <1>1
  <2>3. \A q \in Queriers : use[q].at # "failed"
    BY <1>1, UnusedType DEF FileQueryAssumptions
  <2>4. QED  BY <1>1, <1>3, <2>1, <2>2, <2>3 DEF FlowInv, Live
<1>7. CountInv
  <2>1. ASSUME NEW f \in Files
        PROVE  /\ Hits(found, SentOf(f)) = 0 /\ OnTheWay(f) = 0
               /\ Hits(matches, Only(f)) = 0 /\ Hits(all, Only(f)) = 0
    <3>1. \A T : Hits(<<>>, T) = 0
      BY HitsEmpty
    <3>2. "idle" \notin NamesOf(f) /\ "idle" \notin Only(f)
      BY <1>2 DEF NamesOf, Only, Names
    <3>3. {w \in Walkers : walker[w] \in NamesOf(f)} = {} /\ {q \in Queriers : querier[q] \in Only(f)} = {}
      BY <1>1, <3>2
    <3>4. Holding(walker, Walkers, NamesOf(f)) = 0 /\ Holding(querier, Queriers, Only(f)) = 0
      BY <3>3, FS_EmptySet DEF Holding
    <3>5. /\ Hits(found, SentOf(f)) = 0 /\ Hits(paths, NamesOf(f)) = 0 /\ Hits(results, StatOf(f)) = 0
          /\ Hits(matches, Only(f)) = 0 /\ Hits(all, Only(f)) = 0
      BY <1>1, <3>1
    <3>6. QED  BY <3>4, <3>5 DEF OnTheWay
  <2>2. QED  BY <2>1 DEF CountInv
<1>8. ScanInv
  <2>1. PICK T, F : T = Met({}) /\ F = FoundNames
    OBVIOUS
  <2>2. LeftSettled({}, T, F) /\ StackSettled(stack, T, F)
    BY <1>3 DEF LeftSettled, StackSettled
  <2>3. Scanned({})
    BY <1>1, <2>1, <2>2 DEF Scanned
  <2>4. QED  BY <2>3 DEF ScanInv
<1>9. QED  BY <1>4, <1>5, <1>6, <1>7, <1>8 DEF CompleteInv

\* At the end the scanner has left a set that covers the scope.
LEMMA ScanEnds ==
  ASSUME FileQueryAssumptions, ScanInv, stack = <<>>, main = "returned"
  PROVE  \A e \in UNION {ToSet(Listing[d]) : d \in ReachedDirs} :
           e \notin scope.exclude /\ ~IsDir(e) => e \in FoundNames
<1>1. PICK S \in SUBSET (Dirs \X (0 .. scope.depth)) : Scanned(S)
  BY DEF ScanInv
<1>2. Met(S) = S
  <2>1. DOMAIN stack = {}
    OBVIOUS
  <2>2. QED  BY <2>1 DEF Met, PairsOf
<1>3. /\ \A p \in S : \A k \in DOMAIN Listing[p[1]] : Settled(Listing[p[1]][k], p, S, FoundNames)
      /\ <<Root, 0>> \in S
  BY <1>1, <1>2 DEF Scanned, LeftSettled
<1>4. \A p \in S : \A e \in ToSet(Listing[p[1]]) : Settled(e, p, S, FoundNames)
  BY <1>3 DEF ToSet
<1>5. Covers(S)
  BY <1>3, <1>4 DEF Covers, Settled
<1>6. ASSUME NEW d \in ReachedDirs, NEW e \in ToSet(Listing[d]), e \notin scope.exclude, ~IsDir(e)
      PROVE  e \in FoundNames
  <2>1. PICK k \in 0 .. scope.depth : <<d, k>> \in S
    BY <1>5 DEF ReachedDirs
  <2>2. PICK p \in S : p = <<d, k>>
    BY <2>1
  <2>3. p[1] = d
    BY <2>2
  <2>4. Settled(e, p, S, FoundNames)
    BY <1>4, <1>6, <2>3
  <2>5. QED  BY <1>6, <2>4 DEF Settled
<1>7. QED  BY <1>6

\* At the end nothing is on its way but what was collected.
LEMMA CountEnds ==
  ASSUME FileQueryAssumptions, FileQueryInductive, FlowInv, CountInv, main = "returned",
         NEW f \in Files, ~Ambiguous(f)
  PROVE  Hits(all, Only(f)) = IF f \in Matching THEN Hits(found, SentOf(f)) ELSE 0
<1>1. /\ paths = <<>> /\ results = <<>> /\ matches = <<>>
      /\ \A w \in Walkers : walker[w] = "done"
      /\ \A q \in Queriers : querier[q] = "done"
  BY FlowEnds DEF FlowInv
<1>2. "done" \notin NamesOf(f) /\ "done" \notin Only(f)
  BY DEF FileQueryAssumptions, NamesOf, Only, Names
<1>3. {w \in Walkers : walker[w] \in NamesOf(f)} = {} /\ {q \in Queriers : querier[q] \in Only(f)} = {}
  BY <1>1, <1>2
<1>4. Holding(walker, Walkers, NamesOf(f)) = 0 /\ Holding(querier, Queriers, Only(f)) = 0
  BY <1>3, FS_EmptySet DEF Holding
<1>5. \A T : Hits(<<>>, T) = 0
  BY HitsEmpty
<1>6. Hits(paths, NamesOf(f)) = 0 /\ Hits(results, StatOf(f)) = 0 /\ Hits(matches, Only(f)) = 0
  BY <1>1, <1>5
<1>7. Hits(all, Only(f)) \in Nat
  BY CountTypes
<1>8. OnTheWay(f) = Hits(all, Only(f))
  BY <1>4, <1>6, <1>7 DEF OnTheWay
<1>9. QED  BY <1>8 DEF CountInv

\* What the invariant says of the answer.
LEMMA CompleteFollows ==
  ASSUME FileQueryAssumptions, FileQueryInductive, CompleteInv
  PROVE  QueryComplete
<1>1. SUFFICES ASSUME main = "returned", ~trouble
               PROVE  /\ \A f \in Files \ {g \in Files : Ambiguous(g)} :
                           Cardinality({i \in DOMAIN all : all[i] = f})
                           = IF f \in Matching
                             THEN Cardinality({i \in DOMAIN found : FileOf(found[i].name) = f}) ELSE 0
                      /\ scope.files = 0 /\ ~(scope.follow /\ scope.depth > 0) =>
                           {FileOf(found[i].name) : i \in DOMAIN found} \intersect Files = ReachedFiles
  BY DEF QueryComplete
<1>2. /\ FlowInv /\ CountInv /\ ScopeInv
      /\ scope.files = 0 /\ ~(scope.follow /\ scope.depth > 0) => ScanInv
  BY <1>1 DEF CompleteInv
<1>3. found \in Seq(Sent)
  BY DEF FileQueryInductive, WalkInv, WalkTypes
<1>4. ASSUME NEW f \in Files, ~Ambiguous(f)
      PROVE  Cardinality({i \in DOMAIN all : all[i] = f})
             = IF f \in Matching THEN Cardinality({i \in DOMAIN found : FileOf(found[i].name) = f}) ELSE 0
  <2>1. Hits(all, Only(f)) = Cardinality({i \in DOMAIN all : all[i] = f})
    <3>1. {i \in DOMAIN all : all[i] \in Only(f)} = {i \in DOMAIN all : all[i] = f}
      BY DEF Only
    <3>2. QED  BY <3>1 DEF Hits
  <2>2. Hits(found, SentOf(f)) = Cardinality({i \in DOMAIN found : FileOf(found[i].name) = f})
    <3>1. \A i \in DOMAIN found : found[i] \in Sent
      BY <1>3, ElementOfSeq, LenProperties
    <3>2. \A i \in DOMAIN found : found[i] \in SentOf(f) <=> FileOf(found[i].name) = f
      BY <3>1 DEF SentOf, NamesOf, Sent
    <3>3. {i \in DOMAIN found : found[i] \in SentOf(f)}
          = {i \in DOMAIN found : FileOf(found[i].name) = f}
      BY <3>2
    <3>4. QED  BY <3>3 DEF Hits
  <2>3. Hits(all, Only(f)) = IF f \in Matching THEN Hits(found, SentOf(f)) ELSE 0
    BY <1>1, <1>2, <1>4, CountEnds
  <2>4. QED  BY <2>1, <2>2, <2>3
<1>5. ASSUME scope.files = 0, ~(scope.follow /\ scope.depth > 0)
      PROVE  {FileOf(found[i].name) : i \in DOMAIN found} \intersect Files = ReachedFiles
  <2>1. {FileOf(found[i].name) : i \in DOMAIN found} \intersect Files \subseteq ReachedFiles
    BY <1>2 DEF ScopeInv, InScope
  <2>2. ASSUME NEW f \in ReachedFiles
        PROVE  f \in {FileOf(found[i].name) : i \in DOMAIN found} \intersect Files
    <3>1. stack = <<>>
      BY <1>1, <1>2, FlowEnds
    <3>2. PICK e \in UNION {ToSet(Listing[d]) : d \in ReachedDirs} :
            e \notin scope.exclude /\ ~IsDir(e) /\ f = FileOf(e) /\ f \in Files
      BY <2>2 DEF ReachedFiles
    <3>3. e \in FoundNames
      BY <1>1, <1>2, <1>5, <3>1, <3>2, ScanEnds
    <3>4. QED  BY <3>2, <3>3 DEF FoundNames
  <2>3. QED  BY <2>1, <2>2
<1>6. QED  BY <1>4, <1>5

\* An answer nobody was troubled over is complete.
THEOREM QueryCompleteHolds == FileQuerySpec => []QueryComplete
<1>1. FileQueryInit => FileQueryInductive /\ CompleteInv
  BY FileQueryStart, CompleteStart, FileQueryAssumptions
<1>2. FileQueryInductive /\ FileQueryInductive' /\ CompleteInv /\ [FileQueryNext]_fqVars => CompleteInv'
  BY CompleteStep, FileQueryAssumptions
<1>3. FileQueryInductive /\ CompleteInv => QueryComplete
  BY CompleteFollows, FileQueryAssumptions
<1>4. QED  BY <1>1, <1>2, <1>3, FileQueryInductiveHolds, PTL DEF FileQuerySpec

=============================================================================
