----------------------------- MODULE SyntaxCache -----------------------------
(***************************************************************************)
(* The cache of syntax trees, ASTCache of providers/base/cache.go.  The    *)
(* providers of all languages share it, and its key is the source alone.   *)
(* It has no lock: loading an entry, looking at its age, deleting the key  *)
(* and closing or copying the tree are separate steps, and so are those of *)
(* the goroutine that prunes.                                              *)
(***************************************************************************)
EXTENDS Naturals, Sequences, FiniteSets

CONSTANTS
  Users,      \* the goroutines that parse
  Sources,    \* the sources
  Languages,
  MaxOld,     \* bound: how many entries expire
  ParseFaults \* {"parse"} if a parse may fail

VARIABLES
  cache,   \* cache[s]: the entry stored under the hash of s, 0 for none
  ast,     \* the entries ever stored: language, past maxAge, tree not closed
  use,     \* use[u]: where u is in GetOrParse, with what, and the tree it got
  pruner,  \* the same for pruneExpired
  crashed  \* a tree was copied after it was closed: anything may happen

cacheVars == <<cache, ast, use, pruner, crashed>>

Unused == [at |-> "idle", src |-> CHOOSE s \in Sources : TRUE,
           lang |-> CHOOSE l \in Languages : TRUE, n |-> 0]

CacheInit ==
  /\ cache = [s \in Sources |-> 0]
  /\ ast = <<>>
  /\ use = [u \in Users |-> Unused]
  /\ pruner = Unused
  /\ crashed = FALSE

CacheTypeOK ==
  /\ cache \in [Sources -> 0 .. Len(ast)]
  /\ ast \in Seq([lang: Languages, old: BOOLEAN, open: BOOLEAN])
  /\ \A r \in {use[u] : u \in Users} \union {pruner} :
       /\ r.at \in {"idle", "look", "copy", "evict", "close", "parse", "got", "failed"}
       /\ r.src \in Sources /\ r.lang \in Languages /\ r.n \in 0 .. Len(ast)

Go(u, place) == use' = [use EXCEPT ![u].at = place]
Got(u, lang) == use' = [use EXCEPT ![u].at = "got", ![u].lang = lang]

\* GetOrParse: an entry, and whether it has expired.
Look(u) ==
  LET n == cache[use[u].src]
  IN  /\ use[u].at = "look"
      /\ use' = [use EXCEPT ![u].n = n,
                   ![u].at = IF n = 0 THEN "parse" ELSE IF ast[n].old THEN "evict" ELSE "copy"]
      /\ UNCHANGED <<cache, ast, pruner, crashed>>

CopyTree(u) ==
  /\ use[u].at = "copy"
  /\ IF ast[use[u].n].open THEN Got(u, ast[use[u].n].lang) /\ UNCHANGED crashed
     ELSE crashed' = TRUE /\ UNCHANGED use
  /\ UNCHANGED <<cache, ast, pruner>>

\* Delete the key, whatever is stored there by now, and then close the tree
\* of the entry looked at.
Evict(u) ==
  /\ use[u].at = "evict"
  /\ cache' = [cache EXCEPT ![use[u].src] = 0]
  /\ Go(u, "close")
  /\ UNCHANGED <<ast, pruner, crashed>>

CloseOld(u) ==
  /\ use[u].at = "close"
  /\ ast' = [ast EXCEPT ![use[u].n].open = FALSE]
  /\ Go(u, "parse")
  /\ UNCHANGED <<cache, pruner, crashed>>

\* Mutant: who stores second closes the tree stored first.
StoreClosesFirst(u) ==
  LET s == use[u].src
  IN  /\ use[u].at = "parse"
      /\ IF cache[s] = 0
         THEN /\ ast' = Append(ast, [lang |-> use[u].lang, old |-> FALSE, open |-> TRUE])
              /\ cache' = [cache EXCEPT ![s] = Len(ast')]
         ELSE ast' = [ast EXCEPT ![cache[s]].open = FALSE] /\ UNCHANGED cache
      /\ Go(u, "got")
      /\ UNCHANGED <<pruner, crashed>>

\* Parse, LoadOrStore a copy; who stores second closes his copy.  The caller
\* gets the tree parsed.
Store(u) ==
  LET s == use[u].src
  IN  /\ use[u].at = "parse"
      /\ IF cache[s] = 0
         THEN /\ ast' = Append(ast, [lang |-> use[u].lang, old |-> FALSE, open |-> TRUE])
              /\ cache' = [cache EXCEPT ![s] = Len(ast')]
         ELSE UNCHANGED <<ast, cache>>
      /\ Go(u, "got")
      /\ UNCHANGED <<pruner, crashed>>

ParseFails(u) ==
  /\ use[u].at = "parse" /\ "parse" \in ParseFaults
  /\ Go(u, "failed")
  /\ UNCHANGED <<cache, ast, pruner, crashed>>

GetOrParse(u) == Look(u) \/ CopyTree(u) \/ Evict(u) \/ CloseOld(u) \/ Store(u) \/ ParseFails(u)

\* maxAge passes.
Expire(n) ==
  /\ ~ast[n].old /\ Cardinality({m \in DOMAIN ast : ast[m].old}) < MaxOld
  /\ ast' = [ast EXCEPT ![n].old = TRUE]
  /\ UNCHANGED <<cache, use, pruner, crashed>>

\* pruneExpired: find an expired entry, delete its key, close its tree.
PruneFind(s) ==
  /\ pruner.at = "idle" /\ cache[s] # 0 /\ ast[cache[s]].old
  /\ pruner' = [pruner EXCEPT !.at = "evict", !.src = s, !.n = cache[s]]
  /\ UNCHANGED <<cache, ast, use, crashed>>

PruneDelete ==
  /\ pruner.at = "evict" /\ pruner' = [pruner EXCEPT !.at = "close"]
  /\ cache' = [cache EXCEPT ![pruner.src] = 0]
  /\ UNCHANGED <<ast, use, crashed>>

PruneClose ==
  /\ pruner.at = "close" /\ pruner' = Unused
  /\ ast' = [ast EXCEPT ![pruner.n].open = FALSE]
  /\ UNCHANGED <<cache, use, crashed>>

Pruning == (\E s \in Sources : PruneFind(s)) \/ PruneDelete \/ PruneClose
=============================================================================
