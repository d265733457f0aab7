------------------------------ MODULE FileQuery ------------------------------
(***************************************************************************)
(* A query over the files of a directory: the tool file_query (mcp/tools,  *)
(* cmd/file_query), QueryFiles of core/fileprocessor.go and the walker of  *)
(* core/filewalker.go.  The goroutines are a pipeline: the scanner sends   *)
(* paths, walkers stat them and send results, queriers query the files and *)
(* send matches, the collector gathers them.  Scanner, walkers and         *)
(* queriers leave when the context ends.                                   *)
(*                                                                         *)
(* A name is an entry of one directory: a file, a directory or a link.     *)
(* What globs match is left to the scope: the names excluded.              *)
(*                                                                         *)
(* The scanner tells directories apart by what EvalSymlinks makes of their *)
(* paths.  For a relative path that is again relative to the working       *)
(* directory, and starts with as many ".." as its links lead above it: a   *)
(* directory has one string for every height.  An absolute link is higher  *)
(* than any other; all strings of an absolute scope path are absolute.     *)
(***************************************************************************)
EXTENDS SyntaxCache, SequencesExt

CONSTANTS
  Walkers, Queriers, \* the worker pools
  BufferSize,        \* capacity of paths and of results
  Files, Dirs, Links,
  Root,              \* the directory queried
  Listing,           \* Listing[d]: the names in d, in the order of ReadDir
  To,                \* To[l]: the file or directory a link resolves to
  Climb,             \* Climb[l]: how far above the working directory l leads on its way
  Text, Language,    \* of a file: its content and its language
  Matching,          \* the files that hold a match
  Scopes,            \* absolute: the path; follow: symlinks; depth, files: limits, 0 for
                     \* none; exclude
  Troubles           \* what can go wrong here: "dir", "stat", "read", "stop"

Names == Files \union Dirs \union Links

ASSUME FileQueryAssumptions ==
  /\ Users = Queriers /\ IsFiniteSet(Queriers) /\ Queriers # {}
  /\ IsFiniteSet(Walkers) /\ Walkers # {} /\ Root \in Dirs
  /\ BufferSize \in Nat \ {0} /\ MaxOld \in Nat
  /\ Sources # {} /\ Languages # {}
  /\ Dirs \cap (Files \union Links) = {} /\ {"idle", "done"} \cap Names = {}
  /\ Listing \in [Dirs -> Seq(Names)]
  /\ \A d, e \in Dirs : \A i \in DOMAIN Listing[d], j \in DOMAIN Listing[e] :
       Listing[d][i] = Listing[e][j] => d = e /\ i = j
  /\ To \in [Links -> Files \union Dirs] /\ Climb \in [Links -> Nat]
  /\ Text \in [Files -> Sources] /\ Language \in [Files -> Languages]
  /\ Matching \subseteq Files
  /\ \A s \in Scopes : /\ s.absolute \in BOOLEAN /\ s.follow \in BOOLEAN /\ s.exclude \subseteq Names
                       /\ s.depth \in Nat /\ s.files \in Nat

VARIABLES
  main,      \* "start", "query", "collect", "returned", or "refused" at the start
  answer,    \* "none", "error", "matches"
  ctx,       \* "live", "timeout" of 30 s, "cancelled" by the caller, "over"
  scope,
  stack,     \* the calls of scanDirectory: directory, climb of the path, place in it, depth
  visited,   \* the keys of the directories seen, when links are followed
  found,     \* history: the names sent on paths, with the climb of their paths and the depth
  paths,
  walker,    \* walker[w]: "idle", "done" or the name it holds
  results,   \* names, and whether their stat succeeded
  querier,   \* querier[q]: "idle", "done" or the file it queries
  matches, closed, \* the channel of matches, and whether it is closed
  all,       \* the files of the matches collected
  trouble    \* history: something went wrong

walkVars  == <<stack, visited, found>>
pipeVars  == <<paths, walker, results>>
queryVars == <<querier, matches, closed, all>>
mainVars  == <<main, answer, ctx, scope>>
fqVars    == <<walkVars, pipeVars, queryVars, mainVars, trouble, cacheVars>>

\* A directory, and how high the path led on which it was reached: what
\* EvalSymlinks returns for that path.
Keys == [dir: Dirs, climb: Nat]

Live       == ctx = "live"
PathsEnd   == main # "start" /\ stack = <<>> /\ paths = <<>>
ResultsEnd == results = <<>> /\ \A w \in Walkers : walker[w] = "done"

FileQueryTypeOK ==
  /\ CacheTypeOK
  /\ main \in {"start", "query", "collect", "returned", "refused"}
  /\ answer \in {"none", "error", "matches"}
  /\ ctx \in {"live", "timeout", "cancelled", "over"}
  /\ visited \subseteq Keys /\ \A i \in DOMAIN stack : stack[i].dir \in Dirs
  /\ \A i \in DOMAIN found : found[i].name \in Names
  /\ Len(paths) <= BufferSize /\ Len(results) <= BufferSize /\ Len(matches) <= Cardinality(Queriers)
  /\ walker \in [Walkers -> {"idle", "done"} \union Names]
  /\ querier \in [Queriers -> {"idle", "done"} \union Files]
  /\ all \in Seq(Files) /\ closed \in BOOLEAN /\ trouble \in BOOLEAN

FileQueryInit ==
  /\ main = "start" /\ answer = "none" /\ ctx = "live" /\ scope \in Scopes
  /\ stack = <<>> /\ visited = {} /\ found = <<>>
  /\ paths = <<>> /\ walker = [w \in Walkers |-> "idle"] /\ results = <<>>
  /\ querier = [q \in Queriers |-> "idle"] /\ matches = <<>> /\ closed = FALSE /\ all = <<>>
  /\ trouble = FALSE
  /\ CacheInit

Goes(kind) == kind \in Troubles /\ trouble' = TRUE

-----------------------------------------------------------------------------
(* The tool *)

Frame(key, depth) == [dir |-> key.dir, climb |-> key.climb, at |-> 1, depth |-> depth]
RootKey == [dir |-> Root, climb |-> 0]

\* The request has no scope, path or query, or names no path there is.
RefuseQuery ==
  /\ main = "start"
  /\ main' = "refused" /\ answer' = "error" /\ ctx' = "over"
  /\ UNCHANGED <<scope, walkVars, pipeVars, queryVars, trouble, cacheVars>>

\* QueryFiles starts the goroutines.  A root that cannot be read has no entries.
StartQuery ==
  /\ main = "start" /\ Live
  /\ main' = "query" /\ UNCHANGED <<answer, ctx>>
  /\ visited' = {RootKey}
  /\ \/ stack' = <<Frame(RootKey, 0)>> /\ UNCHANGED trouble
     \/ Goes("dir") /\ stack' = <<>>
  /\ UNCHANGED <<scope, found, pipeVars, queryVars, cacheVars>>

\* wg.Wait, close(matches)
CloseMatches ==
  /\ main = "query" /\ \A q \in Queriers : querier[q] = "done"
  /\ main' = "collect" /\ closed' = TRUE
  /\ UNCHANGED <<answer, ctx, scope, walkVars, pipeVars, querier, matches, all, trouble, cacheVars>>

\* Mutant: QueryFiles does not wait for the collector.
ReturnEarly ==
  /\ main = "collect"
  /\ main' = "returned" /\ ctx' = "over"
  /\ answer' = IF ctx = "cancelled" THEN "error" ELSE "matches"
  /\ UNCHANGED <<scope, walkVars, pipeVars, queryVars, trouble, cacheVars>>

\* After the collector.  Whether the caller has cancelled is looked at, not
\* whether the time was up: what was found by then is answered as if complete.
Return ==
  /\ main = "collect" /\ matches = <<>>
  /\ main' = "returned" /\ ctx' = "over"
  /\ answer' = IF ctx = "cancelled" THEN "error" ELSE "matches"
  /\ UNCHANGED <<scope, walkVars, pipeVars, queryVars, trouble, cacheVars>>

\* The thirty seconds are over, or the caller cancels.
Stop ==
  /\ Goes("stop") /\ main \in {"query", "collect"} /\ ctx \in {"live", "timeout"}
  /\ ctx' \in {"timeout", "cancelled"} \ {ctx}
  /\ UNCHANGED <<main, answer, scope, walkVars, pipeVars, queryVars, cacheVars>>

-----------------------------------------------------------------------------
(* scanDirectory: one entry of the innermost call at a time *)

Top     == stack[1]
Entry   == Listing[Top.dir][Top.at]
More    == stack # <<>> /\ Top.at <= Len(Listing[Top.dir])
Scans   == More /\ Live
Full    == scope.files > 0 /\ Len(found) >= scope.files
Next1   == <<[Top EXCEPT !.at = @ + 1]>> \o Tail(stack)
WalkFrame == UNCHANGED <<pipeVars, queryVars, mainVars, cacheVars>>

\* The directory an entry leads to; a link is a file unless it is followed.
IsDir(e)  == e \in Dirs \/ (e \in Links /\ scope.follow /\ To[e] \in Dirs)
DirOf(e) == IF e \in Links THEN To[e] ELSE e

\* A path never comes down again from where its links have led it.
KeyOf(e) ==
  [dir |-> DirOf(e),
   climb |-> IF e \in Links /\ ~scope.absolute /\ Climb[e] > Top.climb
             THEN Climb[e] ELSE Top.climb]

\* The end of the directory, a file over the limit, or the end of the context,
\* which every call sees before its next entry.
LeaveDir ==
  /\ stack # <<>>
  /\ \/ ~Live /\ stack' = <<>>
     \/ Live /\ ~More /\ stack' = Tail(stack)
     \/ Scans /\ Entry \notin scope.exclude /\ ~IsDir(Entry) /\ Full /\ stack' = Tail(stack)
  /\ UNCHANGED <<visited, found, trouble>> /\ WalkFrame

SkipEntry ==
  /\ Scans
  /\ \/ Entry \in scope.exclude
     \/ IsDir(Entry) /\ scope.follow /\ KeyOf(Entry) \in visited
  /\ stack' = Next1
  /\ UNCHANGED <<visited, found, trouble>> /\ WalkFrame

\* Mutant: a directory is entered again.
EnterAgain ==
  /\ Scans /\ Entry \notin scope.exclude /\ IsDir(Entry)
  /\ visited' = IF scope.follow THEN visited \union {KeyOf(Entry)} ELSE visited
  /\ stack' = IF Full \/ (scope.depth > 0 /\ Top.depth + 1 > scope.depth) THEN Next1
              ELSE <<Frame(KeyOf(Entry), Top.depth + 1)>> \o Next1
  /\ UNCHANGED <<found, trouble>> /\ WalkFrame

\* The call for a directory returns at once beyond a limit, or if it cannot
\* read it; the directory has been seen all the same.
EnterDir ==
  /\ Scans /\ Entry \notin scope.exclude /\ IsDir(Entry)
  /\ scope.follow => KeyOf(Entry) \notin visited
  /\ visited' = IF scope.follow THEN visited \union {KeyOf(Entry)} ELSE visited
  /\ \/ /\ stack' = IF Full \/ (scope.depth > 0 /\ Top.depth + 1 > scope.depth) THEN Next1
                    ELSE <<Frame(KeyOf(Entry), Top.depth + 1)>> \o Next1
        /\ UNCHANGED trouble
     \/ Goes("dir") /\ stack' = Next1
  /\ UNCHANGED found /\ WalkFrame

\* When the context has ended since the entry was taken, select may send it
\* all the same; nothing follows.
SendPath ==
  /\ More /\ Entry \notin scope.exclude /\ ~IsDir(Entry) /\ ~Full
  /\ Len(paths) < BufferSize
  /\ paths' = Append(paths, Entry)
  /\ found' = Append(found, [name |-> Entry, climb |-> Top.climb, depth |-> Top.depth])
  /\ stack' = IF Live THEN Next1 ELSE <<>>
  /\ UNCHANGED <<visited, walker, results, queryVars, mainVars, trouble, cacheVars>>

Scanner == LeaveDir \/ SkipEntry \/ EnterDir \/ SendPath

-----------------------------------------------------------------------------
(* The walkers *)

PipeFrame == UNCHANGED <<walkVars, queryVars, mainVars, cacheVars>>

TakePath(w) ==
  /\ walker[w] = "idle" /\ paths # <<>>
  /\ walker' = [walker EXCEPT ![w] = Head(paths)] /\ paths' = Tail(paths)
  /\ UNCHANGED <<results, trouble>> /\ PipeFrame

\* processFile; the stat may fail.
SendResult(w) ==
  /\ walker[w] \in Names /\ Len(results) < BufferSize
  /\ \/ results' = Append(results, [name |-> walker[w], ok |-> TRUE]) /\ UNCHANGED trouble
     \/ Goes("stat") /\ results' = Append(results, [name |-> walker[w], ok |-> FALSE])
  /\ walker' = [walker EXCEPT ![w] = "idle"]
  /\ UNCHANGED paths /\ PipeFrame

WalkerEnds(w) ==
  /\ walker[w] # "done" /\ main \notin {"start", "refused"}
  /\ ~Live \/ (walker[w] = "idle" /\ PathsEnd)
  /\ walker' = [walker EXCEPT ![w] = "done"]
  /\ UNCHANGED <<paths, results, trouble>> /\ PipeFrame

Walker(w) == TakePath(w) \/ SendResult(w) \/ WalkerEnds(w)

-----------------------------------------------------------------------------
(* The queriers and the collector *)

FileOf(name) == IF name \in Links THEN To[name] ELSE name

\* queryWorker, and queryFile up to the parse: the file is read.
TakeResult(q) ==
  LET r == Head(results)  f == FileOf(r.name)
  IN  /\ querier[q] = "idle" /\ results # <<>>
      /\ results' = Tail(results)
      /\ \/ /\ ~r.ok \/ f \in Dirs
            /\ UNCHANGED <<querier, use, trouble>>
         \/ /\ r.ok /\ f \in Files /\ Goes("read") /\ UNCHANGED <<querier, use>>
         \/ /\ r.ok /\ f \in Files /\ UNCHANGED trouble
            /\ querier' = [querier EXCEPT ![q] = f]
            /\ use' = [use EXCEPT ![q].at = "look", ![q].src = Text[f], ![q].lang = Language[f]]
      /\ UNCHANGED <<walkVars, paths, walker, matches, closed, all, mainVars>>
      /\ UNCHANGED <<cache, ast, pruner, crashed>>

Parse(q) ==
  /\ GetOrParse(q)
  /\ trouble' = (trouble \/ use'[q].at = "failed")
  /\ UNCHANGED <<walkVars, pipeVars, queryVars, mainVars>>

\* Query: in a tree of another language it may find anything, or errors.
SendMatches(q) ==
  LET f == querier[q]
  IN  /\ use[q].at \in {"got", "failed"}
      /\ \/ /\ use[q].at = "got"
            /\ f \in Matching \/ use[q].lang # Language[f]
            /\ Len(matches) < Cardinality(Queriers)
            /\ matches' = Append(matches, f)
         \/ /\ f \in Matching => use[q].at = "failed" \/ use[q].lang # Language[f]
            /\ UNCHANGED matches
      /\ querier' = [querier EXCEPT ![q] = "idle"]
      /\ use' = [use EXCEPT ![q] = Unused]
      /\ UNCHANGED <<walkVars, pipeVars, closed, all, mainVars, trouble>>
      /\ UNCHANGED <<cache, ast, pruner, crashed>>

QuerierEnds(q) ==
  /\ querier[q] = "idle" /\ main = "query"
  /\ ~Live \/ ResultsEnd
  /\ querier' = [querier EXCEPT ![q] = "done"]
  /\ UNCHANGED <<walkVars, pipeVars, matches, closed, all, mainVars, trouble, cacheVars>>

Querier(q) == TakeResult(q) \/ Parse(q) \/ SendMatches(q) \/ QuerierEnds(q)

\* Mutant: the collector leaves when the context ends.
CollectLive ==
  /\ matches # <<>> /\ Live
  /\ all' = Append(all, Head(matches)) /\ matches' = Tail(matches)
  /\ UNCHANGED <<walkVars, pipeVars, querier, closed, mainVars, trouble, cacheVars>>

Collect ==
  /\ matches # <<>>
  /\ all' = Append(all, Head(matches)) /\ matches' = Tail(matches)
  /\ UNCHANGED <<walkVars, pipeVars, querier, closed, mainVars, trouble, cacheVars>>

-----------------------------------------------------------------------------
\* The cache's own goroutine and the clock.
Ageing ==
  /\ Pruning \/ \E n \in DOMAIN ast : Expire(n)
  /\ UNCHANGED <<walkVars, pipeVars, queryVars, mainVars, trouble>>

FileQueryNext ==
  /\ ~crashed
  /\ \/ RefuseQuery \/ StartQuery \/ CloseMatches \/ Return \/ Stop
     \/ Scanner \/ Collect \/ Ageing
     \/ \E w \in Walkers : Walker(w)
     \/ \E q \in Queriers : Querier(q)

FileQuerySpec == FileQueryInit /\ [][FileQueryNext]_fqVars

\* The Go scheduler runs every goroutine that can run.
FileQueryFairSpec ==
  /\ FileQuerySpec
  /\ WF_fqVars(~crashed /\ (RefuseQuery \/ StartQuery \/ CloseMatches \/ Return))
  /\ WF_fqVars(~crashed /\ Scanner)
  /\ WF_fqVars(~crashed /\ Collect)
  /\ \A w \in Walkers : WF_fqVars(~crashed /\ Walker(w))
  /\ \A q \in Queriers : WF_fqVars(~crashed /\ Querier(q))

-----------------------------------------------------------------------------
(* Properties *)

\* An entry in the map, and one whose time is not over, is not closed by
\* anybody: neither by the goroutine that evicts a key under which another
\* has stored a new entry, nor by the one that stored second.
TreesOpen == \A n \in DOMAIN ast : n \in {cache[s] : s \in Sources} \/ ~ast[n].old => ast[n].open

\* The limits of the scope, across all directories.
LimitsKept ==
  /\ scope.files > 0 => Len(found) <= scope.files
  /\ \A i \in DOMAIN found : /\ found[i].name \notin scope.exclude
                             /\ scope.depth > 0 => found[i].depth <= scope.depth

\* With links followed, whatever cycles they make, no name is sent twice from
\* an absolute scope path; from a relative one, twice only on paths that climb
\* to different heights, and no path climbs higher than some link.
FoundOnce ==
  scope.follow =>
    \A i, j \in DOMAIN found : i # j /\ found[i].name = found[j].name =>
      /\ ~scope.absolute /\ found[i].climb # found[j].climb
      /\ found[i].climb \in {0} \union {Climb[l] : l \in Links}

\* What the walk has sent is in the scope, and within its limits, and nothing
\* is sent twice but on paths of different heights.
FileQueryInv == FileQueryTypeOK /\ LimitsKept /\ FoundOnce

\* The directories the scope leads to, at most scope.depth steps away: those in
\* every set of directories and steps that has the root and what its
\* directories lead to.  Without a limit the steps are not counted.
Steps(k) == IF scope.depth = 0 THEN 0 ELSE k
Covers(S) ==
  /\ <<Root, 0>> \in S
  /\ \A p \in S : \A e \in ToSet(Listing[p[1]]) \ scope.exclude :
       IsDir(e) /\ (scope.depth = 0 \/ p[2] < scope.depth) => <<DirOf(e), Steps(p[2] + 1)>> \in S
ReachedDirs ==
  {d \in Dirs : \E k \in 0 .. scope.depth :
     \A S \in SUBSET (Dirs \X (0 .. scope.depth)) : Covers(S) => <<d, k>> \in S}

ReachedFiles ==
  {FileOf(e) : e \in {e \in UNION {ToSet(Listing[d]) : d \in ReachedDirs} :
                        e \notin scope.exclude /\ ~IsDir(e)}} \intersect Files

\* Its text is also that of a file of another language in scope.
Ambiguous(f) == \E g \in ReachedFiles : Text[g] = Text[f] /\ Language[g] # Language[f]

\* A query that nothing troubled answers the files in scope that hold a
\* match, each as often as it was found and no other; up to the files whose
\* tree in the cache may be of another language.  With links and a depth
\* limit, a directory first met too deep is not found again where it is not.
QueryComplete ==
  main = "returned" /\ answer = "matches" /\ ~trouble =>
    /\ \A f \in Files \ {g \in Files : Ambiguous(g)} :
         Cardinality({i \in DOMAIN all : all[i] = f})
         = IF f \in Matching THEN Cardinality({i \in DOMAIN found : FileOf(found[i].name) = f}) ELSE 0
    /\ scope.files = 0 /\ ~(scope.follow /\ scope.depth > 0) =>
         {FileOf(found[i].name) : i \in DOMAIN found} \intersect Files = ReachedFiles

Ended == \/ main = "refused"
         \/ main = "returned" /\ stack = <<>> /\ \A w \in Walkers : walker[w] = "done"

\* QueryFiles returns, cancelled or not, however slow the stages are, and
\* leaves no goroutine behind: nobody stays blocked on a channel.
WalkEnds == <>(Ended \/ crashed)
=============================================================================
