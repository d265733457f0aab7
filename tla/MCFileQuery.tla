----------------------------- MODULE MCFileQuery -----------------------------
\* An instance of FileQuery for TLC: links make cycles between the root and a
\* directory, one of them absolute, and three files have the same text, one of
\* them in another language, which only some of the scopes reach.
EXTENDS FileQuery, TLC

Tree   == "root" :> <<"d", "f", "up">> @@ "d" :> <<"back", "e", "g">> @@ "e" :> <<"h">>
Goals  == "up" :> "d" @@ "back" :> "root"
Heights == "up" :> 0 @@ "back" :> 1
TextOf == [f \in Files |-> "s"]
LangOf == "f" :> "go" @@ "g" :> "go" @@ "h" :> "ts"
Scope(absolute, follow, depth, files, exclude) ==
  [absolute |-> absolute, follow |-> follow, depth |-> depth, files |-> files, exclude |-> exclude]
SomeScopes == {Scope(TRUE, TRUE, 0, 0, {}), Scope(FALSE, TRUE, 0, 0, {"up", "e", "g"}),
               Scope(TRUE, FALSE, 1, 0, {"up"}), Scope(TRUE, FALSE, 0, 2, {"f"})}
=============================================================================
