------------------------------ MODULE MCServer ------------------------------
\* Instances of Server for TLC.
EXTENDS Server, TLC

Upto(S, n) == UNION {[1 .. k -> S] : k \in 1 .. n}
Count(s, kinds) == Cardinality({k \in DOMAIN s : s[k] \in kinds})

\* Two requests to the client, with the sessions opened around them; two
\* subscriptions; pages of a list; tools; input that is no message.
Sessions  == Upto({"initialize", "initialized", "notifications/initialized"}, 2)
             \union {<<"initialized", "initialize", "ping">>}
Subscribing == {s \in Upto({"subscribe", "unsubscribe"}, 3) :
                  Count(s, {"subscribe"}) <= Cardinality(Watches)}
Listing   == Upto({"tools/list"}, 4)
Cancels   == {s \in Upto({"tools/call", "notifications/cancelled", "ping", "unknown"}, 3) :
                Count(s, {"tools/call"}) > 0}
Broken    == Upto({"malformed", "invalid", "ping"}, 3)
             \union {<<"initialized", "malformed", "ping">>}
AllScripts == Sessions \union Subscribing \union Listing \union Cancels \union Broken
BrokenScripts == {s \in Upto({"malformed", "ping"}, 2) : Count(s, {"malformed"}) > 0}
=============================================================================
