--------------------------- MODULE MCPluginResponses ---------------------------
EXTENDS PluginResponses

MCToUpper == [GET |-> "GET", get |-> "GET", POST |-> "POST"]
MCGroups == {<<>>, <<"/", "a">>}
MCPatterns == {[method |-> "GET", path |-> <<"/">>],
               [method |-> "get", path |-> <<"/", "a">>],
               [method |-> "POST", path |-> <<"/", "a", "/">>]}
MCRequests == {[method |-> "get", path |-> <<"/", "a", "/", "a">>],
               [method |-> "POST", path |-> <<"/", "a", "/", "a", "/", "b">>]}
=============================================================================
