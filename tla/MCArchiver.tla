----------------------------- MODULE MCArchiver -----------------------------
(* Two archives on disk that share an entry, and an empty one; every kind  *)
(* of source and sink; and two calls with the same sources and sink.       *)
EXTENDS Archiver

TheOriginal == [a |-> {"x"}, b |-> {"x", "y"}, c |-> {"z"}, d |-> {}]
ThePairs ==
    {<<"path", "path">>, <<"path", "file">>, <<"file", "file">>, <<"file", "stream">>, <<"stream", "path">>}
TheSourceLists ==
    {<<>>, <<[kind |-> "file", place |-> "d"]>>}
        \cup {<<[kind |-> k[1], place |-> "a"], [kind |-> k[2], place |-> "b"]>> : k \in ThePairs}
TheSinks ==
    {[kind |-> "path", place |-> "a"], [kind |-> "path", place |-> "c"],
     [kind |-> "writer", place |-> Memory], [kind |-> "closer", place |-> Memory], [kind |-> "url", place |-> Remote]}
TheOperations == {"Merge", "Clone", "Transform", "ArchiveFiles", "UnzipFile", "UnzipToMap"}

=============================================================================
