---------------------------- MODULE MCFolderTree ----------------------------
(* A media house "a" with the contents "a/b" and "a/c". *)
EXTENDS FolderTree

Job(kind, path, deadline) == [kind |-> kind, path |-> path, deadline |-> deadline]

MCJobs == {Job("download", <<"a">>, "future"), Job("addto", <<"a">>, "future"),
           Job("noovo", <<"a", "b">>, "past"),
           Job("mstore", <<"a", "b">>, "past"), Job("mstore", <<"a", "c">>, "future"),
           Job("delete", <<"a">>, "future"), Job("recursive", <<"a", "b">>, "future")}
=============================================================================
