-------------------------------- MODULE MCFs --------------------------------
(* Small instances of Fs. *)
EXTENDS Fs, TLC

CONSTANTS p1, p2

Abs(elems) == [abs |-> TRUE, elems |-> elems]
Rel(elems) == [abs |-> FALSE, elems |-> elems]
Call(op, path) == [op |-> op, path |-> path]

\* "/", and in the second image also "/a" and "/a/b".
Root(n, more) == [type |-> T_DIR, nlink |-> n, ents |-> Dots(1, 1) \o more]
EmptyTree == [i \in Inums |-> IF i = 1 THEN Root(1, <<>>) ELSE Free]
DeepTree == [i \in Inums |->
    CASE i = 1 -> Root(2, <<Entry("a", 2)>>)
      [] i = 2 -> [type |-> T_DIR, nlink |-> 2, ents |-> Dots(2, 1) \o <<Entry("b", 3)>>]
      [] i = 3 -> [type |-> T_DIR, nlink |-> 1, ents |-> Dots(3, 2)]
      [] OTHER -> Free]

FileCalls == {
    Call("creat", Abs(<<"a">>)),
    [op |-> "link", path |-> Abs(<<"a">>), new |-> Abs(<<"b">>)],
    Call("unlink", Abs(<<"a">>)), Call("unlink", Abs(<<"b">>)),
    [op |-> "open", path |-> Abs(<<"b">>), omode |-> "r"]}

DirCalls == {
    Call("mkdir", Abs(<<"a">>)), Call("mkdir", Abs(<<"a", "b">>)), Call("mkdir", Abs(<<"a", "..">>)),
    Call("mknod", Rel(<<"b">>)),
    Call("unlink", Abs(<<"a">>)), Call("unlink", Abs(<<"a", "b">>)),
    Call("chdir", Abs(<<"a", "b">>)),
    [op |-> "open", path |-> Rel(<<"..">>), omode |-> "w"]}

FileWorld == [image |-> EmptyTree, calls |-> FileCalls]
DirWorld == [image |-> DeepTree, calls |-> DirCalls]
BothWorlds == {FileWorld, DirWorld}
OnlyFiles == {FileWorld}
OnlyDirs == {DirWorld}
Perms == Permutations(Procs)
=============================================================================
