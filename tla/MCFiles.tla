------------------------------ MODULE MCFiles ------------------------------
(* Small instances of Files and its refinement for TLC.                      *)
EXTENDS FilesRefinement

Symmetry == Permutations(Block) \cup Permutations(Task)

\* With a NAME_SIZE of 7, "b" just fits and "c" is cut to what "b" is too.
MCNameLen ==
    [n \in Name |-> CASE n = "a" -> 1 [] n = "b" -> 6 [] n = "c" -> 14 [] OTHER -> 4]
MCShortened == [n \in Name |-> IF n = "c" THEN "b" ELSE n]
MCProcName == <<"uptime", "cpuinfo">>
MCSeekTo == {-1, 1}
MCProcLen == [t \in Time |-> 2 + t]

File(path, size) == [path |-> path, is_dir |-> FALSE, size |-> size]
Dir(path) == [path |-> path, is_dir |-> TRUE, size |-> 0]

\* Plain, nested, with a trailing and with doubled slashes, and too deep.
MCEntry ==
    {File(<<"a">>, 1), File(<<"b">>, 3), File(<<"a", "b">>, 2),
     File(<<"a", EMPTY, "c">>, 1), File(<<"a", "b", "a", "c">>, 2),
     Dir(<<"a", EMPTY>>), Dir(<<"b", EMPTY>>), Dir(<<EMPTY>>)}

MCArchive == UNION {[1..n -> MCEntry] : n \in 1..3}

\* /b is a file of 3 bytes, /a a directory of 2 entries, more than a chunk.
MCBooted == {<<File(<<"b">>, 3), File(<<"a", "b">>, 2), File(<<"a", EMPTY, "c">>, 1)>>}

MCPath ==
    {<<"a">>, <<"b">>, <<"c">>, <<"a", "b">>, <<"a", "c">>, <<"a", "b", "a">>,
     <<"a", "b", "a", "c">>, <<"b", "a">>, <<EMPTY, "a", EMPTY>>,
     <<"a", EMPTY, "b">>, <<"proc", "uptime">>, <<EMPTY, "proc", "uptime">>, << >>}

\* The hypothesis under which Files implements Descriptors.
ASSUME MCDirectoriesFit == DirectoriesFit

============================================================================
