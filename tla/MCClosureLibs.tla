--------------------------- MODULE MCClosureLibs ---------------------------
(* All graphs of three libraries, cycles included, one of them maybe unknown. *)
EXTENDS ClosureLibs

MCLibs == {"a", "b", "c"}

Lists == {<< >>, <<"a">>, <<"b">>, <<"c">>, <<"a", "b">>, <<"c", "a">>, <<"b", "c">>,
          <<"a", "b", "c">>}

MCGraphs == UNION {[D -> Lists] : D \in {MCLibs, MCLibs \ {"b"}}}
=============================================================================
