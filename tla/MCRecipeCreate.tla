--------------------------- MODULE MCRecipeCreate ---------------------------
(* All graphs of four libraries that need only smaller ones, in any order  *)
(* unless they are three, and some where a library is not known; requests  *)
(* in any order, one with repetitions; a cache and a remote that lack one  *)
(* library, and of another one build type.                                 *)
EXTENDS RecipeCreate

MCLibs == 1..4

\* The lists, without repetition, of libraries below v.
Lists(v) ==
    {s \in UNION {[1..n -> 1..(v - 1)] : n \in 0..3} :
        \A i, j \in DOMAIN s : s[i] = s[j] => i = j}

Graph(s2, s3, s4) ==
    [v \in MCLibs |-> CASE v = 1 -> << >> [] v = 2 -> s2 [] v = 3 -> s3 [] v = 4 -> s4]

MCGraphs ==
    LET Some == {s \in Lists(4) : Len(s) = 3 => s[2] = 2}
        All == {Graph(s2, s3, s4) : s2 \in Lists(2), s3 \in Lists(3), s4 \in Some}
        Few == {Graph(s2, <<2, 1>>, s4) : s2 \in Lists(2), s4 \in {<< >>, <<3>>, <<1>>, <<2, 3>>}}
    IN  All \cup {[v \in MCLibs \ {2} |-> g[v]] : g \in Few}

MCRequests ==
    {<<4, 3>>, <<2, 4, 2>>}

MCOptions == {[remove |-> r, upload |-> TRUE] : r \in BOOLEAN}

\* Of 2 nothing; of 3 what a failed create or upload of its Release leaves; all of the rest.
MCStores ==
    {[v \in MCLibs |-> [t \in BuildTypes |->
        CASE v = 2 -> "none" [] v = 3 /\ t = "Release" -> "recipe" [] OTHER -> "old"]]}
=============================================================================
