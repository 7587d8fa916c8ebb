------------------------ MODULE MCDependencyBuilder ------------------------
EXTENDS DependencyBuilder

MCPackages == {"b", "c", "d"}
MCRoot == "conanfile.py"

\* Before the first run nothing is there; or whatever earlier runs may have left: recipes
\* without binaries, or with one of them, if what the package needs has that one.
NoCache == {[p \in MCPackages |-> {}]}
LeftBy(needs) ==
    {c \in [MCPackages -> {{}, {"recipe"}, {"recipe", "Debug"}, {"recipe", "Release"},
                           {"recipe", "Debug", "Release"}}] :
        \A p \in MCPackages : \A d \in ToSet(needs[p]) : c[p] \subseteq c[d] \cup {"recipe"}}

\* The conanfile needs b and c, which both need d.
DiamondRequires ==
    [p \in MCPackages \cup {MCRoot} |->
        CASE p = MCRoot -> <<"b", "c">> [] p = "b" -> <<"d">> [] p = "c" -> <<"d">>
          [] p = "d" -> << >>]

\* The conanfile needs b; b and c need each other; c needs d, which has no conanfile.
CycleRequires ==
    [p \in MCPackages \cup {MCRoot} |->
        CASE p = MCRoot -> <<"b">> [] p = "b" -> <<"c", "d">> [] p = "c" -> <<"b">>
          [] p = "d" -> << >>]
CycleConanfiles == {"b", "c"}
DiamondCaches == LeftBy(DiamondRequires)
CycleCaches == LeftBy(CycleRequires)
=============================================================================
