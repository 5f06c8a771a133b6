---------------------------- MODULE MCOverlayStage ----------------------------
EXTENDS OverlayStage

\* A directory three deep with a compiled file in it, and one to link to.
SmallPaths == {<<"a">>, <<"a", "b">>, <<"a", "b", "c">>, <<"d">>, <<"d", "b">>}

ToD == <<"d">>

Nowhere == [dirs |-> {}, files |-> {}]

\* d is __pycache__ and c a .pyc, or neither is.
NoneOrBoth == {Nowhere, [dirs |-> {"d"}, files |-> {"c"}]}

OnlyNone == {Nowhere}

\* The two directories side by side are walked in either order, and nothing else varies.
ASSUME WalksOfSmallPaths == Cardinality(Walks) = 2
=============================================================================
