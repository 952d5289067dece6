----------------------------- MODULE MCWorkTree -----------------------------
EXTENDS WorkTree

MCPath == {"a", "a/x", "a/x/y", "b"}
MCBelow == {<<"a", "a/x">>, <<"a", "a/x/y">>, <<"a/x", "a/x/y">>}
MCBefore == {<<"a", "a/x">>, <<"a", "a/x/y">>, <<"a", "b">>, <<"a/x", "a/x/y">>, <<"a/x", "b">>, <<"a/x/y", "b">>}
MCContent == {1, 2, 3, 4}

T4(a, x, y, b) == [p \in MCPath |-> CASE p = "a" -> a [] p = "a/x" -> x [] p = "a/x/y" -> y [] p = "b" -> b]
T(a, x, b) == T4(a, x, None, b)

Empty0 == T(None, None, None)
A1B1 == T(1, None, 1)
A2B1 == T(2, None, 1)
A3B1 == T(3, None, 1)
X1B1 == T(None, 1, 1)
Y1 == T4(None, None, 1, None)
MCTrees == {Empty0, A1B1, A2B1, A3B1, X1B1, Y1}

MCIndexes == {FromTree(t) : t \in {Empty0, A1B1, A2B1, X1B1, A3B1}}
             \cup {[FromTree(T(None, None, 1)) EXCEPT !["a"] = Sides(1, 2, 3)],
                   [FromTree(T(None, None, 1)) EXCEPT !["a"] = Sides(1, 2, None), !["a/x"] = Sides(None, None, 1)]}

MCWorkTrees == {w \in {T(a, x, b) : a \in {None, Dir, 1, 2, 3}, x \in {None, 1, 3}, b \in {1, 3}} : Shaped(w)}

\* A file two directories down, and where the upper one is.
Deep == {T4(Dir, Dir, 1, 1), T4(Dir, Dir, 3, None), A1B1, A3B1, T(Dir, 1, 1), Empty0}

MCStarts == (MCIndexes \X MCWorkTrees \X {Empty0, A1B1, X1B1})
            \cup ({FromTree(Y1), FromTree(A1B1), FromTree(X1B1), FromTree(Empty0)} \X Deep \X {Y1, A1B1})
MCCheckout == {"checkout"}
MCRecovery == {"reset-hard"}
=============================================================================
