---------------------------- MODULE MCPagedBTree ----------------------------
EXTENDS PagedBTree

\* Trees of one, two and three levels: filled upwards, downwards, inside out.
MCFillings ==
    {<<>>,
     <<2, 4, 6, 8>>,
     <<1, 2, 3, 4, 5, 6, 7, 8, 9, 10>>,
     <<10, 9, 8, 7, 6, 5, 4, 3, 2, 1>>,
     <<1, 3, 5, 7, 9, 11, 10, 8, 6, 4>>,
     <<5, 6, 4, 7, 3, 8, 2, 9, 1, 10, 11>>}

\* A tree of four levels: upwards, one key left out.
MCTallFilling == {<<1, 2, 3, 4, 5, 6, 8, 9, 10, 11, 12, 13, 14, 15, 16, 17, 18, 19>>}
=============================================================================
