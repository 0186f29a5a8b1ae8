--------------------------- MODULE MC_ThreadCache ---------------------------
(* Small instances of ThreadCache: two size classes.                       *)
EXTENDS ThreadCache, TLC

CONSTANTS t1, t2

TwoThreads      == {t1, t2}
OneThread       == {t1}
Interchangeable == Permutations(Threads)

SmallAndLarge == [c \in Classes |-> c * 3 + 1]
FewBlocks     == [c \in Classes |-> 5 - c]
ManySmall     == [c \in Classes |-> 8 - 7 * c]
ShortLists    == [c \in Classes |-> 3 - c]
Singles       == [c \in Classes |-> 1]
=============================================================================
