--------------------------- MODULE MCMessageBuilder ---------------------------
EXTENDS MessageBuilder

\* A record of one ptr and one byte, and an 8-aligned scalar.
Node == [size |-> 4, align |-> 2, ptrs |-> {0}]
Long == [size |-> 8, align |-> 8, ptrs |-> {}]

SmallTypes == {Node, Long}
SmallElems == {[size |-> 4, align |-> 4]}
=============================================================================
