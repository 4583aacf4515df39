------------------------------ MODULE MCFixnum ------------------------------
EXTENDS Fixnum
MCOperands == {Fix(n) : n \in {IntMin, IntMin + 1, -3, -1, 0, 1, 2, 4, IntMax}}
                \cup {[k |-> "real", v |-> 1], [k |-> "nan", v |-> 0], Nothing}
=============================================================================
