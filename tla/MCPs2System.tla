---------------------------- MODULE MCPs2System -----------------------------
EXTENDS Ps2System

ByteOf(n) == [k \in 0 .. DATA_BITS - 1 |-> (n \div 2^k) % 2]

\* one with an edge at every bit, one with none
Codes == {ByteOf(n) : n \in {1, 3}}
=============================================================================
