------------------------------- MODULE MCEcho -------------------------------
EXTENDS Echo

ByteOf(n) == [k \in 0 .. DATA_BITS - 1 |-> (n \div 2^k) % 2]
Bytes == {ByteOf(n) : n \in {1, 2}}
=============================================================================
