----------------------------- MODULE MCUartLink -----------------------------
(***************************************************************************)
(* Bytes for model checking UartLink: the key 0, whose frame has its edges *)
(* far apart, and the key n, with edges at most cells.                     *)
(***************************************************************************)
EXTENDS UartLink

ByteOf(n) == [k \in 0 .. DATA_BITS - 1 |-> (n \div 2^k) % 2]

Commands == {ByteOf(n) : n \in {48, 110}}
=============================================================================
