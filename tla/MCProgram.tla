------------------------------ MODULE MCProgram ------------------------------
(* One instance of every image: two keys of five, one logged number or     *)
(* echo between two interrupts, three lines of heap and one of flash, and  *)
(* three profiled calls between two interrupts that call one function of   *)
(* the program and one of their own, and sleeps of up to 28 big loops.     *)
(*                                                                         *)
(* Files: two devices, stdin and stdout, a stderr that does not exist, a   *)
(* file system mounted on /mnt, a DMA channel and a node without a name;   *)
(* one descriptor more than system.h has.                                  *)
EXTENDS Program

MCFormats    == {[zero |-> FALSE, width |-> 3, letter |-> "d", arg |-> 250]}
MCRenderings == [zero : BOOLEAN, width : {0, 1, 4}, letter : {"d", "i", "u", "o", "x", "X"},
                 arg : {0, 9, 10, 127, 128, 255}]
MCWrites     == {<<"a">>, <<"a", "^D", "^D", "c">>}
MCHeap       == 8 .. 19
MCFlash      == 20 .. 23
MCSections   == <<[from |-> 20, to |-> 0, end |-> 3], [from |-> 3, to |-> 3, end |-> 4],
                  [from |-> 23, to |-> 4, end |-> 5]>>
MCThreadCalls == {<<"f", "main">>, <<"g", "main">>}
MCSleeps      == 0 .. 255
MCIrqCalls    == {<<"f", "main">>, <<"h", "isr">>}

MCNodes == {"null", "uart", "tty", "fs", "dma", "anon"}
MCSysInit == <<"anon", "uart", "tty", "dma", "fs">>
MCList  == [d \in MCNodes |-> CASE d = "fs" -> "fs" [] d = "dma" -> "txchan" [] OTHER -> "dev"]
MCName  == [d \in MCNodes |->
  CASE d = "fs"   -> <<"mnt">>
    [] d = "anon" -> <<"none">>
    [] d = "dma"  -> <<"dev", "tty">>   \* as it may be: channels have a list of their own
    [] OTHER      -> <<"dev", d>>]
MCProvides == [d \in MCNodes |->
  CASE d = "null" -> {"write"}
    [] d = "uart" -> {"read", "write", "close", "ioctl"}
    [] d = "tty"  -> {"open", "close", "read"}
    [] OTHER      -> {"open", "close", "read", "write", "lseek"}]
MCNoName == <<"none">>
MCPaths == {<<"dev", "tty">>, <<"dev", "uart">>, <<"mnt", "file">>}
MCStd   == [f \in 0 .. 2 |->
  CASE f = 0 -> <<"dev", "tty">> [] f = 1 -> <<"dev", "uart">> [] OTHER -> <<"dev", "lcd">>]
MCFlags == {{}, {"O_RDWR", "O_NONBLOCK", "EXCL"}}
===============================================================================
