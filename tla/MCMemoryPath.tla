---------------------------- MODULE MCMemoryPath ----------------------------
(* Instances of MemoryPath for TLC. *)
EXTENDS MemoryPath

R(addr, len)  == [op |-> "read", addr |-> addr, len |-> len, data |-> <<>>, phase |-> "Request"]
W(addr, data) == [op |-> "write", addr |-> addr, len |-> Len(data), data |-> data,
                  phase |-> "Request"]
Late(req)     == [req EXCEPT !.phase = "Transfer"]
Region(name, base, size) == [name |-> name, base |-> base, size |-> size]

(* The window of the RAM one byte longer or shorter than it, the UART next *)
(* to it or at the end of the address space; and maps that are refused.    *)
MCMaps == {<<Region("ram", 2, 4), Region("uart", 6, 8)>>,
           <<Region("uart", 8, 8), Region("ram", 2, 2)>>,
           <<Region("ram", 2, 5), Region("uart", 6, 8)>>,
           <<Region("ram", 2, 4), Region("uart", 9, 8)>>,
           <<Region("ram", 2, 4), Region("uart", 6, 0)>>}

Seg(offset, bytes) == [offset |-> offset, bytes |-> bytes]
MCImages == {<<>>, <<Seg(2, <<1>>), Seg(0, <<1>>)>>,
             <<Seg(1, <<1, 1>>), Seg(0, <<1, 0>>)>>, <<Seg(2, <<1, 1>>)>>}

MCMemRequests == {R(2, 3), R(3, 2), R(5, 1), R(5, 2), R(1, 2), R(15, 2), R(2, 0), Late(R(2, 1)),
                  W(2, <<1, 1, 1>>), W(3, <<0, 0>>), W(2, <<0>>), W(4, <<1, 1>>),
                  W(6, <<1>>), W(8, <<1>>), R(10, 4), R(12, 1), R(12, 3)}

Block(a, b) == [x \in 0..1 |-> IF x = 0 THEN a ELSE b]
DR(lba)       == [op |-> "read", lba |-> lba, data |-> <<>>, phase |-> "Request"]
DW(lba, data) == [op |-> "write", lba |-> lba, data |-> data, phase |-> "Request"]
MCDiskImages == {<<0, 0, 1, 1>>, <<1, 0, 1>>, <<1, 1, 1, 1, 1, 1, 1, 1>>}
MCDiskRequests == {DR(0), DR(1), DR(2), DR(3), Late(DR(0)), DW(0, Block(1, 0)), DW(1, Block(0, 0)),
                   DW(2, Block(1, 1)), DW(0, [x \in 0..0 |-> 1])}
=============================================================================
