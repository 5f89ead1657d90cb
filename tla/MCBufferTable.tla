--------------------------- MODULE MCBufferTable ---------------------------
(* BufferTable on a small device: four slots, two per session.             *)
EXTENDS BufferTable, TLC

Symmetry == Permutations(Sessions)

Copy(src, dst, offset, len) ==
  [opcode |-> "COPY", len |-> len, src |-> src, src_offset |-> 0,
   dst |-> dst, dst_offset |-> offset, src2 |-> MaxBuffers, src2_offset |-> 0]

Compute(opcode, src2, offset) ==
  [opcode |-> opcode, len |-> 2, src |-> 0, src_offset |-> 0,
   dst |-> 0, dst_offset |-> 0, src2 |-> src2, src2_offset |-> offset]

(* Buffer ids in and out of range; an offset past the end of a one-page    *)
(* buffer and one so large that offset + len passes 2^Width; an opcode     *)
(* with a second input.                                                    *)
MCRequests ==
  {Copy(0, dst, offset, 2) : dst \in {1, 2, MaxBuffers}, offset \in {1, 7}}
  \cup {Compute("TILE_MATMUL", src2, 0) : src2 \in {1, 2}}
=============================================================================
