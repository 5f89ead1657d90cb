-------------------------------- MODULE Gemm --------------------------------
(***************************************************************************)
(* The matrix programs of Track A: tiled GEMM with zero-padded boundary    *)
(* tiles (stage 3; stages 1 and 2 are its cases without padding, stage 1   *)
(* with a single tile along K), and one GEMM row as a chain of SCALE_ADD   *)
(* commands, each waited for before the next one is submitted.             *)
(* Sources: src/track-a/dma_accel_gemm_stage3.cpp,                         *)
(* dma_accel_gemm_row_via_scale_add.cpp.                                   *)
(*                                                                         *)
(* A Buffer is its contents, indexed as the code indexes its floats.  The  *)
(* values stay so small that float arithmetic on them is exact; those of   *)
(* the row are doubled, for A_row has halves.  Buffers count against the   *)
(* quota of the session: alloc_buffer() throws at the limit.               *)
(***************************************************************************)
EXTENDS Integers, Sequences, FiniteSetsExt

CONSTANTS
  Tile,      \* kTile (128)
  Dims,      \* what kM, kK and kN of the tiled program range over
  RowTerms,  \* what kK of the row program ranges over
  RowLen,    \* kN of the row program (1024)
  Quota      \* DEFAULT_BUFFER_QUOTA (16)

ASSUME GemmAssumption ==
  /\ Tile \in Nat \ {0} /\ Quota \in Nat /\ RowLen \in Nat \ {0}
  /\ Dims \subseteq Nat \ {0} /\ RowTerms \subseteq Nat \ {0}

VARIABLES
  program,  \* tiled or row
  m, k, n,  \* kM, kK, kN
  phase,    \* where the program is, or its verdict: pass, mismatch, exception, failed
  a, b, c,  \* a_tiles, b_tiles and c_tiles; in the row program zero, b_rows and acc
  tk,       \* tiled: K-tiles added into the C tile at hand
  busy      \* row: the SCALE_ADD commands submitted and not executed

vars == <<program, m, k, n, phase, a, b, c, tk, busy>>

-----------------------------------------------------------------------------
(* Tiled GEMM                                                              *)

CeilDiv(x, y) == (x + y - 1) \div y

ValidExtent(t, dim) == Min({Tile, dim - t * Tile})

AValue(row, col) == (row * 3 + col) % 7
BValue(row, col) == (row + col * 5) % 11

Cells == 0..Tile * Tile - 1
RowOf(i) == i \div Tile
ColOf(i) == i % Tile
Zero == [i \in Cells |-> 0]

(* The whole tile is cleared, then its rows x cols corner filled.          *)
ATile(ti, tj) ==
  LET rows == ValidExtent(ti, m)
      cols == ValidExtent(tj, k)
  IN [i \in Cells |->
        IF RowOf(i) < rows /\ ColOf(i) < cols
        THEN AValue(ti * Tile + RowOf(i), tj * Tile + ColOf(i)) ELSE 0]

BTile(ti, tj) ==
  LET rows == ValidExtent(ti, k)
      cols == ValidExtent(tj, n)
  IN [i \in Cells |->
        IF RowOf(i) < rows /\ ColOf(i) < cols
        THEN BValue(ti * Tile + RowOf(i), tj * Tile + ColOf(i)) ELSE 0]

SumOver(S, f(_)) == MapThenSumSet(f, S)

(* c_data after the multiply-accumulate loops over one pair of tiles.      *)
Accumulated(old, x, y) ==
  [i \in Cells |->
     old[i] + SumOver(0..Tile - 1, LAMBDA j : x[RowOf(i) * Tile + j] * y[j * Tile + ColOf(i)])]

Reference(row, col) == SumOver(0..k - 1, LAMBDA j : AValue(row, j) * BValue(j, col))

Buffers == Len(a) + Len(b) + Len(c)

(* alloc_buffer() throws and main() reports the exception.                 *)
QuotaThrows ==
  /\ phase \in {"a", "b", "c", "rows", "zero", "submit"}
  /\ Buffers >= Quota
  /\ phase' = "exception"
  /\ UNCHANGED <<program, m, k, n, a, b, c, tk, busy>>

FillA ==
  LET grid == CeilDiv(k, Tile)
  IN /\ phase = "a" /\ Buffers < Quota
     /\ a' = Append(a, ATile(Len(a) \div grid, Len(a) % grid))
     /\ phase' = IF Len(a') = CeilDiv(m, Tile) * grid THEN "b" ELSE "a"
     /\ UNCHANGED <<program, m, k, n, b, c, tk, busy>>

FillB ==
  LET grid == CeilDiv(n, Tile)
  IN /\ phase = "b" /\ Buffers < Quota
     /\ b' = Append(b, BTile(Len(b) \div grid, Len(b) % grid))
     /\ phase' = IF Len(b') = CeilDiv(k, Tile) * grid THEN "c" ELSE "b"
     /\ UNCHANGED <<program, m, k, n, a, c, tk, busy>>

NewC ==
  /\ phase = "c" /\ Buffers < Quota
  /\ c' = Append(c, Zero)
  /\ phase' = "mac"
  /\ UNCHANGED <<program, m, k, n, a, b, tk, busy>>

(* a_tile_at(ti, tk) and b_tile_at(tk, tj) for the C tile last added.      *)
Mac ==
  LET kTiles == CeilDiv(k, Tile)
      nTiles == CeilDiv(n, Tile)
      ti == (Len(c) - 1) \div nTiles
      tj == (Len(c) - 1) % nTiles
      last == tk + 1 = kTiles
  IN /\ phase = "mac"
     /\ c' = [c EXCEPT ![Len(c)] = Accumulated(@, a[ti * kTiles + tk + 1], b[tk * nTiles + tj + 1])]
     /\ tk' = IF last THEN 0 ELSE tk + 1
     /\ phase' = CASE ~ last -> "mac"
                   [] Len(c) = CeilDiv(m, Tile) * nTiles -> "compare"
                   [] OTHER -> "c"
     /\ UNCHANGED <<program, m, k, n, a, b, busy>>

(* Only the valid region of each C tile is compared.                       *)
TilesMatch ==
  \A ti \in 0..CeilDiv(m, Tile) - 1, tj \in 0..CeilDiv(n, Tile) - 1 :
    \A row \in 0..ValidExtent(ti, m) - 1, col \in 0..ValidExtent(tj, n) - 1 :
      c[ti * CeilDiv(n, Tile) + tj + 1][row * Tile + col]
        = Reference(ti * Tile + row, tj * Tile + col)

Compare ==
  /\ phase = "compare"
  /\ phase' = IF TilesMatch THEN "pass" ELSE "mismatch"
  /\ UNCHANGED <<program, m, k, n, a, b, c, tk, busy>>
-----------------------------------------------------------------------------
(* One row of a GEMM                                                       *)

Row == 0..RowLen - 1
ARowValue(j) == j + 1
BRowValue(j, i) == (i % 13) + j

FillRow ==
  /\ phase = "rows" /\ Buffers < Quota
  /\ b' = Append(b, [i \in Row |-> BRowValue(Len(b), i)])
  /\ phase' = IF Len(b') = k THEN "zero" ELSE "rows"
  /\ UNCHANGED <<program, m, k, n, a, c, tk, busy>>

FillZero ==
  /\ phase = "zero" /\ Buffers < Quota
  /\ a' = <<[i \in Row |-> 0]>>
  /\ phase' = "submit"
  /\ UNCHANGED <<program, m, k, n, b, c, tk, busy>>

(* The next accumulator is allocated, and the command that fills it given  *)
(* to the device.                                                          *)
RowSubmit ==
  /\ phase = "submit" /\ Buffers < Quota
  /\ c' = Append(c, [i \in Row |-> 0])
  /\ busy' = busy \cup {Len(c')}
  /\ phase' = "wait"
  /\ UNCHANGED <<program, m, k, n, a, b, tk>>

(* The device (external) executes what it was given in any order.          *)
ScaleAdd(j) ==
  LET prev == IF j = 1 THEN a[1] ELSE c[j - 1]
  IN /\ j \in busy
     /\ c' = [c EXCEPT ![j] = [i \in Row |-> b[j][i] * ARowValue(j - 1) + prev[i]]]
     /\ busy' = busy \ {j}
     /\ UNCHANGED <<program, m, k, n, phase, a, b, tk>>

(* Mutant: the chain is submitted without waiting for its steps.           *)
RowWaitNot ==
  /\ phase = "wait"
  /\ phase' = IF Len(c) < k THEN "submit" ELSE IF busy = {} THEN "row" ELSE "wait"
  /\ UNCHANGED <<program, m, k, n, a, b, c, tk, busy>>

(* wait() returns when the step at hand is complete.                       *)
RowWait ==
  /\ phase = "wait" /\ Len(c) \notin busy
  /\ phase' = IF Len(c) < k THEN "submit" ELSE "row"
  /\ UNCHANGED <<program, m, k, n, a, b, c, tk, busy>>

(* The wait times out, or the command is complete with an error status.    *)
RowFails ==
  /\ phase = "wait"
  /\ phase' = "failed"
  /\ UNCHANGED <<program, m, k, n, a, b, c, tk, busy>>

ReferenceRow(i) == SumOver(0..k - 1, LAMBDA j : ARowValue(j) * BRowValue(j, i))

RowCompare ==
  /\ phase = "row"
  /\ phase' = IF \A i \in Row : c[k][i] = ReferenceRow(i) THEN "pass" ELSE "mismatch"
  /\ UNCHANGED <<program, m, k, n, a, b, c, tk, busy>>

-----------------------------------------------------------------------------
Init ==
  /\ \/ program = "tiled" /\ phase = "a" /\ m \in Dims /\ k \in Dims /\ n \in Dims
     \/ program = "row" /\ phase = "rows" /\ m = 1 /\ k \in RowTerms /\ n = RowLen
  /\ a = <<>> /\ b = <<>> /\ c = <<>>
  /\ tk = 0 /\ busy = {}

Next ==
  \/ FillA \/ FillB \/ NewC \/ Mac \/ Compare
  \/ FillRow \/ FillZero \/ RowSubmit \/ RowWait \/ RowFails \/ RowCompare
  \/ \E j \in busy : ScaleAdd(j)
  \/ QuotaThrows

Spec == Init /\ [][Next]_vars

-----------------------------------------------------------------------------
(* Properties                                                              *)

(* The programs' verdict is right.  Their self-check never fails: no       *)
(* schedule of the device makes the tiled product or the chained row       *)
(* differ from the reference.  And when the tiled program says PASS, every *)
(* element of C, not only those it compared, is in its tile and equals the *)
(* element of the untiled product: padding and the tile arithmetic lose    *)
(* and add nothing, whether or not the dimensions are multiples of kTile.  *)
VerdictRight ==
  /\ phase # "mismatch"
  /\ program = "tiled" /\ phase = "pass" =>
       \A row \in 0..m - 1, col \in 0..n - 1 :
         LET t == RowOf(row) * ((n + Tile - 1) \div Tile) + RowOf(col) + 1
         IN t <= Len(c) /\ c[t][ColOf(row) * Tile + ColOf(col)] = Reference(row, col)
=============================================================================
