---------------------------- MODULE ErasureCode ----------------------------
(***************************************************************************)
(* The erasure code (erasure/gf256.py, matrix.py, codec.py and the region  *)
(* kernels of backends.py): arithmetic of GF(2^8) through tables, the      *)
(* systematic Cauchy matrix, its inversion, and what encodes a stripe and  *)
(* gets its bytes back.  Indices start at 0 as in the code; a shard is a   *)
(* function from offsets to bytes and a set of shards one from indices.    *)
(***************************************************************************)
EXTENDS Integers, Sequences, FiniteSets, FiniteSetsExt, SequencesExt, Functions

CONSTANTS
  ShardAlign    \* SHARD_ALIGN, 64 in the code

Poly == 285     \* 0x11D
Plus[a, b \in Nat] == IF a = 0 THEN b ELSE 2 * Plus[a \div 2, b \div 2] + ((a + b) % 2)
Double(x) == IF 2 * x < 256 THEN 2 * x ELSE Plus[2 * x, Poly]
(* _build_tables: the powers of 2, repeated so that a sum of logs needs no   *)
(* modulo, and their logs.  As sequences they start at 1.                    *)
Run[n \in 0 .. 15, x \in 0 .. 255] == IF n = 0 THEN <<>> ELSE <<x>> \o Run[n - 1, Double(x)]
Grown[n \in 1 .. 17] == IF n = 1 THEN Run[15, 1] ELSE LET s == Grown[n - 1] IN s \o Run[15, Double(Last(s))]
Powers == Grown[17]
ExpsOf256 == Powers \o <<1>> \o Powers \o <<1>>
Exps == Powers \o Powers \o <<1, 2>>
Logs == LET p == Powers IN <<>> \o [x \in 1 .. 255 |-> CHOOSE i \in 0 .. 254 : p[i + 1] = x]
Exp(i) == Exps[i + 1]
Log(x) == Logs[x]

Mul(a, b) == IF 0 \in {a, b} THEN 0 ELSE Exp(Log(a) + Log(b))
Div(a, b) == IF a = 0 THEN 0 ELSE Exp(Log(a) + 255 - Log(b))
Inv(a) == Exp(255 - Log(a))
Pow(a, n) == IF n = 0 THEN 1 ELSE IF a = 0 THEN 0 ELSE Exp((Log(a) * n) % 255)

-----------------------------------------------------------------------------
SumOf(f) == FoldFunction(LAMBDA x, y : Plus[x, y], 0, f)
Unit(i, k) == [j \in 0 .. k - 1 |-> IF i = j THEN 1 ELSE 0]
(* cauchy: 1 / (x_i + y_j) with x_i the index of the row, y_j of the column. *)
CauchyRepeated(i, k) == [j \in 0 .. k - 1 |-> Inv(Plus[k, j])]
Cauchy(i, k) == [j \in 0 .. k - 1 |-> Inv(Plus[i, j])]
Parity(i, k) == IF k = 1 THEN Unit(0, 1) ELSE Cauchy(i, k)
EncodingMatrix(k, m) == [i \in 0 .. k + m - 1 |-> IF i < k THEN Unit(i, k) ELSE Parity(i, k)]

Singular == <<>>   \* ValueError
(* invert: one column of the elimination, of the matrix beside the identity. *)
Eliminated(aug, col) ==
  LET n == Cardinality(DOMAIN aug)
      pivots == {r \in col .. n - 1 : aug[r][col] # 0}
      p == Min(pivots)
      row == [j \in DOMAIN aug[p] |-> Mul(aug[p][j], Inv(aug[p][col]))]
      swapped == [aug EXCEPT ![p] = aug[col], ![col] = row]
  IN IF pivots = {} THEN Singular
     ELSE [r \in DOMAIN aug |-> IF r = col THEN row
             ELSE [j \in DOMAIN row |-> Plus[swapped[r][j], Mul(swapped[r][col], row[j])]]]
Invert(mat) ==
  LET n == Cardinality(DOMAIN mat)
      Beside(r) == [j \in 0 .. 2 * n - 1 |-> IF j < n THEN mat[r][j] ELSE Unit(r, n)[j - n]]
      Step(aug, col) == IF aug = Singular THEN Singular ELSE Eliminated(aug, col - 1)
      done == FoldLeft(Step, [r \in 0 .. n - 1 |-> Beside(r)], [i \in 1 .. n |-> i])
  IN IF done = Singular THEN Singular ELSE [r \in 0 .. n - 1 |-> [j \in 0 .. n - 1 |-> done[r][j + n]]]

(* matmul of every backend: the sums of the scaled inputs.                   *)
MatMul(rows, inputs) ==
  [r \in DOMAIN rows |->
     [b \in DOMAIN inputs[0] |-> SumOf([c \in DOMAIN inputs |-> Mul(rows[r][c], inputs[c][b])])]]

-----------------------------------------------------------------------------
Aligned(size) == ((size + ShardAlign - 1) \div ShardAlign) * ShardAlign
ShardSizeFor(k, length) == IF length = 0 THEN ShardAlign ELSE Aligned((length + k - 1) \div k)

Split(k, data, size) ==
  [i \in 0 .. k - 1 |-> [b \in 0 .. size - 1 |->
     IF i * size + b < Len(data) THEN data[i * size + b + 1] ELSE 0]]
EncodeBytes(k, m, data) ==
  LET shards == Split(k, data, ShardSizeFor(k, Len(data)))
  IN shards @@ MatMul([i \in k .. k + m - 1 |-> EncodingMatrix(k, m)[i]], shards)

(* The data shards first, then the parity: the k smallest indices.           *)
ChooseSurvivors(k, available) == SubSeq(SetToSortSeq(available, <), 1, k)
DecodeMatrix(k, m, present) == Invert([r \in 0 .. k - 1 |-> EncodingMatrix(k, m)[present[r + 1]]])
ReconstructData(k, m, shards) ==
  LET present == ChooseSurvivors(k, DOMAIN shards)
      inverse == DecodeMatrix(k, m, present)
      missing == (0 .. k - 1) \ ToSet(present)
      recovered == MatMul([i \in missing |-> inverse[i]], [r \in 0 .. k - 1 |-> shards[present[r + 1]]])
  IN [i \in 0 .. k - 1 |-> IF i \in missing THEN recovered[i] ELSE shards[i]]
Reconstruct(k, m, shards, wanted) ==
  LET data == ReconstructData(k, m, shards)
      parity == MatMul([i \in wanted \ (0 .. k - 1) |-> EncodingMatrix(k, m)[i]], data)
  IN [i \in wanted \ DOMAIN shards |-> IF i < k THEN data[i] ELSE parity[i]]
DecodeBytes(k, m, shards, length) ==
  LET data == ReconstructData(k, m, shards)
      size == Cardinality(DOMAIN data[0])
  IN [n \in 1 .. length |-> data[(n - 1) \div size][(n - 1) % size]]
=============================================================================
