----------------------------- MODULE LinksProofs -----------------------------
(***************************************************************************)
(* The arithmetic of blocks and times, and the links that are built on it. *)
(* What the block arithmetic computes holds for every block size, offset   *)
(* and buffer, what the conversions keep of a time for words of any size,  *)
(* and the properties of the links for every set of targets, times and     *)
(* ids and any number of failures.  Products with the symbolic block size  *)
(* are beyond the solvers; the lemmas of the first part state what is      *)
(* needed of them.                                                         *)
(***************************************************************************)
EXTENDS Links, FiniteSetTheorems, TLAPS

-------------------------------------------------------------------------------
(* Blocks.                                                                   *)

\* Division with remainder by a block size.
LEMMA DivMod ==
  ASSUME NEW n \in Nat
  PROVE  /\ n \div BlockSize \in Nat
         /\ n % BlockSize \in 0 .. BlockSize - 1
         /\ n = BlockSize * (n \div BlockSize) + (n % BlockSize)
BY BlockAssumption, SMT

\* A greater multiple is greater by at least one block.
LEMMA NextMultiple ==
  ASSUME NEW a \in Int, NEW b \in Int, a < b
  PROVE  BlockSize * a + BlockSize <= BlockSize * b
BY BlockAssumption, SMT

\* Quotient and remainder are determined by the equation.
LEMMA DivModUnique ==
  ASSUME NEW n \in Nat, NEW q \in Nat, NEW r \in 0 .. BlockSize - 1,
         n = BlockSize * q + r
  PROVE  n \div BlockSize = q /\ n % BlockSize = r
<1>1. /\ n \div BlockSize \in Nat
      /\ n % BlockSize \in 0 .. BlockSize - 1
      /\ n = BlockSize * (n \div BlockSize) + (n % BlockSize)
  BY DivMod
<1>2. ~(n \div BlockSize < q)
  BY <1>1, NextMultiple, BlockAssumption
<1>3. ~(q < n \div BlockSize)
  BY <1>1, NextMultiple, BlockAssumption
<1>4. n \div BlockSize = q
  BY <1>1, <1>2, <1>3
<1> QED
  BY <1>1, <1>4, BlockAssumption

LEMMA MultipleInt ==
  ASSUME NEW q \in Int
  PROVE  BlockSize * q \in Int
BY BlockAssumption

LEMMA MultipleNext ==
  ASSUME NEW q \in Int
  PROVE  BlockSize * (q + 1) = BlockSize * q + BlockSize
BY BlockAssumption

\* The definition of compute_block_info with its divisions named.
LEMMA InfoFields ==
  ASSUME NEW offset, NEW len, NEW f, NEW r, NEW n, NEW e,
         f = offset \div BlockSize, r = offset % BlockSize,
         n = (r + len) \div BlockSize, e = (r + len) % BlockSize
  PROVE  LET info == compute_block_info(offset, len)
         IN  /\ info.from_block = f
             /\ info.from_offset = r
             /\ info.from_len = IF n = 0 THEN len ELSE BlockSize - r
             /\ info.to_block = IF e # 0 THEN f + n ELSE IF f + n = 0 THEN 0 ELSE f + n - 1
             /\ info.to_len = IF e # 0 THEN e ELSE BlockSize
BY DEF compute_block_info

\* The bounds of a buffer that is not empty: from_len and to_len are what the
\* first and the last block take, and the last byte is where the buffer ends.
LEMMA InfoShape ==
  ASSUME NEW offset \in Nat, NEW len \in Nat \ {0}
  PROVE  LET info == compute_block_info(offset, len)
         IN  /\ info.from_block \in Nat
             /\ info.to_block \in Nat
             /\ info.from_block <= info.to_block
             /\ info.from_offset \in 0 .. BlockSize - 1
             /\ info.from_len \in 1 .. BlockSize - info.from_offset
             /\ info.to_len \in 1 .. BlockSize
             /\ offset = BlockSize * info.from_block + info.from_offset
             /\ info.from_block = info.to_block => info.from_len = len
             /\ info.from_block # info.to_block =>
                  info.from_len = BlockSize - info.from_offset
             /\ info.from_block # info.to_block =>
                  BlockSize * info.to_block + info.to_len = offset + len
<1> DEFINE f == offset \div BlockSize
           r == offset % BlockSize
           n == (r + len) \div BlockSize
           e == (r + len) % BlockSize
           info == compute_block_info(offset, len)
<1>1. /\ f \in Nat
      /\ r \in 0 .. BlockSize - 1
      /\ offset = BlockSize * f + r
  BY DivMod
<1>2. r + len \in Nat /\ r + len > 0
  BY <1>1, BlockAssumption
<1>3. /\ n \in Nat
      /\ e \in 0 .. BlockSize - 1
      /\ r + len = BlockSize * n + e
  <2> HIDE DEF r
  <2> QED BY <1>2, DivMod
<1>4. /\ info.from_block = f
      /\ info.from_offset = r
      /\ info.from_len = IF n = 0 THEN len ELSE BlockSize - r
      /\ info.to_block = IF e # 0 THEN f + n ELSE IF f + n = 0 THEN 0 ELSE f + n - 1
      /\ info.to_len = IF e # 0 THEN e ELSE BlockSize
  <2> HIDE DEF f, r, n, e
  <2>1. /\ f = offset \div BlockSize
        /\ r = offset % BlockSize
        /\ n = (r + len) \div BlockSize
        /\ e = (r + len) % BlockSize
    BY DEF f, r, n, e
  <2> QED BY ONLY <2>1, InfoFields
<1> HIDE DEF f, r, n, e, info
<1>5. BlockSize * 0 = 0 /\ BlockSize * 1 = BlockSize
  BY BlockAssumption
<1>6. BlockSize * (f + n) = BlockSize * f + BlockSize * n
  BY <1>1, <1>3, BlockAssumption
<1>7. n # 0 => BlockSize * (f + n - 1) = BlockSize * f + BlockSize * n - BlockSize
  BY <1>1, <1>3, BlockAssumption
<1>8. n > 1 => BlockSize * n >= BlockSize + BlockSize
  BY <1>3, <1>5, NextMultiple, MultipleInt, BlockAssumption
<1>9. BlockSize * f \in Int /\ BlockSize * n \in Int
  BY <1>1, <1>3, MultipleInt
<1>10. CASE n = 0
  BY <1>10, <1>1, <1>2, <1>3, <1>4, <1>5, <1>9, BlockAssumption DEF info
<1>11. CASE n = 1 /\ e = 0
  BY <1>11, <1>1, <1>2, <1>3, <1>4, <1>5, <1>9, BlockAssumption DEF info
<1>12. CASE n # 0 /\ e # 0
  BY <1>12, <1>1, <1>2, <1>3, <1>4, <1>6, <1>9, BlockAssumption DEF info
<1>13. CASE n > 1 /\ e = 0
  <2>1. f + n # 0 /\ info.to_block = f + n - 1 /\ info.to_len = BlockSize
        /\ info.from_len = BlockSize - r
    BY <1>13, <1>1, <1>3, <1>4
  <2>2. BlockSize * info.to_block + info.to_len = offset + len
    BY <2>1, <1>13, <1>1, <1>3, <1>7, <1>9, BlockAssumption
  <2> QED
    BY <2>1, <2>2, <1>13, <1>1, <1>3, <1>4, BlockAssumption DEF info
<1> QED
  BY <1>3, <1>10, <1>11, <1>12, <1>13

\* "could actually be an assertion, as this can never happen"
\* (psql_write_block): every piece fits its block, so that psql_write_buf
\* fails for no reason of its own.
THEOREM PiecesFit ==
  ASSUME NEW offset \in Nat, NEW len \in Nat
  PROVE  ~WriteFails(offset, len)
<1> DEFINE info == compute_block_info(offset, len)
<1>1. SUFFICES ASSUME len # 0, NEW b \in Touched(info), TooBig(Piece(info, b))
               PROVE  FALSE
  BY DEF WriteFails
<1>2. /\ info.from_offset \in 0 .. BlockSize - 1
      /\ info.from_len \in 1 .. BlockSize - info.from_offset
      /\ info.to_len \in 1 .. BlockSize
  BY <1>1, InfoShape
<1> HIDE DEF info
<1> QED
  BY <1>1, <1>2, BlockAssumption DEF TooBig, Piece

\* Byte j of block b is byte BlockSize * b + j of the file.  It is in the piece
\* of its block if and only if it is in the buffer, at the place the piece says.
LEMMA PieceCovers ==
  ASSUME NEW offset \in Nat, NEW len \in Nat \ {0},
         NEW b \in Nat, NEW j \in 0 .. BlockSize - 1
  PROVE  LET info == compute_block_info(offset, len)
             piece == Piece(info, b)
             p == BlockSize * b + j
         IN  /\ p \in offset .. offset + len - 1 => b \in Touched(info)
             /\ b \in Touched(info) =>
                  /\ j + 1 \in piece.offset + 1 .. piece.offset + piece.len
                       <=> p \in offset .. offset + len - 1
                  /\ piece.start + (j + 1) - piece.offset = p - offset + 1
<1> DEFINE info == compute_block_info(offset, len)
           from == info.from_block
           to == info.to_block
           piece == Piece(info, b)
           p == BlockSize * b + j
<1>1. /\ from \in Nat /\ to \in Nat /\ from <= to
      /\ info.from_offset \in 0 .. BlockSize - 1
      /\ info.from_len \in 1 .. BlockSize - info.from_offset
      /\ info.to_len \in 1 .. BlockSize
      /\ offset = BlockSize * from + info.from_offset
      /\ from = to => info.from_len = len
      /\ from # to => info.from_len = BlockSize - info.from_offset
      /\ from # to => BlockSize * to + info.to_len = offset + len
  BY InfoShape
<1>2. /\ Touched(info) = from .. to
      /\ b = from => /\ piece.offset = info.from_offset
                     /\ piece.len = info.from_len
                     /\ piece.start = 0
      /\ b # from => /\ piece.offset = 0
                     /\ piece.len = IF b = to THEN info.to_len ELSE BlockSize
                     /\ piece.start = info.from_len + (b - from - 1) * BlockSize
  BY DEF Touched, Piece
<1> HIDE DEF info, piece
<1>3. /\ BlockSize * b \in Int
      /\ BlockSize * from \in Int
      /\ BlockSize * to \in Int
  BY <1>1, MultipleInt
<1>4. /\ b < from => BlockSize * b + BlockSize <= BlockSize * from
      /\ from < b => BlockSize * from + BlockSize <= BlockSize * b
      /\ b < to => BlockSize * b + BlockSize <= BlockSize * to
      /\ to < b => BlockSize * to + BlockSize <= BlockSize * b
  BY <1>1, NextMultiple
<1>5. (b - from - 1) * BlockSize = BlockSize * b - BlockSize * from - BlockSize
  BY <1>1, BlockAssumption
<1> DEFINE x == BlockSize * b
           y == BlockSize * from
           z == BlockSize * to
           fo == info.from_offset
           fl == info.from_len
           tl == info.to_len
           po == piece.offset
           pl == piece.len
           ps == piece.start
<1>6. BlockSize \in Nat /\ BlockSize > 0
  BY BlockAssumption
<1>7. /\ from \in Int /\ to \in Int /\ fo \in Int /\ fl \in Int /\ tl \in Int
      /\ x \in Int /\ y \in Int /\ z \in Int
  BY <1>1, <1>3, <1>6
<1>8. /\ from <= to
      /\ 0 <= fo /\ fo < BlockSize
      /\ 0 < fl /\ fl <= BlockSize - fo
      /\ 0 < tl /\ tl <= BlockSize
      /\ offset = y + fo
      /\ from = to => fl = len /\ y = z
      /\ from # to => fl = BlockSize - fo /\ z + tl = offset + len
      /\ b < from => x + BlockSize <= y
      /\ from < b => y + BlockSize <= x
      /\ b < to => x + BlockSize <= z
      /\ to < b => z + BlockSize <= x
      /\ b = from => x = y /\ po = fo /\ pl = fl /\ ps = 0
      /\ b # from => po = 0 /\ ps = fl + (x - y - BlockSize)
      /\ b # from /\ b = to => x = z /\ pl = tl
      /\ b # from /\ b # to => pl = BlockSize
  <2>1. /\ from <= to
        /\ 0 <= fo /\ fo < BlockSize
        /\ 0 < fl /\ fl <= BlockSize - fo
        /\ 0 < tl /\ tl <= BlockSize
    BY <1>1, <1>6
  <2>2. /\ offset = y + fo
        /\ from = to => fl = len /\ y = z
        /\ from # to => fl = BlockSize - fo /\ z + tl = offset + len
    BY Zenon, <1>1
  <2>3. /\ b < from => x + BlockSize <= y
        /\ from < b => y + BlockSize <= x
        /\ b < to => x + BlockSize <= z
        /\ to < b => z + BlockSize <= x
    BY Zenon, <1>4
  <2>4. /\ b = from => x = y /\ po = fo /\ pl = fl /\ ps = 0
        /\ b # from /\ b = to => x = z /\ pl = tl
        /\ b # from /\ b # to => pl = BlockSize
    BY Zenon, <1>2
  <2>5. b # from => po = 0 /\ ps = fl + (b - from - 1) * BlockSize
    BY Zenon, <1>2
  <2>6. (b - from - 1) * BlockSize = x - y - BlockSize
    BY Zenon, <1>5
  <2> HIDE DEF from, to, x, y, z, fo, fl, tl, po, pl, ps
  <2>7. b # from => ps = fl + (x - y - BlockSize)
    BY <2>5, <2>6
  <2> QED BY <2>1, <2>2, <2>3, <2>4, <2>5, <2>7
<1> HIDE DEF from, to, x, y, z, fo, fl, tl, po, pl, ps
<1>9. offset <= x + j /\ x + j < offset + len => from <= b /\ b <= to
  BY <1>6, <1>7, <1>8
<1>10. ASSUME from <= b, b <= to
       PROVE  /\ po + 1 <= j + 1 /\ j + 1 <= po + pl
                   <=> offset <= x + j /\ x + j <= offset + len - 1
              /\ ps + (j + 1) - po = (x + j) - offset + 1
  <2>1. CASE b = from
    BY <2>1, <1>6, <1>7, <1>8, <1>10
  <2>2. CASE b # from /\ b = to
    BY <2>2, <1>6, <1>7, <1>8, <1>10
  <2>3. CASE b # from /\ b # to
    BY <2>3, <1>6, <1>7, <1>8, <1>10
  <2> QED BY <2>1, <2>2, <2>3
<1>11. po \in Int /\ pl \in Int
  BY <1>6, <1>7, <1>8
<1>12. (p \in offset .. offset + len - 1) <=> (offset <= x + j /\ x + j <= offset + len - 1)
  BY <1>7 DEF x
<1>13. b \in Touched(info) <=> from <= b /\ b <= to
  BY <1>2, <1>7 DEF from, to
<1>14. (j + 1 \in piece.offset + 1 .. piece.offset + piece.len)
          <=> (po + 1 <= j + 1 /\ j + 1 <= po + pl)
  BY <1>11 DEF po, pl
<1>15. p \in offset .. offset + len - 1 => b \in Touched(info)
  BY <1>7, <1>9, <1>12, <1>13
<1>16. ASSUME b \in Touched(info)
       PROVE  /\ j + 1 \in piece.offset + 1 .. piece.offset + piece.len
                    <=> p \in offset .. offset + len - 1
              /\ piece.start + (j + 1) - piece.offset = p - offset + 1
  <2>1. from <= b /\ b <= to
    BY <1>13, <1>16
  <2>2. piece.start + (j + 1) - piece.offset = p - offset + 1
    <3>1. ps + (j + 1) - po = (x + j) - offset + 1
      BY <2>1, <1>10
    <3> QED BY Zenon, <3>1 DEF ps, po, x
  <2>3. j + 1 \in piece.offset + 1 .. piece.offset + piece.len
          <=> p \in offset .. offset + len - 1
    BY <2>1, <1>10, <1>12, <1>14
  <2> QED BY <2>2, <2>3
<1> QED
  BY <1>15, <1>16 DEF info, piece

LEMMA ByteOfBlock ==
  ASSUME NEW rows, NEW b \in Nat, NEW j \in 0 .. BlockSize - 1
  PROVE  ByteAt(rows, BlockSize * b + j) = Block(rows, b)[j + 1]
<1>1. BlockSize * b + j \in Nat
  BY BlockAssumption
<1>2. (BlockSize * b + j) \div BlockSize = b /\ (BlockSize * b + j) % BlockSize = j
  BY <1>1, DivModUnique
<1> QED
  BY Zenon, <1>2 DEF ByteAt

\* psql_write_buf writes the buffer where it belongs and nothing else: seen as a
\* flat sequence of bytes the file has the buffer's bytes from offset on, and
\* all others are as they were, zero in blocks that were not there.
THEOREM WriteIsFlat ==
  ASSUME NEW Values, NEW buf \in Seq(Values), Len(buf) # 0,
         NEW rows, NEW offset \in Nat, NEW p \in Nat
  PROVE  ByteAt(psql_write_buf(rows, offset, buf), p) = WrittenByte(rows, offset, buf, p)
<1> DEFINE b == p \div BlockSize
           j == p % BlockSize
           info == compute_block_info(offset, Len(buf))
           piece == Piece(info, b)
           new == psql_write_buf(rows, offset, buf)
<1>1. b \in Nat /\ j \in 0 .. BlockSize - 1 /\ p = BlockSize * b + j
  BY DivMod
<1>2. Len(buf) \in Nat \ {0}
  OBVIOUS
<1> HIDE DEF b, j
<1>3. /\ p \in offset .. offset + Len(buf) - 1 => b \in Touched(info)
      /\ b \in Touched(info) =>
           /\ j + 1 \in piece.offset + 1 .. piece.offset + piece.len
                <=> p \in offset .. offset + Len(buf) - 1
           /\ piece.start + (j + 1) - piece.offset = p - offset + 1
  BY <1>1, <1>2, PieceCovers
<1>4. new = [c \in DOMAIN rows \cup Touched(info) |->
               IF c \in Touched(info)
               THEN psql_write_block(Block(rows, c), Piece(info, c), buf)
               ELSE rows[c]]
  BY Zenon DEF psql_write_buf
<1> HIDE DEF info, new
<1>5. ByteAt(new, p) = Block(new, b)[j + 1]
  BY <1>1, ByteOfBlock
<1>6. ByteAt(rows, p) = Block(rows, b)[j + 1]
  BY <1>1, ByteOfBlock
<1>7. j + 1 \in 1 .. BlockSize
  BY <1>1, BlockAssumption
<1>8. ASSUME b \in Touched(info) PROVE ByteAt(new, p) = WrittenByte(rows, offset, buf, p)
  <2>1. Block(new, b) = psql_write_block(Block(rows, b), piece, buf)
    BY <1>4, <1>8 DEF Block
  <2>2. Block(new, b)[j + 1] =
          IF j + 1 \in piece.offset + 1 .. piece.offset + piece.len
          THEN buf[piece.start + (j + 1) - piece.offset]
          ELSE Block(rows, b)[j + 1]
    BY <2>1, <1>7 DEF psql_write_block
  <2> HIDE DEF piece
  <2> QED
    BY <2>2, <1>3, <1>5, <1>6, <1>8 DEF WrittenByte
<1>9. ASSUME b \notin Touched(info) PROVE ByteAt(new, p) = WrittenByte(rows, offset, buf, p)
  <2>1. Block(new, b) = Block(rows, b)
    BY <1>4, <1>9 DEF Block
  <2> QED
    BY <2>1, <1>3, <1>5, <1>6, <1>9 DEF WrittenByte
<1> QED
  BY <1>8, <1>9 DEF new

\* Only one block is the n-th of the blocks 0 to last.
LEMMA NthOfAll ==
  ASSUME NEW last \in Nat, NEW rows, DOMAIN rows = 0 .. last, NEW n \in 0 .. last
  PROVE  Nth(rows, last, n) = rows[n]
<1> DEFINE R == {b \in DOMAIN rows : b <= last}
           At == {b \in R : Cardinality({c \in R : c < b}) = n}
<1>1. R = 0 .. last
  OBVIOUS
<1>2. ASSUME NEW b \in R PROVE Cardinality({c \in R : c < b}) = b
  <2>1. {c \in R : c < b} = 0 .. b - 1
    BY <1>1, <1>2
  <2>2. Cardinality(0 .. b - 1) = b
    BY <1>1, <1>2, FS_Interval
  <2> QED BY <2>1, <2>2
<1>3. At = {n}
  BY <1>1, <1>2
<1> QED
  BY <1>3 DEF Nth

\* A buffer at offset 0 starts with the first block.
LEMMA FromTheStart ==
  ASSUME NEW len \in Nat \ {0}
  PROVE  LET info == compute_block_info(0, len)
         IN  info.from_block = 0 /\ info.from_offset = 0
<1> DEFINE info == compute_block_info(0, len)
<1>1. /\ info.from_block \in Nat
      /\ info.from_offset \in 0 .. BlockSize - 1
      /\ 0 = BlockSize * info.from_block + info.from_offset
  BY InfoShape
<1> HIDE DEF info
<1>2. info.from_block > 0 => BlockSize * 0 + BlockSize <= BlockSize * info.from_block
  BY <1>1, NextMultiple
<1>3. BlockSize * 0 = 0
  BY BlockAssumption
<1>4. BlockSize * info.from_block \in Int
  BY <1>1, MultipleInt
<1>5. info.from_block = 0
  BY <1>1, <1>2, <1>3, <1>4, BlockAssumption
<1> QED
  BY <1>1, <1>3, <1>5 DEF info

\* "copied %zu bytes but expecting %zu": psql_read_buf copies as many bytes as it
\* was asked for.
THEOREM ReadCopiesAll ==
  ASSUME NEW len \in Nat \ {0}
  PROVE  ~ReadFails(len)
<1> DEFINE info == compute_block_info(0, len)
           to == info.to_block
<1>1. /\ to \in Nat
      /\ info.from_len \in 1 .. BlockSize - info.from_offset
      /\ info.to_len \in 1 .. BlockSize
      /\ info.from_block = to => info.from_len = len
      /\ info.from_block # to => info.from_len = BlockSize - info.from_offset
      /\ info.from_block # to => BlockSize * to + info.to_len = 0 + len
  BY InfoShape
<1>2. info.from_block = 0 /\ info.from_offset = 0
  BY FromTheStart
<1> HIDE DEF info
<1>3. BlockSize * to \in Int /\ (to - 1) * BlockSize = BlockSize * to - BlockSize
  BY <1>1, MultipleInt, BlockAssumption
<1>4. Copied(info) = len
  <2>1. CASE to = 0
    BY <2>1, <1>1, <1>2 DEF Copied
  <2>2. CASE to # 0
    <3>1. Copied(info) = info.from_len + (to - 0 - 1) * BlockSize + info.to_len
      BY <2>2, <1>2 DEF Copied
    <3>2. to - 0 - 1 = to - 1
      BY <1>1
    <3> HIDE DEF to
    <3> QED BY <3>1, <3>2, <2>2, <1>1, <1>2, <1>3, BlockAssumption
  <2> QED BY <2>1, <2>2
<1> QED
  BY <1>4 DEF ReadFails, info

\* psql_read_buf gives back what psql_write_buf wrote into a new file, for every
\* length of the buffer and every block size.
THEOREM RoundTrip ==
  ASSUME NEW Values, NEW buf \in Seq(Values), Len(buf) # 0
  PROVE  psql_read_buf(psql_write_buf(NoRows, 0, buf), Len(buf)) = buf
<1> DEFINE len == Len(buf)
           info == compute_block_info(0, len)
           last == info.to_block
           rows == psql_write_buf(NoRows, 0, buf)
           Takes(c, k) == /\ Piece(info, c).start < k
                          /\ k <= Piece(info, c).start + Piece(info, c).len
<1>1. len \in Nat \ {0}
  OBVIOUS
<1>2. /\ last \in Nat
      /\ info.from_offset \in 0 .. BlockSize - 1
      /\ info.from_len \in 1 .. BlockSize - info.from_offset
      /\ info.to_len \in 1 .. BlockSize
  BY <1>1, InfoShape
<1>3. info.from_block = 0 /\ info.from_offset = 0
  BY <1>1, FromTheStart
<1>4. DOMAIN rows = Touched(info)
  BY DEF psql_write_buf, NoRows
<1>5. ASSUME NEW p \in Nat PROVE ByteAt(rows, p) = WrittenByte(NoRows, 0, buf, p)
  BY WriteIsFlat
<1>6. ASSUME NEW b \in Nat, NEW j \in 0 .. BlockSize - 1
      PROVE  /\ BlockSize * b + j \in 0 .. 0 + len - 1 => b \in Touched(info)
             /\ b \in Touched(info) =>
                  /\ j + 1 \in Piece(info, b).offset + 1 .. Piece(info, b).offset + Piece(info, b).len
                       <=> BlockSize * b + j \in 0 .. 0 + len - 1
                  /\ Piece(info, b).start + (j + 1) - Piece(info, b).offset = (BlockSize * b + j) - 0 + 1
  BY <1>1, PieceCovers
<1>7. Touched(info) = 0 .. last
  BY <1>3 DEF Touched
<1>8. psql_read_buf(rows, len) =
        [k \in 1 .. len |->
           LET b == CHOOSE c \in Touched(info) : Takes(c, k)
           IN  Nth(rows, last, b)[k - Piece(info, b).start]]
  BY Zenon DEF psql_read_buf
<1> HIDE DEF len, info, rows
<1>9. ASSUME NEW b \in 0 .. last
      PROVE  /\ Piece(info, b).offset = 0
             /\ Piece(info, b).len \in 1 .. BlockSize
             /\ Piece(info, b).start \in Int
  BY <1>2, <1>3, BlockAssumption DEF Piece
<1>10. ASSUME NEW k \in 1 .. len
       PROVE  \E c \in Touched(info) : Takes(c, k)
  <2> DEFINE b == (k - 1) \div BlockSize
             j == (k - 1) % BlockSize
  <2>1. k - 1 \in Nat
    BY <1>1, <1>10
  <2>2. b \in Nat /\ j \in 0 .. BlockSize - 1 /\ k - 1 = BlockSize * b + j
    BY <2>1, DivMod
  <2> HIDE DEF b, j
  <2>3. BlockSize * b + j \in 0 .. 0 + len - 1
    <3> k - 1 \in 0 .. 0 + len - 1
      BY <1>1, <1>10
    <3> QED BY <2>2
  <2>4. b \in Touched(info)
    BY <2>2, <2>3, <1>6
  <2>5. /\ j + 1 \in Piece(info, b).offset + 1 .. Piece(info, b).offset + Piece(info, b).len
        /\ Piece(info, b).start + (j + 1) - Piece(info, b).offset = (BlockSize * b + j) - 0 + 1
    BY <2>2, <2>3, <2>4, <1>6
  <2>6. Piece(info, b).start + (j + 1) = k /\ j + 1 <= Piece(info, b).len
    BY <2>2, <2>4, <2>5, <1>7, <1>9
  <2>7. Takes(b, k)
    BY <2>2, <2>4, <2>6, <1>7, <1>9
  <2> QED BY <2>4, <2>7
<1>11. ASSUME NEW k \in 1 .. len, NEW c \in Touched(info), Takes(c, k)
       PROVE  Nth(rows, last, c)[k - Piece(info, c).start] = buf[k]
  <2> DEFINE j == k - Piece(info, c).start - 1
  <2>1. c \in 0 .. last /\ c \in Nat
    BY <1>2, <1>7, <1>11
  <2>2. j \in 0 .. BlockSize - 1 /\ k - Piece(info, c).start = j + 1
    BY <2>1, <1>1, <1>9, <1>11, BlockAssumption
  <2>3. Nth(rows, last, c) = rows[c]
    BY <2>1, <1>2, <1>4, <1>7, NthOfAll
  <2>4. BlockSize * c + j = k - 1
    <3>1. Piece(info, c).start + (j + 1) - Piece(info, c).offset = (BlockSize * c + j) - 0 + 1
      BY <2>1, <2>2, <1>6, <1>11
    <3>2. BlockSize * c \in Int
      BY <2>1, MultipleInt
    <3> QED BY SMTT(30), <3>1, <3>2, <2>1, <2>2, <1>1, <1>9
  <2>5. ByteAt(rows, BlockSize * c + j) = Block(rows, c)[j + 1]
    BY <2>1, <2>2, ByteOfBlock
  <2>6. Block(rows, c) = rows[c]
    BY <1>4, <1>11 DEF Block
  <2>7. ByteAt(rows, k - 1) = buf[k]
    <3>1. ByteAt(rows, k - 1) = WrittenByte(NoRows, 0, buf, k - 1)
      BY <1>1, <1>5
    <3>2. k - 1 \in 0 .. 0 + Len(buf) - 1 /\ k - 1 - 0 + 1 = k
      BY <1>1 DEF len
    <3> QED BY <3>1, <3>2 DEF WrittenByte
  <2> QED
    BY <2>2, <2>3, <2>4, <2>5, <2>6, <2>7
<1>12. psql_read_buf(rows, len) = [k \in 1 .. len |-> buf[k]]
  <2>1. ASSUME NEW k \in 1 .. len
        PROVE  LET b == CHOOSE c \in Touched(info) : Takes(c, k)
               IN  Nth(rows, last, b)[k - Piece(info, b).start] = buf[k]
    <3> DEFINE b == CHOOSE c \in Touched(info) : Takes(c, k)
    <3>1. b \in Touched(info) /\ Takes(b, k)
      BY <1>10
    <3> HIDE DEF b
    <3>2. Nth(rows, last, b)[k - Piece(info, b).start] = buf[k]
      BY <3>1, <1>11
    <3> QED BY <3>2 DEF b
  <2> QED BY <2>1, <1>8
<1> QED
  BY <1>12 DEF rows, len

-------------------------------------------------------------------------------
(* Times.                                                                    *)

\* Quotient and remainder are determined by the equation.
LEMMA Division ==
  ASSUME NEW d \in Nat \ {0}, NEW n \in Int
  PROVE  /\ n \div d \in Int
         /\ n % d \in 0 .. d - 1
         /\ n = d * (n \div d) + (n % d)
         /\ n \in Nat => n \div d \in Nat
BY SMT

LEMMA DivisionUnique ==
  ASSUME NEW d \in Nat \ {0}, NEW n \in Int, NEW q \in Int, NEW r \in 0 .. d - 1,
         n = d * q + r
  PROVE  n \div d = q /\ n % d = r
<1> DEFINE q2 == n \div d
           r2 == n % d
<1>1. q2 \in Int /\ r2 \in 0 .. d - 1 /\ n = d * q2 + r2
  BY Division
<1> HIDE DEF q2, r2
<1>2. \A a, b \in Int : a < b => d * a + d <= d * b
  BY SMT
<1>3. d * q \in Int /\ d * q2 \in Int
  BY <1>1
<1>4. q2 = q
  BY <1>1, <1>2, <1>3
<1>5. r2 = r
  BY <1>1, <1>3, <1>4
<1> QED
  BY <1>4, <1>5 DEF q2, r2

\* The ticks in the fraction of a second.
LEMMA Fraction ==
  ASSUME NEW t \in Timespec
  PROVE  t.nsec \div PerTick \in 0 .. PerSecond - 1
<1> DEFINE q == t.nsec \div PerTick
<1>1. /\ t.nsec \in 0 .. PerSecond * PerTick - 1
      /\ PerTick \in Nat \ {0} /\ PerSecond \in Nat \ {0}
  BY TimeAssumption DEF Timespec
<1>2. PerSecond * PerTick \in Nat
  BY <1>1
<1>3. t.nsec \in Nat
  BY <1>1, <1>2
<1>4. q \in Nat /\ t.nsec % PerTick \in 0 .. PerTick - 1 /\ t.nsec = PerTick * q + (t.nsec % PerTick)
  <2>1. t.nsec \in Int
    BY <1>3
  <2> QED BY Zenon, <2>1, <1>1, <1>3, Division
<1> HIDE DEF q
<1>5. q < PerSecond
  <2>1. q >= PerSecond => PerTick * q >= PerTick * PerSecond
    BY <1>1, <1>4
  <2>2. PerTick * PerSecond = PerSecond * PerTick /\ PerTick * q \in Int
    BY <1>1, <1>4
  <2> QED BY <2>1, <2>2, <1>1, <1>2, <1>4
<1>6. q \in 0 .. PerSecond - 1
  BY <1>1, <1>4, <1>5
<1> QED
  BY Zenon, <1>6 DEF q

LEMMA TicksAreInt ==
  ASSUME NEW t \in Timespec
  PROVE  Ticks(t) \in Int
<1>1. t.sec \in Int /\ t.nsec \div PerTick \in Int
  BY Fraction, TimeAssumption DEF Timespec
<1>2. (t.sec - Epoch) * PerSecond \in Int
  BY <1>1, TimeAssumption
<1> QED
  BY <1>1, <1>2 DEF Ticks

\* The word that is sent, taken for a signed number as the server does, is the
\* time in ticks since the epoch, before the epoch included.
THEOREM SignedIsTicks ==
  ASSUME NEW t \in Timespec, Storable(t)
  PROVE  Signed(convert_to_timestamp(t)) = Ticks(t)
<1> DEFINE k == Ticks(t)
<1>1. k \in Int /\ Words \in Nat \ {0}
  BY TicksAreInt, TimeAssumption
<1>2. convert_to_timestamp(t) = k % Words
  BY Zenon DEF convert_to_timestamp, Ticks
<1>3. 2 * k >= -Words /\ 2 * k < Words
  BY Zenon DEF Storable
<1> HIDE DEF k
<1>4. CASE k >= 0
  <2>1. k % Words = k
    BY <1>1, <1>3, <1>4, DivisionUnique, k = Words * 0 + k
  <2> QED BY <2>1, <1>2, <1>3 DEF Signed, k
<1>5. CASE k < 0
  <2>1. k % Words = k + Words
    BY <1>1, <1>3, <1>5, DivisionUnique, k = Words * (-1) + (k + Words)
  <2>2. ~(2 * (k + Words) < Words) /\ (k + Words) - Words = k
    BY <1>1, <1>3
  <2>3. Signed(k % Words) = k
    <3> DEFINE m == k % Words
    <3>1. m = k + Words
      BY Zenon, <2>1
    <3> HIDE DEF m
    <3>2. Signed(m) = k
      BY <3>1, <2>2, <1>1 DEF Signed
    <3> QED BY Zenon, <3>2 DEF m
  <2> QED BY <2>3, <1>2 DEF k
<1> QED
  BY <1>1, <1>4, <1>5

\* A time that is stored and read again is the same to the tick, from the epoch
\* on.  (A time before it comes back as one in the far future: the word is
\* divided without its sign.)
THEOREM StoredTimeIsKept ==
  ASSUME NEW t \in Timespec, Storable(t), t.sec >= Epoch
  PROVE  convert_from_timestamp(convert_to_timestamp(t)) = Truncated(t)
<1> DEFINE k == Ticks(t)
           s == t.sec - Epoch
           q == t.nsec \div PerTick
<1>1. /\ Words \in Nat \ {0} /\ PerSecond \in Nat \ {0} /\ Epoch \in Nat
      /\ k \in Int
      /\ q \in 0 .. PerSecond - 1
      /\ s \in Nat /\ t.sec \in Int
  BY TicksAreInt, Fraction, TimeAssumption DEF Timespec
<1>2. k = s * PerSecond + q
  BY Zenon DEF Ticks
<1>3. convert_to_timestamp(t) = k % Words
  BY Zenon DEF convert_to_timestamp, Ticks
<1>4. 2 * k < Words
  BY Zenon DEF Storable
<1>5. Truncated(t) = [sec |-> t.sec, nsec |-> q * PerTick]
  BY DEF Truncated, Timespec
<1>6. Epoch + s = t.sec
  BY <1>1
<1> HIDE DEF k, s, q
<1>7. s * PerSecond \in Nat /\ s * PerSecond = PerSecond * s
  BY <1>1
<1>8. k \in 0 .. Words - 1
  BY <1>1, <1>2, <1>4, <1>7
<1>9. k % Words = k
  BY <1>1, <1>8, DivisionUnique, k = Words * 0 + k
<1>10. k \div PerSecond = s /\ k % PerSecond = q
  BY <1>1, <1>2, <1>7, DivisionUnique
<1> QED
  BY <1>3, <1>5, <1>6, <1>9, <1>10 DEF convert_from_timestamp

\* A word that is read and written back is not changed, whatever it is: writing
\* attributes back, as chmod and chown do, does not damage a stored time.
THEOREM WriteBackIsExact ==
  ASSUME NEW raw \in 0 .. Words - 1
  PROVE  convert_to_timestamp(convert_from_timestamp(raw)) = raw
<1> DEFINE q == raw \div PerSecond
           r == raw % PerSecond
           t == convert_from_timestamp(raw)
<1>1. /\ Words \in Nat \ {0} /\ PerSecond \in Nat \ {0} /\ PerTick \in Nat \ {0}
      /\ Epoch \in Nat /\ raw \in Nat
  BY TimeAssumption
<1>2. q \in Nat /\ r \in 0 .. PerSecond - 1 /\ raw = PerSecond * q + r
  <2>1. raw \in Int
    BY <1>1
  <2> QED BY Zenon, <2>1, <1>1, Division
<1>3. t.sec = Epoch + q /\ t.nsec = r * PerTick
  BY DEF convert_from_timestamp
<1> HIDE DEF q, r, t
<1>4. t.nsec \div PerTick = r
  <2>1. r * PerTick = PerTick * r + 0 /\ r * PerTick \in Int
    BY <1>1, <1>2
  <2> QED BY <2>1, <1>1, <1>2, <1>3, DivisionUnique
<1>5. (t.sec - Epoch) * PerSecond = PerSecond * q /\ PerSecond * q \in Int
  <2>1. t.sec - Epoch = q
    BY <1>1, <1>2, <1>3
  <2> QED BY <2>1, <1>1, <1>2
<1>6. convert_to_timestamp(t) = raw % Words
  BY <1>2, <1>4, <1>5 DEF convert_to_timestamp
<1>7. raw % Words = raw
  BY <1>1, DivisionUnique, raw = Words * 0 + raw
<1> QED
  BY <1>6, <1>7 DEF t

-------------------------------------------------------------------------------
(* Symbolic links.                                                           *)

\* A row has an id the sequence has given out and its target's bytes.
RowsAreGiven ==
  \A i \in Ids : dir[i] # None =>
    /\ i \in used
    /\ given[i] \in Targets
    /\ dir[i].size = Len(given[i])
    /\ psql_read_buf(data[i], dir[i].size) = given[i]

NoOrphans == \A i \in Ids : dir[i] = None => data[i] = NoRows

\* The path has one row at most, and Redis leads to no other id meanwhile.
OneLink ==
  \A i \in Ids : dir[i] # None =>
    /\ path \in {None, i}
    /\ \A j \in Ids : dir[j] # None => j = i

\* Redis knows no id that was not given out: a new link finds no old copies.
OnlyUsed ==
  /\ path # None => path \in used
  /\ \A i \in Ids : meta[i] # None => i \in used

SizesAgree ==
  \A i \in Ids : dir[i] # None /\ meta[i] # None => meta[i].size = dir[i].size

\* A time is kept as it was given or as it comes back from the database.
Reads(t) == {t, convert_from_timestamp(convert_to_timestamp(t))}

TimesAgree ==
  \A i \in Ids : dir[i] # None =>
    /\ \E t \in times : dir[i].mtime = convert_to_timestamp(t)
    /\ meta[i] # None => \E t \in times : meta[i].mtime \in Reads(t)

KeptIsThere == kept # None => dir[kept] # None

ReplyIsKnown ==
  reply.op = "readlink" =>
    /\ reply.id \in used
    /\ dir[reply.id] # None => reply.text = given[reply.id]

LinksInv ==
  /\ TypeOK /\ RowsAreGiven /\ NoOrphans /\ OneLink /\ OnlyUsed
  /\ SizesAgree /\ TimesAgree /\ KeptIsThere /\ ReplyIsKnown

-----------------------------------------------------------------------------
\* The conversions stay in their types.
LEMMA FromRowType ==
  ASSUME NEW row \in Rows
  PROVE  FromRow(row) \in Metas /\ FromRow(row).size = row.size
                /\ FromRow(row).mtime = convert_from_timestamp(row.mtime)
<1> DEFINE q == row.mtime \div PerSecond
           r == row.mtime % PerSecond
<1>1. /\ PerSecond \in Nat \ {0} /\ PerTick \in Nat \ {0} /\ Epoch \in Nat
      /\ row.mtime \in Nat /\ row.mtime \in Int /\ row.size \in Nat
  BY TimeAssumption DEF Rows
<1>2. q \in Nat /\ r \in 0 .. PerSecond - 1
  BY Zenon, <1>1, Division
<1>3. convert_from_timestamp(row.mtime) = [sec |-> Epoch + q, nsec |-> r * PerTick]
  BY Zenon DEF convert_from_timestamp
<1> HIDE DEF q, r
<1>4. r * PerTick \in 0 .. PerSecond * PerTick - 1
  <2>1. /\ r * PerTick \in Nat /\ PerSecond * PerTick \in Nat
        /\ (r + 1) * PerTick = r * PerTick + PerTick
    BY <1>1, <1>2
  <2>2. (r + 1) * PerTick <= PerSecond * PerTick
    <3>1. r + 1 <= PerSecond /\ r + 1 \in Nat
      BY <1>1, <1>2
    <3>2. \A a, b \in Nat : a <= b => a * PerTick <= b * PerTick
      BY <1>1
    <3> QED BY <3>1, <3>2, <1>1
  <2> QED BY <2>1, <2>2, <1>1
<1>5. convert_from_timestamp(row.mtime) \in Timespec
  BY <1>1, <1>2, <1>3, <1>4 DEF Timespec
<1> QED
  BY <1>1, <1>5 DEF FromRow, Metas

LEMMA ToRowType ==
  ASSUME NEW m \in Metas
  PROVE  ToRow(m) \in Rows /\ ToRow(m).size = m.size
                /\ ToRow(m).mtime = convert_to_timestamp(m.mtime)
<1>1. /\ m.mtime \in Timespec /\ m.size \in Nat
  BY DEF Metas
<1> DEFINE k == Ticks(m.mtime)
<1>2. k \in Int /\ Words \in Nat \ {0}
  BY <1>1, TicksAreInt, TimeAssumption
<1>3. convert_to_timestamp(m.mtime) = k % Words
  BY Zenon DEF convert_to_timestamp, Ticks
<1> HIDE DEF k
<1>4. k % Words \in 0 .. Words - 1
  BY Zenon, <1>2, Division
<1> QED
  BY <1>1, <1>3, <1>4 DEF ToRow, Rows

\* Writing back what was read gives the word that was stored.
LEMMA ReadsWriteBack ==
  ASSUME NEW t \in Timespec, NEW u \in Reads(t)
  PROVE  convert_to_timestamp(u) = convert_to_timestamp(t)
<1>1. convert_to_timestamp(t) \in 0 .. Words - 1
  <2>1. Ticks(t) \in Int /\ Words \in Nat \ {0}
    BY TicksAreInt, TimeAssumption
  <2>2. convert_to_timestamp(t) = Ticks(t) % Words
    BY Zenon DEF convert_to_timestamp, Ticks
  <2>3. Ticks(t) % Words \in 0 .. Words - 1
    BY Zenon, <2>1, Division
  <2> QED BY Zenon, <2>2, <2>3
<1>2. convert_to_timestamp(convert_from_timestamp(convert_to_timestamp(t)))
        = convert_to_timestamp(t)
  BY Zenon, <1>1, WriteBackIsExact
<1> QED
  BY Zenon, <1>2 DEF Reads

LEMMA NoneIsNoValue ==
  /\ None \notin Ids /\ None \notin Targets /\ None \notin Rows /\ None \notin Metas
BY Zenon, LinksAssumption DEF LinksAssumption

LEMMA TimesAreSpecs ==
  ASSUME NEW t \in Times
  PROVE  t \in Timespec /\ Storable(t)
BY Zenon, LinksAssumption DEF LinksAssumption

LEMMA TargetsAreStrings ==
  ASSUME NEW g \in Targets
  PROVE  g \in Seq(Bytes) /\ Len(g) # 0 /\ Len(g) \in Nat
BY LinksAssumption DEF LinksAssumption

-----------------------------------------------------------------------------
\* Where there is a row the lookup finds it.
LEMMA RowIsFound ==
  ASSUME TypeOK, OneLink, NEW i \in Ids, dir[i] # None
  PROVE  Link = i /\ Found
<1>1. path \in {None, i} /\ \A j \in Ids : dir[j] # None => j = i
  BY DEF OneLink
<1>2. Link = i
  <2>1. CASE path = i
    BY <2>1, NoneIsNoValue DEF Link, Lookup
  <2>2. CASE path = None
    <3> DEFINE R == {j \in Ids : dir[j] # None}
    <3>1. R = {i}
      BY <1>1
    <3>2. (\E j \in R : R = {j}) /\ (CHOOSE j \in R : TRUE) = i
      BY <3>1
    <3> QED BY Zenon, <2>2, <3>2 DEF Link, Lookup
  <2> QED BY <1>1, <2>1, <2>2
<1>3. ReadMeta(dir, i) # None
  <2>1. dir[i] \in Rows
    BY DEF TypeOK
  <2>2. FromRow(dir[i]) # None
    BY <2>1, FromRowType, NoneIsNoValue
  <2> QED BY <2>2 DEF ReadMeta
<1> QED
  BY <1>2, <1>3, NoneIsNoValue DEF Found

\* What a handler knows once it has found the path.
LEMMA FoundFacts ==
  ASSUME LinksInv, Found
  PROVE  LET m == ReadMeta(dir, Link)
         IN  /\ Link \in Ids
             /\ Link \in used
             /\ m \in Metas
             /\ \A j \in Ids : dir[j] # None => j = Link
             /\ dir[Link] # None => m.size = dir[Link].size
             /\ dir[Link] # None => \E t \in times : m.mtime \in Reads(t)
<1> DEFINE m == ReadMeta(dir, Link)
<1>1. Link \in Ids
  <2>1. Link # None
    BY DEF Found
  <2>2. Link \in Ids \cup {None}
    <3> DEFINE R == {j \in Ids : dir[j] # None}
    <3>1. path \in Ids \cup {None}
      BY DEF LinksInv, TypeOK
    <3>2. (\E i \in R : R = {i}) => (CHOOSE i \in R : TRUE) \in Ids
      OBVIOUS
    <3> QED BY Zenon, <3>1, <3>2 DEF Link, Lookup
  <2> QED BY <2>1, <2>2
<1>2. \A j \in Ids : dir[j] # None => j = Link
  BY RowIsFound DEF LinksInv
<1>3. /\ dir[Link] \in Rows \cup {None}
      /\ meta[Link] \in Metas \cup {None}
  BY <1>1 DEF LinksInv, TypeOK
<1> HIDE DEF Link
<1>4. m # None
  BY DEF Found
<1>5. CASE meta[Link] # None
  <2>1. m = meta[Link]
    BY <1>5 DEF ReadMeta
  <2>2. Link \in used
    BY <1>1, <1>5 DEF LinksInv, OnlyUsed
  <2>3. dir[Link] # None => m.size = dir[Link].size
    BY <1>1, <1>5, <2>1 DEF LinksInv, SizesAgree
  <2>4. dir[Link] # None => \E t \in times : m.mtime \in Reads(t)
    BY <1>1, <1>5, <2>1 DEF LinksInv, TimesAgree
  <2> HIDE DEF m
  <2> QED BY <1>1, <1>2, <1>3, <1>5, <2>1, <2>2, <2>3, <2>4 DEF m
<1>6. CASE meta[Link] = None
  <2>1. dir[Link] # None /\ m = FromRow(dir[Link])
    BY <1>4, <1>6 DEF ReadMeta
  <2>2. /\ m \in Metas
        /\ m.size = dir[Link].size
        /\ m.mtime = convert_from_timestamp(dir[Link].mtime)
    BY <1>3, <2>1, FromRowType
  <2>3. Link \in used
    BY <1>1, <2>1 DEF LinksInv, RowsAreGiven
  <2>4. PICK t \in times : dir[Link].mtime = convert_to_timestamp(t)
    BY <1>1, <2>1 DEF LinksInv, TimesAgree
  <2>5. m.mtime \in Reads(t)
    BY <2>2, <2>4 DEF Reads
  <2> HIDE DEF m
  <2> QED BY <1>1, <1>2, <2>2, <2>3, <2>4, <2>5 DEF m
<1> QED
  BY <1>5, <1>6

THEOREM LinksInit == Init => LinksInv
BY NoneIsNoValue, LinksAssumption
   DEF Init, LinksInv, TypeOK, RowsAreGiven, NoOrphans, OneLink, OnlyUsed, SizesAgree,
       TimesAgree, KeptIsThere, ReplyIsKnown, Nothing, LinksAssumption

-----------------------------------------------------------------------------
\* A handler that only reads leaves in Redis what it found.
LEMMA ReadKeeps ==
  ASSUME LinksInv, Found, Fill(Link, ReadMeta(dir, Link)),
         UNCHANGED <<database, used, history>>, failures' \in 0 .. MaxFailures
  PROVE  /\ TypeOK' /\ RowsAreGiven' /\ NoOrphans' /\ OneLink' /\ OnlyUsed'
         /\ SizesAgree' /\ TimesAgree' /\ KeptIsThere'
<1> DEFINE m == ReadMeta(dir, Link)
           id == Link
<1>1. /\ id \in Ids
      /\ id \in used
      /\ m \in Metas
      /\ \A j \in Ids : dir[j] # None => j = id
      /\ dir[id] # None => m.size = dir[id].size
      /\ dir[id] # None => \E t \in times : m.mtime \in Reads(t)
  BY FoundFacts
<1>2. path' = id /\ meta' = [meta EXCEPT ![id] = m]
  BY Zenon DEF Fill
<1>3. dir' = dir /\ data' = data /\ used' = used /\ given' = given /\ kept' = kept
      /\ times' = times
  BY DEF database, history
<1> HIDE DEF id, m
<1>4. meta \in [Ids -> Metas \cup {None}]
  BY DEF LinksInv, TypeOK
<1>5. \A j \in Ids : meta'[j] = IF j = id THEN m ELSE meta[j]
  BY <1>1, <1>2, <1>4
<1>6. TypeOK'
  BY <1>1, <1>2, <1>3 DEF LinksInv, TypeOK
<1>7. RowsAreGiven' /\ NoOrphans' /\ KeptIsThere'
  BY <1>3 DEF LinksInv, RowsAreGiven, NoOrphans, KeptIsThere
<1>8. OneLink'
  BY <1>1, <1>2, <1>3 DEF LinksInv, OneLink
<1>9. OnlyUsed'
  BY <1>1, <1>2, <1>3, <1>5 DEF LinksInv, OnlyUsed
<1>10. SizesAgree'
  BY <1>1, <1>3, <1>5 DEF LinksInv, SizesAgree
<1>11. TimesAgree'
  BY <1>1, <1>3, <1>5 DEF LinksInv, TimesAgree
<1> QED
  BY <1>6, <1>7, <1>8, <1>9, <1>10, <1>11

\* An answer that is no target says nothing.
LEMMA NoReply ==
  ASSUME Answer(Nothing)
  PROVE  ReplyIsKnown'
BY DEF Answer, Nothing, ReplyIsKnown

LEMMA FailsType ==
  ASSUME TypeOK, Fails
  PROVE  failures' \in 0 .. MaxFailures
BY LinksAssumption DEF TypeOK, Fails

LEMMA GetattrStep ==
  ASSUME LinksInv, Getattr
  PROVE  LinksInv'
<1>1. failures' \in 0 .. MaxFailures
  BY DEF Getattr, LinksInv, TypeOK
<1> QED
  BY <1>1, ReadKeeps, NoReply DEF Getattr, LinksInv

LEMMA ReadlinkStep ==
  ASSUME LinksInv, Readlink
  PROVE  LinksInv'
<1>1. failures' \in 0 .. MaxFailures
  BY DEF Readlink, LinksInv, TypeOK
<1>2. /\ Found
      /\ Fill(Link, ReadMeta(dir, Link))
      /\ UNCHANGED <<database, used, history>>
      /\ reply' = [op |-> "readlink", id |-> Link,
                   text |-> psql_read_buf(data[Link], ReadMeta(dir, Link).size)]
  BY Zenon DEF Readlink, Answer
<1>3. ReplyIsKnown'
  <2> DEFINE m == ReadMeta(dir, Link)
             id == Link
  <2>1. /\ id \in Ids /\ id \in used
        /\ dir[id] # None => m.size = dir[id].size
    BY <1>2, FoundFacts
  <2>2. dir' = dir /\ used' = used /\ given' = given
    BY <1>2 DEF database, history
  <2>3. reply' = [op |-> "readlink", id |-> id, text |-> psql_read_buf(data[id], m.size)]
    BY Zenon, <1>2
  <2> HIDE DEF id, m
  <2>4. reply'.id = id /\ reply'.text = psql_read_buf(data[id], m.size)
    BY <2>3
  <2>5. dir[id] # None => psql_read_buf(data[id], m.size) = given[id]
    BY <2>1 DEF LinksInv, RowsAreGiven
  <2> QED BY <2>1, <2>2, <2>4, <2>5 DEF ReplyIsKnown
<1> QED
  BY <1>1, <1>2, <1>3, ReadKeeps DEF LinksInv

LEMMA UnlinkRefusedStep ==
  ASSUME LinksInv, UnlinkRefused
  PROVE  LinksInv'
<1>1. failures' \in 0 .. MaxFailures
  BY FailsType DEF UnlinkRefused, NotStored, LinksInv
<1> QED
  BY <1>1, ReadKeeps, NoReply DEF UnlinkRefused, NotStored, LinksInv

LEMMA NotFoundStep ==
  ASSUME LinksInv, NotFound
  PROVE  LinksInv'
<1>1. UNCHANGED <<dir, data, path, meta, used, given, kept, times, failures>>
  BY DEF NotFound, database, redis, history
<1>2. ReplyIsKnown'
  BY NoReply DEF NotFound
<1> QED
  BY <1>1, <1>2 DEF LinksInv, TypeOK, RowsAreGiven, NoOrphans, OneLink, OnlyUsed, SizesAgree,
       TimesAgree, KeptIsThere

LEMMA RemountStep ==
  ASSUME LinksInv, Remount
  PROVE  LinksInv'
<1>1. /\ UNCHANGED <<dir, data, used, given, kept, times, failures>>
      /\ path' = None /\ meta' = [i \in Ids |-> None]
  BY DEF Remount, database, history
<1>2. ReplyIsKnown'
  BY NoReply DEF Remount
<1> QED
  BY <1>1, <1>2 DEF LinksInv, TypeOK, RowsAreGiven, NoOrphans, OneLink, OnlyUsed, SizesAgree,
       TimesAgree, KeptIsThere

LEMMA UnlinkStep ==
  ASSUME LinksInv, Unlink
  PROVE  LinksInv'
<1> DEFINE id == Link
<1>1. /\ id \in Ids
      /\ id \in used
      /\ \A j \in Ids : dir[j] # None => j = id
  BY FoundFacts DEF Unlink
<1>2. /\ meta' = [meta EXCEPT ![id] = None]
      /\ kept' = None
      /\ used' = used /\ given' = given /\ times' = times
  BY DEF Unlink
<1>3. path' \in {None, id}
  BY DEF Unlink
<1>4. \/ dir' = [dir EXCEPT ![id] = None] /\ data' = [data EXCEPT ![id] = NoRows]
      \/ dir' = dir /\ data' = data
  BY DEF Unlink, Delete, NotStored, database
<1>5. failures' \in 0 .. MaxFailures
  BY FailsType DEF Unlink, NotStored, LinksInv, TypeOK
<1>6. ReplyIsKnown'
  BY NoReply DEF Unlink
<1> HIDE DEF id
<1>7. dir \in [Ids -> Rows \cup {None}] /\ meta \in [Ids -> Metas \cup {None}]
  BY DEF LinksInv, TypeOK
<1>8. \A j \in Ids : meta'[j] = IF j = id THEN None ELSE meta[j]
  BY <1>1, <1>2, <1>7
<1>9. \A j \in Ids : dir'[j] # None => dir'[j] = dir[j] /\ data'[j] = data[j]
  BY <1>1, <1>4, <1>7
<1>10. TypeOK'
  BY <1>1, <1>2, <1>3, <1>4, <1>5 DEF LinksInv, TypeOK
<1>11. RowsAreGiven' /\ SizesAgree' /\ TimesAgree' /\ KeptIsThere'
  BY <1>2, <1>8, <1>9 DEF LinksInv, RowsAreGiven, SizesAgree, TimesAgree, KeptIsThere
<1>12. NoOrphans'
  <2>1. CASE dir' = [dir EXCEPT ![id] = None] /\ data' = [data EXCEPT ![id] = NoRows]
    <3> SUFFICES ASSUME NEW j \in Ids, dir'[j] = None PROVE data'[j] = NoRows
      BY DEF NoOrphans
    <3>1. id \in DOMAIN data
      BY <1>1 DEF LinksInv, TypeOK
    <3>2. CASE j = id
      BY <2>1, <3>1, <3>2
    <3>3. CASE j # id
      BY <2>1, <3>3, <1>7 DEF LinksInv, NoOrphans
    <3> QED BY <3>2, <3>3
  <2>2. CASE dir' = dir /\ data' = data
    BY <2>2 DEF LinksInv, NoOrphans
  <2> QED BY <1>4, <2>1, <2>2
<1>13. OneLink'
  BY <1>1, <1>3, <1>9 DEF LinksInv, OneLink
<1>14. OnlyUsed'
  BY <1>1, <1>2, <1>3, <1>8 DEF LinksInv, OnlyUsed
<1> QED
  BY <1>6, <1>10, <1>11, <1>12, <1>13, <1>14 DEF LinksInv

\* psql_write_meta, with times one of which the attributes agree with.
LEMMA WriteMetaStep ==
  ASSUME LinksInv, NEW m \in Metas, NEW possible \in SUBSET Times,
         WriteMeta(m, possible),
         dir[Link] # None => m.size = dir[Link].size,
         dir[Link] # None => \E t \in possible : m.mtime \in Reads(t)
  PROVE  LinksInv'
<1> DEFINE id == Link
<1>1. /\ id \in Ids
      /\ id \in used
      /\ \A j \in Ids : dir[j] # None => j = id
  BY FoundFacts DEF WriteMeta
<1>2. /\ path' = id /\ meta' = [meta EXCEPT ![id] = m]
      /\ data' = data /\ used' = used /\ given' = given /\ kept' = kept
  BY DEF WriteMeta, Fill
<1>3. /\ dir[id] # None => m.size = dir[id].size
      /\ dir[id] # None => \E t \in possible : m.mtime \in Reads(t)
  OBVIOUS
<1>4. \/ dir' = Update(m) /\ times' = possible
      \/ dir' \in {dir, Update(m)} /\ times' = times \cup possible
  BY DEF WriteMeta
<1>5. Update(m) = IF dir[id] = None THEN dir ELSE [dir EXCEPT ![id] = ToRow(m)]
  BY DEF Update
<1>6. failures' \in 0 .. MaxFailures
  BY FailsType DEF WriteMeta, LinksInv, TypeOK
<1>7. ReplyIsKnown'
  BY NoReply DEF WriteMeta
<1> HIDE DEF id
<1>8. /\ ToRow(m) \in Rows
      /\ ToRow(m).size = m.size
      /\ ToRow(m).mtime = convert_to_timestamp(m.mtime)
      /\ ToRow(m) # None
  BY ToRowType, NoneIsNoValue
<1>9. dir \in [Ids -> Rows \cup {None}] /\ meta \in [Ids -> Metas \cup {None}]
      /\ times \subseteq Times
  BY DEF LinksInv, TypeOK
<1>10. \A j \in Ids : meta'[j] = IF j = id THEN m ELSE meta[j]
  BY <1>1, <1>2, <1>9
<1>11. /\ dir' \in [Ids -> Rows \cup {None}]
       /\ \A j \in Ids : /\ dir'[j] = None <=> dir[j] = None
                         /\ dir'[j] \in {dir[j], ToRow(m)}
  BY <1>1, <1>4, <1>5, <1>8, <1>9
<1>12. TypeOK'
  BY <1>1, <1>2, <1>4, <1>6, <1>9, <1>11 DEF LinksInv, TypeOK
<1>13. \A j \in Ids : dir'[j] # None => dir'[j].size = dir[j].size
  BY <1>1, <1>3, <1>8, <1>11
<1>14. RowsAreGiven' /\ NoOrphans'
  BY <1>2, <1>11, <1>13 DEF LinksInv, RowsAreGiven, NoOrphans
<1>15. OneLink'
  BY <1>1, <1>2, <1>11 DEF OneLink
<1>16. OnlyUsed'
  BY <1>1, <1>2, <1>10 DEF LinksInv, OnlyUsed
<1>17. SizesAgree'
  BY <1>1, <1>3, <1>10, <1>11, <1>13 DEF SizesAgree
<1>18. KeptIsThere'
  BY <1>2, <1>11, NoneIsNoValue DEF LinksInv, KeptIsThere, TypeOK
<1>19. TimesAgree'
  <2>1. SUFFICES ASSUME dir[id] # None
                 PROVE  /\ \E t \in times' : dir'[id].mtime = convert_to_timestamp(t)
                        /\ \E t \in times' : m.mtime \in Reads(t)
    BY <1>1, <1>10, <1>11 DEF TimesAgree
  <2>2. PICK t \in possible : m.mtime \in Reads(t)
    BY <1>3, <2>1
  <2>3. convert_to_timestamp(m.mtime) = convert_to_timestamp(t)
    BY <2>2, TimesAreSpecs, ReadsWriteBack
  <2>4. PICK u \in times : dir[id].mtime = convert_to_timestamp(u)
    BY <1>1, <2>1 DEF LinksInv, TimesAgree
  <2>5. t \in times'
    BY <1>4
  <2>6. dir'[id] = ToRow(m) \/ (dir'[id] = dir[id] /\ u \in times')
    BY <1>1, <1>4, <1>5, <1>9, <2>1, <2>4
  <2>7. \E v \in times' : dir'[id].mtime = convert_to_timestamp(v)
    BY <1>8, <2>3, <2>4, <2>5, <2>6
  <2> QED BY <2>2, <2>5, <2>7
<1> QED
  BY <1>7, <1>12, <1>14, <1>15, <1>16, <1>17, <1>18, <1>19 DEF LinksInv

LEMMA UtimensStep ==
  ASSUME LinksInv, NEW t \in Times, Utimens(t)
  PROVE  LinksInv'
<1> DEFINE r == ReadMeta(dir, Link)
           m == [r EXCEPT !.mtime = t]
<1>1. Found /\ WriteMeta(m, {t})
  BY Zenon DEF Utimens, WriteMeta
<1>2. r \in Metas /\ (dir[Link] # None => r.size = dir[Link].size)
  BY <1>1, FoundFacts
<1> HIDE DEF r
<1>3. m \in Metas /\ m.size = r.size /\ m.mtime = t
  BY <1>2, TimesAreSpecs DEF Metas
<1>4. t \in Reads(t)
  BY DEF Reads
<1> HIDE DEF m
<1> QED
  BY <1>1, <1>2, <1>3, <1>4, WriteMetaStep

LEMMA ChownStep ==
  ASSUME LinksInv, Chown
  PROVE  LinksInv'
<1> DEFINE m == ReadMeta(dir, Link)
<1>1. Found /\ WriteMeta(m, times)
  BY Zenon DEF Chown, WriteMeta
<1>2. /\ m \in Metas
      /\ dir[Link] # None => m.size = dir[Link].size
      /\ dir[Link] # None => \E t \in times : m.mtime \in Reads(t)
  BY <1>1, FoundFacts
<1>3. times \in SUBSET Times
  BY DEF LinksInv, TypeOK
<1> HIDE DEF m
<1> QED
  BY <1>1, <1>2, <1>3, WriteMetaStep

-----------------------------------------------------------------------------
\* Where nothing is found there is no row, and Redis leads nowhere or to an id
\* that is gone; the sequence gives an id Redis knows nothing of.
LEMMA BeginFacts ==
  ASSUME LinksInv, NEW new \in Ids, NEW target \in Targets, NEW t \in Times,
         Begin(new, target)
  PROVE  LET d == Insert(new, target, t)
         IN  /\ \A i \in Ids : dir[i] = None
             /\ new \notin used
             /\ kept = None
             /\ meta[new] = None
             /\ d \in [Ids -> Rows \cup {None}]
             /\ \A i \in Ids : d[i] # None => i = new
             /\ d[new] # None
             /\ d[new].size = Len(target)
             /\ d[new].mtime = convert_to_timestamp(t)
             /\ Lookup(d) # None /\ ReadMeta(d, Lookup(d)) # None =>
                  /\ Lookup(d) = new
                  /\ ReadMeta(d, new) = FromRow(d[new])
<1> DEFINE d == Insert(new, target, t)
           m == [size |-> Len(target), mtime |-> t]
<1>1. ~Found /\ new \notin used
  BY DEF Begin
<1>2. \A i \in Ids : dir[i] = None
  BY <1>1, RowIsFound DEF LinksInv
<1>3. kept = None
  BY <1>2 DEF LinksInv, KeptIsThere, TypeOK
<1>4. meta[new] = None
  BY <1>1 DEF LinksInv, OnlyUsed
<1>5. m \in Metas /\ m.size = Len(target) /\ m.mtime = t
  BY TargetsAreStrings, TimesAreSpecs DEF Metas
<1>6. d = [dir EXCEPT ![new] = ToRow(m)]
  BY DEF Insert
<1> HIDE DEF d, m
<1>7. /\ ToRow(m) \in Rows /\ ToRow(m) # None
      /\ ToRow(m).size = m.size /\ ToRow(m).mtime = convert_to_timestamp(m.mtime)
  BY <1>5, ToRowType, NoneIsNoValue
<1>8. dir \in [Ids -> Rows \cup {None}]
  BY DEF LinksInv, TypeOK
<1>9. /\ d \in [Ids -> Rows \cup {None}]
      /\ d[new] = ToRow(m)
      /\ \A i \in Ids : i # new => d[i] = None
  BY <1>2, <1>6, <1>7, <1>8
<1>10. ASSUME Lookup(d) # None, ReadMeta(d, Lookup(d)) # None
       PROVE  Lookup(d) = new
  <2>1. CASE path = None
    <3> DEFINE R == {i \in Ids : d[i] # None}
    <3>1. R = {new}
      BY <1>7, <1>9
    <3>2. (\E i \in R : R = {i}) /\ (CHOOSE i \in R : TRUE) = new
      BY <3>1
    <3> QED BY Zenon, <2>1, <3>2 DEF Lookup
  <2>2. CASE path # None
    <3>1. Lookup(d) = path /\ Link = path
      BY <2>2 DEF Lookup, Link
    <3>2. path \in Ids
      BY <2>2 DEF LinksInv, TypeOK
    <3>3. ReadMeta(dir, path) = None
      BY <1>1, <2>2, <3>1 DEF Found
    <3>4. meta[path] = None
      BY <3>3 DEF ReadMeta
    <3>5. d[path] # None
      BY <1>10, <3>1, <3>4 DEF ReadMeta
    <3> QED BY <1>9, <3>1, <3>2, <3>5
  <2> QED BY <2>1, <2>2
<1>11. ReadMeta(d, new) = FromRow(d[new])
  BY <1>4, <1>7, <1>9 DEF ReadMeta
<1> QED
  BY <1>1, <1>2, <1>3, <1>4, <1>5, <1>7, <1>9, <1>10, <1>11 DEF d

LEMMA SymlinkRefusedStep ==
  ASSUME LinksInv, NEW new \in Ids, NEW target \in Targets, NEW t \in Times,
         SymlinkRefused(new, target, t)
  PROVE  LinksInv'
<1>1. /\ Begin(new, target)
      /\ UNCHANGED <<dir, data, path, meta, kept, times>>
  BY DEF SymlinkRefused, database, redis
<1>2. /\ \A i \in Ids : dir[i] = None
      /\ used' = used \cup {new}
      /\ given' = [given EXCEPT ![new] = target]
      /\ reply' = Nothing
  BY <1>1, BeginFacts DEF Begin, Answer
<1>3. failures' \in 0 .. MaxFailures
  BY FailsType DEF SymlinkRefused, LinksInv, TypeOK
<1>4. ReplyIsKnown'
  BY <1>2 DEF ReplyIsKnown, Nothing
<1>5. TypeOK'
  BY <1>1, <1>2, <1>3 DEF LinksInv, TypeOK
<1>6. RowsAreGiven' /\ NoOrphans' /\ OneLink' /\ SizesAgree' /\ TimesAgree' /\ KeptIsThere'
  BY <1>1, <1>2 DEF LinksInv, RowsAreGiven, NoOrphans, OneLink, SizesAgree, TimesAgree, KeptIsThere
<1>7. OnlyUsed'
  BY <1>1, <1>2 DEF LinksInv, OnlyUsed
<1> QED
  BY <1>4, <1>5, <1>6, <1>7 DEF LinksInv

LEMMA SymlinkFailsStep ==
  ASSUME LinksInv, NEW new \in Ids, NEW target \in Targets, NEW t \in Times,
         SymlinkFails(new, target, t)
  PROVE  LinksInv'
<1> DEFINE d == Insert(new, target, t)
           m == FromRow(d[new])
<1>1. /\ Begin(new, target)
      /\ Lookup(d) # None /\ ReadMeta(d, Lookup(d)) # None
      /\ Fill(Lookup(d), ReadMeta(d, Lookup(d)))
      /\ UNCHANGED <<dir, data, kept, times>>
  BY DEF SymlinkFails, NotStored, database
<1>2. /\ \A i \in Ids : dir[i] = None
      /\ d \in [Ids -> Rows \cup {None}]
      /\ d[new] # None
      /\ Lookup(d) = new /\ ReadMeta(d, new) = m
  BY <1>1, BeginFacts
<1>3. path' = new /\ meta' = [meta EXCEPT ![new] = m]
  BY Zenon, <1>1, <1>2 DEF Fill
<1> HIDE DEF d
<1>4. m \in Metas
  BY <1>2, FromRowType
<1> HIDE DEF m
<1>5. /\ used' = used \cup {new}
      /\ given' = [given EXCEPT ![new] = target]
      /\ reply' = Nothing
  BY <1>1 DEF Begin, Answer
<1>6. failures' \in 0 .. MaxFailures
  BY FailsType DEF SymlinkFails, NotStored, LinksInv
<1>7. ReplyIsKnown'
  BY <1>5 DEF ReplyIsKnown, Nothing
<1>8. TypeOK'
  BY <1>1, <1>3, <1>4, <1>5, <1>6 DEF LinksInv, TypeOK
<1>9. RowsAreGiven' /\ NoOrphans' /\ OneLink' /\ SizesAgree' /\ TimesAgree' /\ KeptIsThere'
  BY <1>1, <1>2 DEF LinksInv, RowsAreGiven, NoOrphans, OneLink, SizesAgree, TimesAgree, KeptIsThere
<1>10. OnlyUsed'
  <2>1. \A j \in Ids : j # new => meta'[j] = meta[j]
    BY <1>3 DEF LinksInv, TypeOK
  <2> QED BY <2>1, <1>3, <1>5 DEF LinksInv, OnlyUsed
<1> QED
  BY <1>7, <1>8, <1>9, <1>10 DEF LinksInv

LEMMA SymlinkStep ==
  ASSUME LinksInv, NEW new \in Ids, NEW target \in Targets, NEW t \in Times,
         Symlink(new, target, t)
  PROVE  LinksInv'
<1> DEFINE d == Insert(new, target, t)
           m == FromRow(d[new])
<1>1. /\ Begin(new, target)
      /\ Lookup(d) # None /\ ReadMeta(d, Lookup(d)) # None
      /\ Fill(Lookup(d), ReadMeta(d, Lookup(d)))
      /\ dir' = d
      /\ data' = [data EXCEPT ![Lookup(d)] = psql_write_buf(@, 0, target)]
      /\ times' = {t}
      /\ kept' \in {Lookup(d), kept}
  BY DEF Symlink
<1>2. /\ \A i \in Ids : dir[i] = None
      /\ kept = None
      /\ new \notin used
      /\ d \in [Ids -> Rows \cup {None}]
      /\ \A i \in Ids : d[i] # None => i = new
      /\ d[new] # None
      /\ d[new].size = Len(target)
      /\ d[new].mtime = convert_to_timestamp(t)
      /\ Lookup(d) = new /\ ReadMeta(d, new) = m
  BY <1>1, BeginFacts
<1>3. path' = new /\ meta' = [meta EXCEPT ![new] = m]
  BY Zenon, <1>1, <1>2 DEF Fill
<1>4. data' = [data EXCEPT ![new] = psql_write_buf(data[new], 0, target)]
  BY Zenon, <1>1, <1>2
<1>5. kept' \in {new, None}
  BY <1>1, <1>2
<1>6. failures' \in 0 .. MaxFailures
  BY FailsType DEF Symlink, LinksInv, TypeOK
<1> HIDE DEF d
<1>7. m \in Metas /\ m.size = d[new].size /\ m.mtime = convert_from_timestamp(d[new].mtime)
  BY <1>2, FromRowType
<1> HIDE DEF m
<1>8. /\ used' = used \cup {new}
      /\ given' = [given EXCEPT ![new] = target]
      /\ reply' = Nothing
  BY <1>1 DEF Begin, Answer
<1>9. ReplyIsKnown'
  BY <1>8 DEF ReplyIsKnown, Nothing
<1>10. TypeOK'
  BY <1>1, <1>2, <1>3, <1>4, <1>5, <1>6, <1>7, <1>8 DEF LinksInv, TypeOK
<1>11. /\ given'[new] = target
       /\ meta'[new] = m
       /\ \A j \in Ids : j # new => meta'[j] = meta[j]
  BY <1>3, <1>8 DEF LinksInv, TypeOK
<1>12. data'[new] = psql_write_buf(NoRows, 0, target)
       /\ \A j \in Ids : j # new => data'[j] = data[j]
  BY <1>2, <1>4 DEF LinksInv, TypeOK, NoOrphans
<1>13. psql_read_buf(data'[new], Len(target)) = target
  BY <1>12, TargetsAreStrings, RoundTrip
<1>14. RowsAreGiven'
  BY <1>1, <1>2, <1>8, <1>11, <1>13 DEF RowsAreGiven
<1>15. NoOrphans'
  BY <1>1, <1>2, <1>12 DEF LinksInv, NoOrphans
<1>16. OneLink' /\ KeptIsThere'
  BY <1>1, <1>2, <1>3, <1>5 DEF OneLink, KeptIsThere
<1>17. OnlyUsed'
  BY <1>3, <1>8, <1>11 DEF LinksInv, OnlyUsed
<1>18. SizesAgree'
  BY <1>1, <1>2, <1>7, <1>11 DEF SizesAgree
<1>19. TimesAgree'
  <2>1. m.mtime \in Reads(t)
    BY <1>2, <1>7 DEF Reads
  <2> QED BY <2>1, <1>1, <1>2, <1>11 DEF TimesAgree
<1> QED
  BY <1>9, <1>10, <1>14, <1>15, <1>16, <1>17, <1>18, <1>19 DEF LinksInv

-----------------------------------------------------------------------------
\* LinksInv is inductive: rows, blocks, Redis and the history agree whatever
\* fails in the handlers of a link.
THEOREM LinksInductive == Spec => []LinksInv
<1>1. Init => LinksInv
  BY LinksInit
<1>2. LinksInv /\ [Next]_vars => LinksInv'
  <2> SUFFICES ASSUME LinksInv, [Next]_vars PROVE LinksInv'
    OBVIOUS
  <2>1. CASE \E new \in Ids, target \in Targets, t \in Times :
               \/ Symlink(new, target, t)
               \/ SymlinkFails(new, target, t)
               \/ SymlinkRefused(new, target, t)
    BY Zenon, <2>1, SymlinkStep, SymlinkFailsStep, SymlinkRefusedStep
  <2>2. CASE \E t \in Times : Utimens(t)
    BY Zenon, <2>2, UtimensStep
  <2>3. CASE NotFound \/ Getattr \/ Readlink \/ Chown
    BY Zenon, <2>3, NotFoundStep, GetattrStep, ReadlinkStep, ChownStep
  <2>4. CASE Unlink \/ UnlinkRefused \/ Remount
    BY Zenon, <2>4, UnlinkStep, UnlinkRefusedStep, RemountStep
  <2>5. CASE UNCHANGED vars
    BY <2>5 DEF vars, database, redis, history, LinksInv, TypeOK, RowsAreGiven, NoOrphans, OneLink,
         OnlyUsed, SizesAgree, TimesAgree, KeptIsThere, ReplyIsKnown
  <2> QED BY Zenon, <2>1, <2>2, <2>3, <2>4, <2>5 DEF Next
<1> QED
  BY <1>1, <1>2, PTL DEF Spec

\* The variables keep their types.
THEOREM LinksTypeCorrect == Spec => []TypeOK
BY LinksInductive, PTL DEF LinksInv

\* readlink gives back the target that symlink was given, for every length and
\* block size, as long as the link has a row.
THEOREM TargetsReadBack == Spec => []ReadsBack
<1>1. LinksInv => ReadsBack
  BY DEF LinksInv, ReplyIsKnown, ReadsBack
<1> QED
  BY <1>1, LinksInductive, PTL

\* A link has all its blocks or is not there, and leaves no blocks behind.
THEOREM LinksAreWhole == Spec => []WholeOrNothing
<1>1. LinksInv => WholeOrNothing
  BY DEF LinksInv, RowsAreGiven, NoOrphans, WholeOrNothing
<1> QED
  BY <1>1, LinksInductive, PTL

\* An acknowledged link stays the only one at its path until it is removed.
THEOREM PromisesAreKept == Spec => []Promised
<1>1. LinksInv => Promised
  <2> SUFFICES ASSUME LinksInv, kept # None PROVE Promised
    BY DEF Promised
  <2>1. kept \in Ids /\ dir[kept] # None
    BY DEF LinksInv, TypeOK, KeptIsThere
  <2>2. path \in {None, kept} /\ \A j \in Ids : dir[j] # None => j = kept
    BY <2>1 DEF LinksInv, OneLink
  <2>3. {i \in Ids : dir[i] # None} = {kept}
    BY <2>1, <2>2
  <2> QED BY <2>1, <2>2, <2>3 DEF LinksInv, SizesAgree, Promised
<1> QED
  BY <1>1, LinksInductive, PTL

LEMMA TruncatedTwice ==
  ASSUME NEW t \in Timespec
  PROVE  Truncated(Truncated(t)) = Truncated(t)
<1> DEFINE q == t.nsec \div PerTick
<1>1. PerTick \in Nat \ {0} /\ q \in Int /\ t.sec \in Int
  BY Fraction, TimeAssumption DEF Timespec
<1>2. Truncated(t) = [sec |-> t.sec, nsec |-> q * PerTick]
  BY DEF Truncated, Timespec
<1> HIDE DEF q
<1>3. (q * PerTick) \div PerTick = q
  <2>1. q * PerTick = PerTick * q + 0 /\ q * PerTick \in Int /\ 0 \in 0 .. PerTick - 1
    BY <1>1
  <2> QED BY <2>1, <1>1, DivisionUnique
<1> QED
  BY <1>2, <1>3 DEF Truncated

\* Stored times are exact as signed numbers, times in Redis to the tick from the
\* epoch on.
THEOREM TimesAreKept == Spec => []TimesKept
<1>1. LinksInv => TimesKept
  <2> SUFFICES ASSUME LinksInv, NEW i \in Ids, dir[i] # None
               PROVE  /\ \E t \in times : Signed(dir[i].mtime) = Ticks(t)
                      /\ meta[i] # None =>
                           \E t \in times : t.sec >= Epoch =>
                             Truncated(meta[i].mtime) = Truncated(t)
    BY DEF TimesKept
  <2>1. /\ \E t \in times : dir[i].mtime = convert_to_timestamp(t)
        /\ meta[i] # None => \E t \in times : meta[i].mtime \in Reads(t)
    BY DEF LinksInv, TimesAgree
  <2>2. \A t \in times : t \in Timespec /\ Storable(t)
    BY TimesAreSpecs DEF LinksInv, TypeOK
  <2>3. \E t \in times : Signed(dir[i].mtime) = Ticks(t)
    <3>1. PICK t \in times : dir[i].mtime = convert_to_timestamp(t)
      BY <2>1
    <3>2. Signed(convert_to_timestamp(t)) = Ticks(t)
      BY Zenon, <2>2, SignedIsTicks
    <3> QED BY Zenon, <3>1, <3>2
  <2>4. ASSUME meta[i] # None
        PROVE  \E t \in times : t.sec >= Epoch => Truncated(meta[i].mtime) = Truncated(t)
    <3>1. PICK t \in times : meta[i].mtime \in Reads(t)
      BY <2>1, <2>4
    <3>2. ASSUME t.sec >= Epoch PROVE Truncated(meta[i].mtime) = Truncated(t)
      <4>1. convert_from_timestamp(convert_to_timestamp(t)) = Truncated(t)
        BY Zenon, <2>2, <3>2, StoredTimeIsKept
      <4>2. Truncated(Truncated(t)) = Truncated(t)
        BY Zenon, <2>2, TruncatedTwice
      <4>3. meta[i].mtime = t \/ meta[i].mtime = Truncated(t)
        BY Zenon, <3>1, <4>1 DEF Reads
      <4> QED BY Zenon, <4>2, <4>3
    <3> QED BY Zenon, <3>2
  <2> QED BY Zenon, <2>3, <2>4
<1> QED
  BY <1>1, LinksInductive, PTL
=============================================================================
