------------------------------- MODULE Blocks -------------------------------
(***************************************************************************)
(* The block arithmetic of pgsql.c: a buffer is cut into pieces, one for   *)
(* each block of the table "data" it touches.  A file's rows of that table *)
(* are a function from block numbers to blocks, a block is a sequence of   *)
(* BlockSize bytes; a byte may be any value.                               *)
(***************************************************************************)
EXTENDS Integers, Sequences, FiniteSets

CONSTANTS BlockSize,   \* the option blocksize
          Zero         \* the byte 0

ASSUME BlockAssumption == BlockSize \in Nat \ {0}

Zeros == [i \in 1..BlockSize |-> Zero]

\* No row of the table "data" belongs to the file.
NoRows == [b \in {} |-> Zeros]

\* Where a buffer of len bytes at offset starts and where it ends.
compute_block_info(offset, len) ==
  LET from_block == offset \div BlockSize
      from_offset == offset % BlockSize
      nof_blocks == (from_offset + len) \div BlockSize
      rest == (from_offset + len) % BlockSize
      last == from_block + nof_blocks
  IN  [from_block |-> from_block,
       from_offset |-> from_offset,
       from_len |-> IF nof_blocks = 0 THEN len ELSE BlockSize - from_offset,
       to_block |-> IF rest # 0 THEN last ELSE IF last = 0 THEN 0 ELSE last - 1,
       to_len |-> IF rest # 0 THEN rest ELSE BlockSize]

Touched(info) == info.from_block .. info.to_block

\* The part of the buffer that block b takes: len bytes from start on, which
\* come to lie at offset in the block.
Piece(info, b) ==
  IF b = info.from_block
  THEN [offset |-> info.from_offset, len |-> info.from_len, start |-> 0]
  ELSE [offset |-> 0,
        len |-> IF b = info.to_block THEN info.to_len ELSE BlockSize,
        start |-> info.from_len + (b - info.from_block - 1) * BlockSize]

\* psql_write_block refuses a piece that leaves the block.
TooBig(piece) == piece.offset + piece.len > BlockSize

\* Mutant: the buffer is not moved on from block to block.
WriteFromStart(block, piece, buf) ==
  [i \in 1..BlockSize |->
     IF i \in piece.offset + 1 .. piece.offset + piece.len
     THEN buf[i - piece.offset]
     ELSE block[i]]

\* The bytes of the piece replace those of the block, the others stay.
psql_write_block(block, piece, buf) ==
  [i \in 1..BlockSize |->
     IF i \in piece.offset + 1 .. piece.offset + piece.len
     THEN buf[piece.start + i - piece.offset]
     ELSE block[i]]

\* A block without a row is created full of zeros before it is written.
Block(rows, b) == IF b \in DOMAIN rows THEN rows[b] ELSE Zeros

WriteFails(offset, len) ==
  LET info == compute_block_info(offset, len)
  IN  len # 0 /\ \E b \in Touched(info) : TooBig(Piece(info, b))

psql_write_buf(rows, offset, buf) ==
  LET info == compute_block_info(offset, Len(buf))
  IN  IF Len(buf) = 0 THEN rows
      ELSE [b \in DOMAIN rows \cup Touched(info) |->
              IF b \in Touched(info)
              THEN psql_write_block(Block(rows, b), Piece(info, b), buf)
              ELSE rows[b]]

(***************************************************************************)
(* psql_read_buf means to put zeros for blocks that have no row, but takes *)
(* the number of a row to be 0 (ntohl of a 64-bit word in network order),  *)
(* so that the n-th block read is the n-th row there is.  It is called at  *)
(* offset 0 only.                                                          *)
(***************************************************************************)
Nth(rows, last, n) ==
  LET R == {b \in DOMAIN rows : b <= last}
      At == {b \in R : Cardinality({c \in R : c < b}) = n}
  IN  IF At = {} THEN Zeros ELSE rows[CHOOSE b \in At : TRUE]

\* The bytes copied, which are compared with the bytes wanted.
Copied(info) ==
  IF info.from_block = info.to_block THEN info.from_len
  ELSE info.from_len + (info.to_block - info.from_block - 1) * BlockSize + info.to_len

ReadFails(len) == Copied(compute_block_info(0, len)) # len

psql_read_buf(rows, len) ==
  LET info == compute_block_info(0, len)
  IN  [k \in 1..len |->
         LET b == CHOOSE c \in Touched(info) :
                    /\ Piece(info, c).start < k
                    /\ k <= Piece(info, c).start + Piece(info, c).len
         IN  Nth(rows, info.to_block, b)[k - Piece(info, b).start]]

(***************************************************************************)
(* What is meant: a file is a flat sequence of bytes, zero where nothing   *)
(* was written.                                                            *)
(***************************************************************************)
ByteAt(rows, p) == Block(rows, p \div BlockSize)[(p % BlockSize) + 1]

WrittenByte(rows, offset, buf, p) ==
  IF p \in offset .. offset + Len(buf) - 1 THEN buf[p - offset + 1]
  ELSE ByteAt(rows, p)
=============================================================================
