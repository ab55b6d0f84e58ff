------------------------------- MODULE Arrays -------------------------------
(***************************************************************************)
(* The two array types: bits packed into bytes (src/src/bitmap.c) and      *)
(* pointers in rows that malloc can still serve (src/src/point_array.c).   *)
(***************************************************************************)
EXTENDS Integers, FiniteSets

CONSTANT MaxCol   \* MAX_LEN_LIMIT / sizeof(uint64_t *) = 1000: pointers in a row

ASSUME ArraysAssumption == MaxCol \in Nat \ {0}

BIT_SUCCESS == 1
BIT_FAIL    == -1
ANY         == 99     \* a pointer nobody has stored

ROUND_UP(val, x) == ((val + x - 1) \div x) * x

bitmap_alloc(len) == [data |-> [i \in 0 .. (ROUND_UP(len, 8) \div 8) - 1 |-> 0], len |-> len]

BitOf(byte, k) == (byte \div 2 ^ k) % 2

bitmap_get(b, offset) ==
    IF offset >= b.len THEN BIT_FAIL ELSE BitOf(b.data[offset \div 8], offset % 8)

\* faulty variant: the mask of the bit is not inverted
BitClearsOthers(b, offset, value) ==
    IF value = 0 THEN [b EXCEPT !.data[offset \div 8] = BitOf(@, offset % 8) * 2 ^ (offset % 8)]
    ELSE [b EXCEPT !.data[offset \div 8] = @ + (1 - BitOf(@, offset % 8)) * 2 ^ (offset % 8)]

\* |= of the mask, &= of its complement
BitStored(b, offset, value) ==
    LET k == offset % 8
    IN  IF value = 0 THEN [b EXCEPT !.data[offset \div 8] = @ - BitOf(@, k) * 2 ^ k]
        ELSE [b EXCEPT !.data[offset \div 8] = @ + (1 - BitOf(@, k)) * 2 ^ k]

bitmap_set(b, offset, value) ==
    IF value \notin {0, 1} \/ offset >= b.len THEN [ret |-> BIT_FAIL, b |-> b]
    ELSE [ret |-> BIT_SUCCESS, b |-> BitStored(b, offset, value)]

-----------------------------------------------------------------------------
RowNum(size) == (size + MaxCol - 1) \div MaxCol

\* every row has MaxCol pointers, the last one the rest
create_point_array(size) ==
    [i \in 0 .. RowNum(size) - 1 |->
       [j \in 0 .. (IF i = RowNum(size) - 1 THEN size - MaxCol * i ELSE MaxCol) - 1 |-> ANY]]

set_point_value(rows, index, value) == [rows EXCEPT ![index \div MaxCol][index % MaxCol] = value]
get_point_value(rows, index) == rows[index \div MaxCol][index % MaxCol]
=============================================================================
