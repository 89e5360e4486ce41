------------------------------ MODULE SubWord ------------------------------
(***************************************************************************)
(* Accesses of any size and alignment built from transactional loads and   *)
(* masked stores of whole words: wrappers.c (stm_load_u8 to                *)
(* stm_set_bytes) and the load, store, copy, move and set functions of the *)
(* ABI (abi.c).  The word is 4 or 8 bytes, as the build decides.  Memory   *)
(* is what the transaction sees of it, byte by byte.                       *)
(***************************************************************************)
EXTENDS Integers, Sequences, FiniteSets, SequencesExt

CONSTANTS
  Size,          \* number of bytes of the memory
  MaxLen         \* longest block loaded, stored, copied or set

VARIABLES
  W,             \* sizeof(stm_word_t)
  op,            \* the access: [fn, a, n, src]
  before, bytes,   \* memory before the access and now
  ret,           \* the bytes a load returned
  done           \* has the access been made?

subVars == <<W, op, before, bytes, ret, done>>

Byte == 0 .. Size - 1

\* Bytes are told apart by where they come from: the byte the memory held at x,
\* byte i of the argument of a store, and whatever the mask of a store hides.
Old(x) == <<"old", x>>
New(i) == <<"new", i>>
Junk == <<"junk", 0>>

Least(a, b) == IF a < b THEN a ELSE b

\* sizeof of the types wrappers.c and abi.c have functions for
SizeOf == [u8 |-> 1, u16 |-> 2, u32 |-> 4, u64 |-> 8, char |-> 1, short |-> 2, int |-> 4,
           float |-> 4, double |-> 8, long |-> W]

\* ... and those the ABI always accesses as blocks of bytes
SizeOfGeneric == [M64 |-> 8, M128 |-> 16, CF |-> 8, CD |-> 16]

----------------------------------------------------------------------------
(* The transactional accesses of the library: whole words. *)

TM_LOAD(m, a) == [i \in 0 .. W - 1 |-> m[a + i]]

TM_STORE2(m, s) ==
  [x \in Byte |-> IF x - s.a \in s.mask THEN s.val[x - s.a] ELSE m[x]]

AllBytes == 0 .. W - 1

\* bytes of a word from byte i on
Slice(word, i, n) == [j \in 1 .. n |-> word[i + j - 1]]

----------------------------------------------------------------------------
(* Blocks: the bytes up to the first word boundary, full words, the rest.  *)

\* what a bug would do: fill up the first word even when the block ends in it
BugSplit(a, n) ==
  LET i == a % W
      head == IF i = 0 THEN 0 ELSE W - i
      rest == IF head > n THEN 0 ELSE n - head
  IN  [i |-> i, base |-> a - i, head |-> head,
       first |-> IF i = 0 THEN a ELSE a - i + W,
       full |-> rest \div W, tail |-> rest % W]

\* How n bytes at a are split.
Split(a, n) ==
  LET i == a % W
      head == IF i = 0 THEN 0 ELSE Least(W - i, n)
  IN  [i |-> i, base |-> a - i, head |-> head,
       first |-> IF i = 0 THEN a ELSE a - i + W,
       full |-> (n - head) \div W, tail |-> (n - head) % W]

stm_load_bytes(m, a, n) ==
  LET p == Split(a, n)
      last == p.first + p.full * W
  IN  (IF p.head > 0 THEN Slice(TM_LOAD(m, p.base), p.i, p.head) ELSE <<>>)
        \o FlattenSeq([k \in 1 .. p.full |-> Slice(TM_LOAD(m, p.first + (k - 1) * W), 0, W)])
        \o (IF p.tail > 0 THEN Slice(TM_LOAD(m, last), 0, p.tail) ELSE <<>>)

\* The masked stores of a block, where byte j of the block is buf[j].
Pieces(a, n, buf, pad) ==
  LET p == Split(a, n)
      last == p.first + p.full * W
      piece(at, i, len, from) ==
        [a |-> at, mask |-> i .. i + len - 1,
         val |-> [j \in AllBytes |-> IF j \in i .. i + len - 1 THEN buf[from + j - i] ELSE pad]]
  IN  (IF p.head > 0 THEN <<piece(p.base, p.i, p.head, 1)>> ELSE <<>>)
        \o [k \in 1 .. p.full |-> piece(p.first + (k - 1) * W, 0, W, p.head + (k - 1) * W + 1)]
        \o (IF p.tail > 0 THEN <<piece(last, 0, p.tail, n - p.tail + 1)>> ELSE <<>>)

stm_store_bytes(m, a, buf) ==
  FoldLeft(TM_STORE2, m, Pieces(a, Len(buf), buf, Junk))

\* The value word holds the byte everywhere, also where the mask hides it.
stm_set_bytes(m, a, byte, n) ==
  FoldLeft(TM_STORE2, m, Pieces(a, n, [j \in 1 .. n |-> byte], byte))

----------------------------------------------------------------------------
(* Values of 1, 2, 4 and 8 bytes.  Types of the same size convert through   *)
(* a union, which keeps their bytes.                                       *)

WordOf(a) == a - (a % W)
Misaligned(a, k) == a % k # 0

stm_load_typed(m, a, k) ==
  CASE Misaligned(a, k) -> stm_load_bytes(m, a, k)
    [] k > W -> Slice(TM_LOAD(m, a), 0, W) \o Slice(TM_LOAD(m, a + W), 0, W)
    [] OTHER -> LET lane == (a % W) \div k
                IN  Slice(TM_LOAD(m, WordOf(a)), lane * k, k)

LaneStore(a, k, v) ==
  LET lane == (a % W) \div k
      mask == lane * k .. lane * k + k - 1
  IN  [a |-> WordOf(a), mask |-> mask,
       val |-> [j \in AllBytes |-> IF j \in mask THEN v[j - lane * k + 1] ELSE Junk]]

WordStore(a, v, from) == [a |-> a, mask |-> AllBytes, val |-> [j \in AllBytes |-> v[from + j]]]

stm_store_typed(m, a, k, v) ==
  CASE Misaligned(a, k) -> stm_store_bytes(m, a, v)
    [] k > W -> FoldLeft(TM_STORE2, m, <<WordStore(a, v, 1), WordStore(a + W, v, W + 1)>>)
    [] OTHER -> TM_STORE2(m, LaneStore(a, k, v))

----------------------------------------------------------------------------
(* Copies of the ABI: a transactional source is loaded completely into a    *)
(* buffer before the first store, so memmove and memcpy are the same.      *)

memcpyRtWt(m, dst, src, n) == stm_store_bytes(m, dst, stm_load_bytes(m, src, n))

----------------------------------------------------------------------------

Arg(n) == [i \in 1 .. n |-> New(i)]

Typed == {SizeOf[T] : T \in DOMAIN SizeOf}
Lengths(fn) == IF fn \in {"load", "store"} THEN Typed
               ELSE 0 .. MaxLen \cup {SizeOfGeneric[T] : T \in DOMAIN SizeOfGeneric}

Functions == {"load", "store", "load_bytes", "store_bytes", "set_bytes", "memcpyRtWt"}

\* All bytes accessed, and the words around them, are inside the memory.
SubInit ==
  /\ W \in {4, 8}
  /\ op \in [fn : Functions, a : Byte, n : 0 .. MaxLen, src : Byte]
  /\ op.n \in Lengths(op.fn)
  /\ op.a + op.n <= Size
  /\ IF op.fn = "memcpyRtWt" THEN op.src + op.n <= Size ELSE op.src = 0
  /\ before = [x \in Byte |-> Old(x)]
  /\ bytes = before
  /\ ret = <<>>
  /\ done = FALSE

Loads(fn, result) ==
  /\ op.fn = fn
  /\ ret' = result
  /\ UNCHANGED bytes

Stores(fn, result) ==
  /\ op.fn = fn
  /\ bytes' = result
  /\ UNCHANGED ret

Access ==
  /\ ~done
  /\ \/ Loads("load", stm_load_typed(bytes, op.a, op.n))
     \/ Loads("load_bytes", stm_load_bytes(bytes, op.a, op.n))
     \/ Stores("store", stm_store_typed(bytes, op.a, op.n, Arg(op.n)))
     \/ Stores("store_bytes", stm_store_bytes(bytes, op.a, Arg(op.n)))
     \/ Stores("set_bytes", stm_set_bytes(bytes, op.a, New(1), op.n))
     \/ Stores("memcpyRtWt", memcpyRtWt(bytes, op.a, op.src, op.n))
  /\ done' = TRUE
  /\ UNCHANGED <<W, op, before>>

SubSpec == SubInit /\ [][Access]_subVars

----------------------------------------------------------------------------
(* Properties *)

\* The block of n bytes at a.
Block(m, a, n) == [i \in 1 .. n |-> m[a + i - 1]]

\* What the access stores at a, by the byte-wise meaning of its function.
Intended == CASE op.fn \in {"store", "store_bytes"} -> Arg(op.n)
              [] op.fn = "set_bytes"  -> [i \in 1 .. op.n |-> New(1)]
              [] op.fn = "memcpyRtWt" -> Block(before, op.src, op.n)
              [] OTHER                -> Block(before, op.a, op.n)

\* Whatever its size, alignment, overlap and the size of a word, a load returns
\* exactly the bytes of its object, and a store changes them to the value given
\* and touches no neighbour in the words it shares with others: the lanes, masks
\* and loop bounds of wrappers.c, and the copies of abi.c that rely on them.
BytesExact ==
  done =>
    /\ op.fn \in {"load", "load_bytes"} => ret = Block(before, op.a, op.n)
    /\ Block(bytes, op.a, op.n) = Intended
    /\ \A x \in Byte : x \notin op.a .. op.a + op.n - 1 => bytes[x] = before[x]

=============================================================================
