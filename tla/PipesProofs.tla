------------------------------ MODULE PipesProofs ------------------------------
(***************************************************************************)
(* Pipes, for any number of tasks, pipes and slots, any block size and any *)
(* width of the indices that the block size divides: nobody sleeps on what *)
(* is already there, every sleeper will be woken, the addresses in use are *)
(* mapped, and what goes through is a stream.                              *)
(***************************************************************************)
EXTENDS Pipes, ListLemmas

-----------------------------------------------------------------------------
\* Quotient and remainder.
LEMMA Divided ==
  ASSUME NEW x \in Nat, NEW b \in Nat \ {0}
  PROVE  x = b * (x \div b) + (x % b) /\ x % b \in 0 .. b - 1 /\ x \div b \in Nat
<1>1. x % b \in 0 .. b - 1
  OBVIOUS
<1>2. x \div b \in Nat
  OBVIOUS
<1>3. x = b * (x \div b) + (x % b)
  OBVIOUS
<1> QED BY <1>1, <1>2, <1>3

\* There is one remainder.
LEMMA Remainder ==
  ASSUME NEW b \in Nat \ {0}, NEW q \in Nat, NEW r \in 0 .. b - 1
  PROVE  (b * q + r) % b = r
OBVIOUS

\* Up to twice the divisor.
LEMMA AroundOnce ==
  ASSUME NEW x \in Nat, NEW b \in Nat \ {0}
  PROVE  (x < b => x % b = x) /\ (b <= x /\ x < 2 * b => x % b = x - b)
<1>1. x < b => x % b = x
  OBVIOUS
<1>2. b <= x /\ x < 2 * b => x % b = x - b
  OBVIOUS
<1> QED BY <1>1, <1>2

\* What the divisor divides makes no difference.
LEMMA LessAMultiple ==
  ASSUME NEW x \in Nat, NEW b \in Nat \ {0}, NEW w \in Nat, w % b = 0, x >= w
  PROVE  (x - w) % b = x % b
<1> DEFINE k == w \div b
           q == x \div b
           r == x % b
<1>1. w = b * k /\ k \in Nat
  BY Divided
<1>2. x = b * q + r /\ q \in Nat /\ r \in 0 .. b - 1
  BY Divided
<1> HIDE DEF k, q, r
<1>3. q - k \in Nat
  <2> SUFFICES ASSUME q < k PROVE FALSE
    BY <1>1, <1>2
  <2>1. k >= q + 1 /\ b * k >= b * (q + 1) /\ b * (q + 1) = b * q + b
    BY <1>1, <1>2
  <2> QED BY <1>1, <1>2, <2>1
<1>4. x - w = b * (q - k) + r
  BY <1>1, <1>2
<1>5. (x - w) % b = r
  BY <1>2, <1>3, <1>4, Remainder
<1> QED BY <1>5 DEF r

\* Numbers less than the divisor apart do not have the same remainder.
LEMMA NotTheSame ==
  ASSUME NEW x \in Nat, NEW y \in Nat, NEW b \in Nat \ {0}, x < y, y < x + b
  PROVE  x % b # y % b
<1> SUFFICES ASSUME x % b = y % b PROVE FALSE
  OBVIOUS
<1> DEFINE p == x \div b
           q == y \div b
           r == x % b
<1>1. x = b * p + r /\ p \in Nat
  BY Divided
<1>2. y = b * q + r /\ q \in Nat
  BY Divided
<1>3. r \in 0 .. b - 1
  BY Divided
<1> HIDE DEF p, q, r
<1>4. b * q > b * p /\ b * q < b * p + b
  BY <1>1, <1>2, <1>3
<1>5. CASE q <= p
  <2>1. b * q <= b * p
    BY <1>1, <1>2, <1>5
  <2> QED BY <1>4, <1>1, <1>2, <2>1
<1>6. CASE q >= p + 1
  <2>1. b * q >= b * (p + 1) /\ b * (p + 1) = b * p + b
    BY <1>1, <1>2, <1>6
  <2> QED BY <1>4, <1>1, <1>2, <2>1
<1> QED BY <1>1, <1>2, <1>5, <1>6

-----------------------------------------------------------------------------
\* What is between two indices.
Between(w, r) == (w + Word - r) % Word

\* How far one index is ahead of another, round the end of the word or not.
LEMMA BetweenIs ==
  ASSUME NEW w \in 0 .. Word - 1, NEW r \in 0 .. Word - 1
  PROVE  /\ Between(w, r) \in 0 .. Word - 1
         /\ Between(w, r) = IF w >= r THEN w - r ELSE w + Word - r
<1>1. Word \in Nat \ {0} /\ w + Word - r \in Nat /\ w + Word - r < 2 * Word
  BY WordAssumption
<1>2. /\ w >= r => w + Word - r >= Word /\ (w + Word - r) - Word = w - r
      /\ w < r => w + Word - r < Word
  BY <1>1
<1>3. Between(w, r) = IF w >= r THEN w - r ELSE w + Word - r
  <2> DEFINE x == w + Word - r
  <2>1. Between(w, r) = x % Word
    BY DEF Between
  <2>2. x \in Nat /\ x < 2 * Word
    BY <1>1
  <2> HIDE DEF x
  <2>3. (x < Word => x % Word = x) /\ (Word <= x => x % Word = x - Word)
    BY ONLY <1>1, <2>2, AroundOnce
  <2> QED BY <1>1, <1>2, <2>1, <2>3 DEF x
<1> QED BY <1>1, <1>3

\* Where an index gets to, round the end of the word or not.
LEMMA Advanced ==
  ASSUME NEW i \in 0 .. Word - 1, NEW n \in 0 .. Word - 1
  PROVE  /\ Advance(i, n) \in 0 .. Word - 1
         /\ Advance(i, n) = IF i + n < Word THEN i + n ELSE i + n - Word
<1>1. Word \in Nat \ {0} /\ i + n \in Nat /\ i + n < 2 * Word
  BY WordAssumption
<1>2. Advance(i, n) = IF i + n < Word THEN i + n ELSE i + n - Word
  <2> DEFINE x == i + n
  <2>1. Advance(i, n) = x % Word
    BY DEF Advance
  <2>2. x \in Nat /\ x < 2 * Word
    BY <1>1
  <2> HIDE DEF x
  <2>3. (x < Word => x % Word = x) /\ (Word <= x => x % Word = x - Word)
    BY ONLY <1>1, <2>2, AroundOnce
  <2> QED BY <1>1, <2>1, <2>2, <2>3 DEF x
<1> QED BY <1>1, <1>2

\* Writing adds to what is between the indices, reading takes from it.
LEMMA BetweenMoves ==
  ASSUME NEW w \in 0 .. Word - 1, NEW r \in 0 .. Word - 1, NEW n \in Nat
  PROVE  /\ Between(w, r) + n < Word => Between(Advance(w, n), r) = Between(w, r) + n
         /\ n <= Between(w, r) => Between(w, Advance(r, n)) = Between(w, r) - n
         /\ Advance(r, Between(w, r)) = w
<1>1. Word \in Nat \ {0}
  BY WordAssumption
<1>2. Between(w, r) \in 0 .. Word - 1 /\ Between(w, r) = IF w >= r THEN w - r ELSE w + Word - r
  BY BetweenIs
<1>3. ASSUME Between(w, r) + n < Word PROVE Between(Advance(w, n), r) = Between(w, r) + n
  <2>1. n \in 0 .. Word - 1
    BY <1>1, <1>2, <1>3
  <2>2. /\ Advance(w, n) \in 0 .. Word - 1
        /\ Advance(w, n) = IF w + n < Word THEN w + n ELSE w + n - Word
    BY <2>1, Advanced
  <2>3. Between(Advance(w, n), r) = IF Advance(w, n) >= r THEN Advance(w, n) - r
                                    ELSE Advance(w, n) + Word - r
    BY <2>2, BetweenIs
  <2> QED BY <1>1, <1>2, <1>3, <2>1, <2>2, <2>3
<1>4. ASSUME n <= Between(w, r) PROVE Between(w, Advance(r, n)) = Between(w, r) - n
  <2>1. n \in 0 .. Word - 1
    BY <1>1, <1>2, <1>4
  <2>2. /\ Advance(r, n) \in 0 .. Word - 1
        /\ Advance(r, n) = IF r + n < Word THEN r + n ELSE r + n - Word
    BY <2>1, Advanced
  <2>3. Between(w, Advance(r, n)) = IF w >= Advance(r, n) THEN w - Advance(r, n)
                                    ELSE w + Word - Advance(r, n)
    BY <2>2, BetweenIs
  <2> QED BY <1>1, <1>2, <1>4, <2>1, <2>2, <2>3
<1>5. Advance(r, Between(w, r)) = w
  <2> DEFINE d == Between(w, r)
  <2>1. d \in 0 .. Word - 1 /\ d = IF w >= r THEN w - r ELSE w + Word - r
    BY <1>2
  <2> HIDE DEF d
  <2>2. Advance(r, d) = IF r + d < Word THEN r + d ELSE r + d - Word
    BY <2>1, Advanced
  <2>3. Advance(r, d) = w
    BY <1>1, <2>1, <2>2
  <2> QED BY <2>3 DEF d
<1> QED BY <1>3, <1>4, <1>5

\* A location is known by how far it is from any index before it,
LEMMA LocationMoves ==
  ASSUME NEW i \in 0 .. Word - 1, NEW n \in 0 .. Word - 1, NEW k \in Nat
  PROVE  location(Advance(i, n), k) = location(i, n + k)
<1>1. Word \in Nat \ {0} /\ BlockSize \in Nat \ {0} /\ Word % BlockSize = 0
  BY WordAssumption
<1>2. Advance(i, n) = IF i + n < Word THEN i + n ELSE i + n - Word
  BY Advanced
<1>3. CASE i + n < Word
  BY <1>1, <1>2, <1>3 DEF location
<1>4. CASE i + n >= Word
  <2>1. i + (n + k) \in Nat /\ i + (n + k) >= Word /\ Advance(i, n) + k = (i + (n + k)) - Word
    BY <1>1, <1>2, <1>4
  <2> DEFINE x == i + (n + k)
  <2>2. x \in Nat /\ x >= Word /\ location(i, n + k) = x % BlockSize
        /\ location(Advance(i, n), k) = (x - Word) % BlockSize
    BY <2>1 DEF location
  <2> HIDE DEF x
  <2>3. Word \in Nat
    BY <1>1
  <2>4. (x - Word) % BlockSize = x % BlockSize
    BY <1>1, <2>2, <2>3, LessAMultiple
  <2> QED BY <2>2, <2>4
<1> QED BY <1>1, <1>3, <1>4

\* and within a block no two have the same.
LEMMA LocationsDiffer ==
  ASSUME NEW i \in 0 .. Word - 1, NEW n \in Nat, NEW k \in Nat, n < k, k < n + BlockSize
  PROVE  location(i, n) # location(i, k)
<1>1. Word \in Nat /\ BlockSize \in Nat \ {0}
  BY WordAssumption
<1>2. i + n \in Nat /\ i + k \in Nat /\ i + n < i + k /\ i + k < (i + n) + BlockSize
  BY <1>1
<1> QED BY <1>1, <1>2, NotTheSame DEF location

Cells == [0 .. BlockSize - 1 -> 0 .. Word - 1]

\* What is written changes the locations it is written to.
LEMMA WrittenThere ==
  ASSUME NEW mem \in Cells, NEW i \in 0 .. Word - 1, NEW amount \in 0 .. BlockSize
  PROVE  /\ Written(mem, i, amount) \in Cells
         /\ \A l \in 0 .. BlockSize - 1 :
              (\A n \in 0 .. amount - 1 : location(i, n) # l) => Written(mem, i, amount)[l] = mem[l]
<1>1. Word \in Nat \ {0} /\ BlockSize \in Nat \ {0} /\ BlockSize < Word
  BY WordAssumption
<1>2. ASSUME NEW l \in 0 .. BlockSize - 1, \E n \in 0 .. amount - 1 : location(i, n) = l
      PROVE  Advance(i, CHOOSE n \in 0 .. amount - 1 :
                          location(i, n) = l /\ amount <= n + BlockSize) \in 0 .. Word - 1
  <2> DEFINE m == CHOOSE n \in 0 .. amount - 1 : location(i, n) = l /\ amount <= n + BlockSize
  <2>1. \A n \in 0 .. amount - 1 : amount <= n + BlockSize
    BY <1>1
  <2>2. m \in 0 .. amount - 1
    BY <1>2, <2>1
  <2> HIDE DEF m
  <2>3. m \in 0 .. Word - 1
    BY <1>1, <2>2
  <2>4. Advance(i, m) \in 0 .. Word - 1
    BY <2>3, Advanced
  <2> QED BY <2>4 DEF m
<1>3. DOMAIN mem = 0 .. BlockSize - 1 /\ \A l \in 0 .. BlockSize - 1 : mem[l] \in 0 .. Word - 1
  BY DEF Cells
<1>4. Written(mem, i, amount) \in Cells
  BY <1>2, <1>3 DEF Written, Cells
<1> QED BY <1>3, <1>4 DEF Written

\* What is behind the unread units leaves them alone.
LEMMA UnreadStays ==
  ASSUME NEW mem \in Cells, NEW w \in 0 .. Word - 1, NEW r \in 0 .. Word - 1, NEW amount \in Nat,
         Between(w, r) + amount <= BlockSize, NEW n \in 0 .. Between(w, r) - 1
  PROVE  /\ location(r, n) \in 0 .. BlockSize - 1
         /\ Written(mem, w, amount)[location(r, n)] = mem[location(r, n)]
<1> DEFINE d == Between(w, r)
<1>1. Word \in Nat \ {0} /\ BlockSize \in Nat \ {0} /\ BlockSize < Word
  BY WordAssumption
<1>2. d \in 0 .. Word - 1 /\ Advance(r, d) = w
  BY BetweenIs, BetweenMoves
<1>3. amount \in 0 .. BlockSize /\ n \in Nat /\ r + n \in Nat
  BY <1>1, <1>2
<1>4. location(r, n) \in 0 .. BlockSize - 1
  BY <1>1, <1>3, Divided DEF location
<1> HIDE DEF d
<1>5. ASSUME NEW k \in 0 .. amount - 1 PROVE location(w, k) # location(r, n)
  <2>1. d + k \in Nat /\ n < d + k /\ d + k < n + BlockSize
    BY <1>1, <1>2, <1>3 DEF d
  <2>2. location(w, k) = location(r, d + k)
    BY <1>2, <1>3, LocationMoves
  <2> QED BY <1>3, <2>1, <2>2, LocationsDiffer
<1> QED BY <1>3, <1>4, <1>5, WrittenThere

-----------------------------------------------------------------------------
\* The blocks of a slot.
Block == [pipe : Pipes, va : Nat, writable : BOOLEAN]

\* A pipe goes behind the last block.
LEMMA GapIsBehind ==
  ASSUME NEW mem \in Seq(Block)
  PROVE  /\ gap_va(mem) \in Nat
         /\ mem = <<>> => gap_va(mem) = PipesBase
         /\ mem # <<>> => /\ Len(mem) \in DOMAIN mem /\ Len(mem) \in Nat \ {0}
                          /\ gap_va(mem) = mem[Len(mem)].va + BlockPages
<1>1. PipesBase \in Nat /\ BlockPages \in Nat
  BY PipeMemoryAssumption
<1>2. CASE mem = <<>>
  BY <1>1, <1>2 DEF gap_va
<1>3. CASE mem # <<>>
  <2>1. Len(mem) \in Nat \ {0} /\ DOMAIN mem = 1 .. Len(mem)
    BY <1>3, LenProperties, EmptySeq
  <2>2. Len(mem) \in DOMAIN mem /\ mem[Len(mem)] \in Block
    BY <2>1
  <2>3. gap_va(mem) = mem[Len(mem)].va + BlockPages
    BY <1>3 DEF gap_va, top_of, Last
  <2> QED BY <1>1, <1>3, <2>1, <2>2, <2>3 DEF Block
<1> QED BY <1>2, <1>3

\* It is mapped in two blocks, the others stay where they are.
LEMMA GapIsFilled ==
  ASSUME NEW mem \in Seq(Block), NEW p \in Pipes, NEW w \in BOOLEAN
  PROVE  LET new == insert_pipe_in_gap(mem, p, w)
         IN  /\ new \in Seq(Block) /\ Len(new) = Len(mem) + 2 /\ Len(mem) \in Nat
             /\ \A i \in 1 .. Len(mem) : new[i] = mem[i]
             /\ new[Len(mem) + 1] = block(p, gap_va(mem), w)
             /\ new[Len(mem) + 2] = block(p, gap_va(mem) + BlockPages, w)
<1> DEFINE b == block(p, gap_va(mem), w)
           d == block(p, gap_va(mem) + BlockPages, w)
           new == insert_pipe_in_gap(mem, p, w)
<1>1. gap_va(mem) \in Nat /\ gap_va(mem) + BlockPages \in Nat
  BY GapIsBehind, PipeMemoryAssumption
<1>2. b \in Block /\ d \in Block
  BY <1>1 DEF block, Block
<1>3. new = mem \o <<b, d>>
  BY DEF insert_pipe_in_gap
<1> HIDE DEF new, b, d
<1>4. /\ <<b, d>> \in Seq(Block) /\ Len(<<b, d>>) = 2 /\ <<b, d>>[1] = b /\ <<b, d>>[2] = d
      /\ Len(mem) \in Nat
  BY <1>2
<1>5. /\ new \in Seq(Block) /\ Len(new) = Len(mem) + 2
      /\ \A i \in 1 .. Len(mem) + 2 :
           new[i] = IF i <= Len(mem) THEN mem[i] ELSE <<b, d>>[i - Len(mem)]
  BY <1>3, <1>4, ConcatProperties
<1>6. new[Len(mem) + 1] = b /\ new[Len(mem) + 2] = d
  <2>1. (Len(mem) + 1) - Len(mem) = 1 /\ (Len(mem) + 2) - Len(mem) = 2
    BY <1>4
  <2> QED BY <1>4, <1>5, <2>1
<1>7. \A i \in 1 .. Len(mem) : new[i] = mem[i]
  BY <1>4, <1>5
<1> QED BY <1>4, <1>5, <1>6, <1>7 DEF new, b, d

\* Two blocks go, from the one that was found.
LEMMA BlocksGo ==
  ASSUME NEW mem \in Seq(Block), NEW va \in Nat
  PROVE  LET new == unmap_and_free(mem, va)
         IN  /\ new \in Seq(Block)
             /\ (\A i \in DOMAIN mem : mem[i].va # va) => new = mem
             /\ (\E i \in DOMAIN mem : mem[i].va = va) =>
                  \E f \in 1 .. Len(mem) :
                    /\ mem[f].va = va
                    /\ f < Len(mem) =>
                         /\ Len(new) = Len(mem) - 2
                         /\ \A i \in 1 .. Len(mem) - 2 :
                              new[i] = IF i < f THEN mem[i] ELSE mem[i + 2]
<1> DEFINE found == {i \in DOMAIN mem : mem[i].va = va}
           f == CHOOSE i \in found : TRUE
           l == Len(mem)
           a == SubSeq(mem, 1, f - 1)
           b == SubSeq(mem, f + 2, l)
           new == unmap_and_free(mem, va)
<1>1. l \in Nat /\ DOMAIN mem = 1 .. l /\ \A i \in 1 .. l : mem[i] \in Block
  BY LenProperties, ElementOfSeq
<1>2. CASE found = {}
  BY <1>2 DEF unmap_and_free
<1>3. CASE found # {}
  <2>1. f \in 1 .. l /\ mem[f].va = va
    BY <1>1, <1>3
  <2>2. new = a \o b
    BY <1>3 DEF unmap_and_free
  <2> HIDE DEF f, l, new, a, b
  <2>3. /\ a \in Seq(Block) /\ Len(a) = f - 1 /\ \A i \in 1 .. f - 1 : a[i] = mem[i]
    <3>1. 1 \in Int /\ f - 1 \in Int /\ \A i \in 1 .. f - 1 : mem[i] \in Block
      BY <1>1, <2>1
    <3>2. a \in Seq(Block) /\ Len(a) = IF 1 <= f - 1 THEN f - 1 ELSE 0
      BY <3>1, SubSeqProperties DEF a
    <3>3. \A i \in 1 .. f - 1 : a[i] = mem[i]
      BY <1>1, <2>1, <3>1, SubSeqProperties DEF a
    <3> QED BY <1>1, <2>1, <3>2, <3>3
  <2>4. /\ b \in Seq(Block)
        /\ f < l => Len(b) = l - f - 1
        /\ f < l => \A i \in 1 .. l - f - 1 : b[i] = mem[f + i + 1]
    <3>1. f + 2 \in Int /\ l \in Int /\ \A i \in f + 2 .. l : mem[i] \in Block
      BY <1>1, <2>1
    <3>2. b \in Seq(Block) /\ Len(b) = IF f + 2 <= l THEN (l - (f + 2)) + 1 ELSE 0
      BY <3>1, SubSeqProperties DEF b
    <3>3. \A i \in 1 .. (l - (f + 2)) + 1 : b[i] = mem[((f + 2) + i) - 1]
      BY <1>1, <2>1, <3>1, SubSeqProperties DEF b
    <3>4. /\ (l - (f + 2)) + 1 = l - f - 1
          /\ \A i \in 1 .. l - f - 1 : ((f + 2) + i) - 1 = f + i + 1
      BY <1>1, <2>1
    <3>5. f < l => Len(b) = l - f - 1
      BY <1>1, <2>1, <3>2
    <3>6. \A i \in 1 .. l - f - 1 : b[i] = mem[f + i + 1]
      BY <3>3, <3>4
    <3> QED BY <3>2, <3>5, <3>6
  <2>5. /\ new \in Seq(Block) /\ Len(new) = Len(a) + Len(b)
        /\ \A i \in 1 .. Len(a) + Len(b) : new[i] = IF i <= Len(a) THEN a[i] ELSE b[i - Len(a)]
    BY <2>2, <2>3, <2>4, ConcatProperties
  <2>6. ASSUME f < l
        PROVE  Len(new) = l - 2 /\ \A i \in 1 .. l - 2 : new[i] = IF i < f THEN mem[i] ELSE mem[i + 2]
    <3>1. Len(b) = l - f - 1 /\ Len(a) = f - 1 /\ Len(a) + Len(b) = l - 2
      BY <1>1, <2>1, <2>3, <2>4, <2>6
    <3>2. ASSUME NEW i \in 1 .. l - 2, i < f PROVE new[i] = mem[i]
      BY <1>1, <2>1, <2>3, <2>5, <3>1, <3>2
    <3>3. ASSUME NEW i \in 1 .. l - 2, ~ (i < f) PROVE new[i] = mem[i + 2]
      <4>1. i - (f - 1) \in 1 .. l - f - 1 /\ f + (i - (f - 1)) + 1 = i + 2 /\ ~ (i <= f - 1)
        BY <1>1, <2>1, <3>3
      <4> QED BY <2>4, <2>5, <2>6, <3>1, <4>1
    <3> QED BY <2>5, <3>1, <3>2, <3>3
  <2> QED BY <1>3, <2>1, <2>5, <2>6 DEF l, new
<1> QED BY <1>2, <1>3

-----------------------------------------------------------------------------
\* Records are in use or in the pool, once; the log is in use for ever, and
\* nobody is its sender.
PoolInv ==
  /\ IsInjective(pipe_pool) /\ ToSet(pipe_pool) \cap pipes = {}
  /\ LogPipe \in pipes /\ sender[LogPipe] = None

\* The lock is held between the steps of WaitForData.
LockInv == \A t \in Tasks : state[t] \in {"blocks", "stopping"} => pipes_lock = t

\* A pipe has no more in it than fits, nor has the log with what is being written.
DataInv ==
  /\ \A p \in Pipes : data_in_pipe(p) <= BlockSize
  /\ \A t \in Tasks : state[t] = "logs" =>
       asks[t].pipe = LogPipe /\ asks[t].amount \in 1 .. space_in_pipe(LogPipe)
  /\ \A t, u \in Tasks :
       (state[t] \in Logging /\ state[u] \in Logging) => t = u

Sleeps(t) == state[t] \in {"stopping", "stopped"}

WaitsNowhere(t) == \A p \in Pipes : ~ WaitsAsSender(t, p) /\ ~ WaitsAsReceiver(t, p)

WaitsOnceAsSender(t) ==
  /\ \E p \in Pipes : WaitsAsSender(t, p) /\ \A q \in Pipes : WaitsAsSender(t, q) => q = p
  /\ \A q \in Pipes : ~ WaitsAsReceiver(t, q)

WaitsOnceAsReceiver(t) ==
  /\ \E p \in Pipes : WaitsAsReceiver(t, p) /\ \A q \in Pipes : WaitsAsReceiver(t, q) => q = p
  /\ \A q \in Pipes : ~ WaitsAsSender(t, q)

\* Who is runnable, or about to be made so by the log,
Woken == runnable \cup {t \in Tasks : IsWoken(t)}

\* is so only once, and has stopped when it is put in the list.
WokenInv ==
  /\ \A t \in runnable : state[t] = "stopped"
  /\ (\E t \in Tasks : state[t] = "waking") =>
       log_receiver \in Tasks /\ log_receiver \notin runnable

\* A pipe waits for tasks that sleep, and a task that sleeps is woken or waits at
\* one end of one pipe.
SleepInv ==
  /\ \A p \in Pipes : sender_waiting_for[p] > 0 =>
       sender[p] \in Tasks /\ state[sender[p]] = "stopped"
  /\ \A p \in Pipes : receiver_waiting_for[p] > 0 =>
       receiver[p] \in Tasks /\ Sleeps(receiver[p])
  /\ \A p \in Pipes \ pipes : sender_waiting_for[p] = 0 /\ receiver_waiting_for[p] = 0
  /\ \A t \in Tasks : Sleeps(t) =>
       IF t \in Woken THEN WaitsNowhere(t)
       ELSE WaitsOnceAsSender(t) \/ WaitsOnceAsReceiver(t)
  /\ \A t \in Woken : Sleeps(t)
  /\ WokenInv
  /\ \A t \in Tasks : state[t] = "blocks" =>
       receiver[asks[t].pipe] = t /\ asks[t].amount > 0 /\ asks[t].pipe \in pipes

ForgetInv ==
  /\ NobodyForgotten
  /\ \A t \in Tasks : (state[t] = "blocks" /\ asks[t].pipe # LogPipe) =>
       asks[t].amount > data_in_pipe(asks[t].pipe)

\* No block of a slot overlaps with a later one, or is below the pipes' addresses.
InOrder(mem) ==
  /\ \A i, j \in 1 .. Len(mem) : i < j => mem[i].va + BlockPages <= mem[j].va
  /\ \A i \in 1 .. Len(mem) : mem[i].va >= PipesBase

SenderMapped(p) ==
  (sender[p] \in Tasks /\ sender_va[p] # 0 /\ p # LogPipe) =>
    MappedTwice(p, sender_va[p], TRUE, pipe_mem[SlotOf[sender[p]]])

ReceiverMapped(p) ==
  (receiver[p] \in Tasks /\ receiver_va[p] # 0) =>
    MappedTwice(p, receiver_va[p], FALSE, pipe_mem[SlotOf[receiver[p]]])

\* An address that is used is that of a mapping; an end that nobody has has none.
MapInv ==
  /\ \A s \in Slots : InOrder(pipe_mem[s])
  /\ \A p \in pipes : SenderMapped(p) /\ ReceiverMapped(p)
  /\ \A p \in pipes \ {LogPipe} : sender[p] = None => sender_va[p] = 0
  /\ \A p \in pipes : receiver[p] = None => receiver_va[p] = 0

\* So it is but for what the log makes of it without the lock.
SleepersInv == ~ Astray => SleepInv

Inv == TypeOK /\ PoolInv /\ LockInv /\ DataInv /\ SleepersInv /\ ForgetInv /\ MapInv

-----------------------------------------------------------------------------
\* A task's own step, a step that names a pipe, or nothing.
LEMMA StepCases ==
  ASSUME [Next]_vars
  PROVE  \/ UNCHANGED vars
         \/ \E t \in Tasks : \/ PipeCreate(t) \/ Run(t) \/ Blocks(t) \/ Stops(t)
                             \/ LogFills(t) \/ LogChecks(t) \/ LogDecides(t) \/ LogWakes(t)
                             \/ GetLogPipePanics(t)
                             \/ \E n \in 1 .. BlockSize : LogString(t, n)
         \/ \E t \in Tasks, p \in Pipes :
              \/ PipePanics(t, p)
              \/ \E n \in Amounts : WaitForData(t, p, n)
              \/ \E n \in 1 .. BlockSize : DataConsumed(t, p, n)
              \/ \E new \in Tasks \cup {None} : SetReceiver(t, p, new)
              \/ receiver[p] = t /\ NotListening(t, p)
         \/ \E t \in Tasks, p \in Pipes \ {LogPipe} :
              \/ \E n \in Amounts : WaitForSpace(t, p, n)
              \/ \E n \in 1 .. BlockSize : SpaceFilled(t, p, n)
              \/ \E new \in Tasks \cup {None} : SetSender(t, p, new)
              \/ sender[p] = t /\ NoMoreData(t, p)
BY DEF Next, Stuck, Logs, Sends, Receives

-----------------------------------------------------------------------------
\* Every variable keeps its type.
LEMMA TypeInit == Init => TypeOK
<1> SUFFICES ASSUME NEW pool \in SetToSeqs(Pipes \ {LogPipe}), Start(pool, None, 1) PROVE TypeOK
  BY DEF Init
<1>1. Word \in Nat \ {0} /\ BlockSize \in Nat \ {0} /\ BlockSize < Word /\ PipesTop \in Nat
  BY WordAssumption, PipeMemoryAssumption
<1>2. pool \in Seq(Pipes)
  <2>1. IsFiniteSet(Pipes \ {LogPipe})
    BY PipesAssumption, FS_Subset
  <2>2. pool \in Seq(Pipes \ {LogPipe})
    BY <2>1, OrdersAreSequences
  <2> QED BY <2>2, WiderSequences
<1>3. Fresh \in Cells /\ Written(Fresh, 0, 1) \in Cells
  <2>1. Fresh \in Cells
    BY <1>1 DEF Fresh, Cells
  <2> QED BY <1>1, <2>1, WrittenThere
<1>4. store \in [Pipes -> Cells]
  BY <1>3 DEF Start
<1>5. pipe_mem \in [Slots -> Seq(Block)]
  BY EmptySeq DEF Start
<1>6. asks \in [Tasks -> [pipe : Pipes, amount : Nat]]
  BY PipesAssumption DEF Start, Nothing
<1>7. /\ pipes_lock \in Tasks \cup {None} /\ pipe_pool \in Seq(Pipes) /\ pipes \subseteq Pipes
      /\ sender \in [Pipes -> Ends] /\ receiver \in [Pipes -> Ends]
      /\ log_receiver \in Ends /\ runnable \subseteq Tasks /\ state \in [Tasks -> States]
  BY <1>2, PipesAssumption DEF Start, Ends, States
<1>8. /\ sender_waiting_for \in [Pipes -> Nat] /\ receiver_waiting_for \in [Pipes -> Nat]
      /\ sender_va \in [Pipes -> Nat] /\ receiver_va \in [Pipes -> Nat]
      /\ write_index \in [Pipes -> 0 .. Word - 1] /\ read_index \in [Pipes -> 0 .. Word - 1]
  BY <1>1 DEF Start
<1> QED BY <1>4, <1>5, <1>6, <1>7, <1>8 DEF TypeOK, Cells, Block

\* Nothing happens to the types when nothing happens.
LEMMA TypeStays == TypeOK /\ UNCHANGED vars => TypeOK'
BY DEF TypeOK, vars, endVars, indexVars, mapVars, poolVars, taskVars

\* Every step keeps the types: who is woken is a task.
LEMMA TypeNext == TypeOK /\ DataInv /\ SleepInv /\ [Next]_vars => TypeOK'
<1> SUFFICES ASSUME TypeOK, DataInv, SleepInv, [Next]_vars PROVE TypeOK'
  OBVIOUS
<1>w. Word \in Nat \ {0} /\ BlockSize \in Nat \ {0} /\ BlockSize < Word
  BY WordAssumption
<1>t1. receiver_waiting_for \in [Pipes -> Nat] /\ sender_waiting_for \in [Pipes -> Nat]
       /\ runnable \subseteq Tasks
  BY DEF TypeOK
<1>t2. state \in [Tasks -> States] /\ asks \in [Tasks -> [pipe : Pipes, amount : Nat]]
       /\ pipes_lock \in Tasks \cup {None}
  BY DEF TypeOK
<1>t3. sender_va \in [Pipes -> Nat] /\ receiver_va \in [Pipes -> Nat]
       /\ pipe_mem \in [Slots -> Seq(Block)]
  BY DEF TypeOK, Block
<1>t4. store \in [Pipes -> Cells] /\ write_index \in [Pipes -> 0 .. Word - 1]
       /\ read_index \in [Pipes -> 0 .. Word - 1]
  BY DEF TypeOK, Cells
<1>t5. pipe_pool \in Seq(Pipes) /\ pipes \subseteq Pipes /\ sender \in [Pipes -> Ends]
       /\ receiver \in [Pipes -> Ends] /\ log_receiver \in Ends
  BY DEF TypeOK
<1>t. ASSUME /\ receiver_waiting_for' \in [Pipes -> Nat] /\ sender_waiting_for' \in [Pipes -> Nat]
             /\ runnable' \subseteq Tasks,
             /\ state' \in [Tasks -> States] /\ asks' \in [Tasks -> [pipe : Pipes, amount : Nat]]
             /\ pipes_lock' \in Tasks \cup {None},
             /\ sender_va' \in [Pipes -> Nat] /\ receiver_va' \in [Pipes -> Nat]
             /\ pipe_mem' \in [Slots -> Seq(Block)],
             /\ store' \in [Pipes -> Cells] /\ write_index' \in [Pipes -> 0 .. Word - 1]
             /\ read_index' \in [Pipes -> 0 .. Word - 1],
             /\ pipe_pool' \in Seq(Pipes) /\ pipes' \subseteq Pipes /\ sender' \in [Pipes -> Ends]
             /\ receiver' \in [Pipes -> Ends] /\ log_receiver' \in Ends
      PROVE  TypeOK'
  BY ONLY <1>t DEF TypeOK, Cells, Block
<1>s. /\ Tasks \subseteq Ends /\ None \in Ends /\ Finished \in Ends /\ LogPipe \in Pipes
      /\ \A t \in Tasks : SlotOf[t] \in Slots /\ pipe_mem[SlotOf[t]] \in Seq(Block)
      /\ Nothing \in [pipe : Pipes, amount : Nat]
  BY <1>t3, PipesAssumption DEF Ends, Nothing
<1>a. \A i \in 0 .. Word - 1, n \in 0 .. BlockSize : Advance(i, n) \in 0 .. Word - 1
  BY <1>w, Advanced
<1>f. \A p \in Pipes, n \in 0 .. BlockSize : Written(store[p], write_index[p], n) \in Cells
  BY <1>t4, WrittenThere
<1>g. \A t \in Tasks, p \in Pipes, w \in BOOLEAN :
        insert_pipe_in_gap(pipe_mem[SlotOf[t]], p, w) \in Seq(Block) /\ gap_va(pipe_mem[SlotOf[t]]) \in Nat
  BY <1>s, GapIsFilled, GapIsBehind
<1>u. \A t \in Tasks, va \in Nat : unmap_and_free(pipe_mem[SlotOf[t]], va) \in Seq(Block)
  BY <1>s, BlocksGo
<1>m. ASSUME NEW t \in Tasks, NEW new \in Seq(Block),
             pipe_mem' = pipe_mem \/ pipe_mem' = [pipe_mem EXCEPT ![SlotOf[t]] = new]
      PROVE  pipe_mem' \in [Slots -> Seq(Block)]
  <2> DEFINE S == Seq(Block)
  <2>1. new \in S /\ pipe_mem \in [Slots -> S]
    BY <1>t3
  <2> HIDE DEF S
  <2>2. pipe_mem' \in [Slots -> S]
    BY <1>m, <2>1
  <2> QED BY <2>2 DEF S
<1> HIDE DEF Nothing
<1>1. CASE UNCHANGED vars
  BY <1>1, TypeStays
<1>2. ASSUME NEW t \in Tasks, PipeCreate(t) PROVE TypeOK'
  <2> DEFINE p == Head(pipe_pool)
  <2>1. p \in Pipes /\ Tail(pipe_pool) \in Seq(Pipes)
    BY <1>2, <1>t5, Tailed DEF PipeCreate
  <2>2. Fresh \in Cells
    BY <1>w DEF Fresh, Cells
  <2> HIDE DEF p
  <2>3. /\ pipes' = pipes \cup {p}
        /\ sender' = [sender EXCEPT ![p] = t]
        /\ receiver' = [receiver EXCEPT ![p] = t]
        /\ sender_va' = [sender_va EXCEPT ![p] = 0]
        /\ receiver_va' = [receiver_va EXCEPT ![p] = 0]
        /\ sender_waiting_for' = [sender_waiting_for EXCEPT ![p] = 0]
        /\ receiver_waiting_for' = [receiver_waiting_for EXCEPT ![p] = 0]
        /\ write_index' = [write_index EXCEPT ![p] = 0]
        /\ read_index' = [read_index EXCEPT ![p] = 0]
        /\ store' = [store EXCEPT ![p] = Fresh]
        /\ pipe_pool' = Tail(pipe_pool)
        /\ UNCHANGED <<pipe_mem, taskVars>>
    BY <1>2 DEF PipeCreate, p
  <2>4. receiver_waiting_for' \in [Pipes -> Nat] /\ sender_waiting_for' \in [Pipes -> Nat]
    BY <1>t1, <2>3
  <2>5. sender_va' \in [Pipes -> Nat] /\ receiver_va' \in [Pipes -> Nat]
    BY <1>t3, <2>3
  <2>6. store' \in [Pipes -> Cells]
    BY <1>t4, <2>2, <2>3
  <2>7. 0 \in 0 .. Word - 1
    BY <1>w
  <2>8. write_index' \in [Pipes -> 0 .. Word - 1]
    BY <1>t4, <2>3, <2>7
  <2>9. read_index' \in [Pipes -> 0 .. Word - 1]
    BY <1>t4, <2>3, <2>7
  <2>10. sender' \in [Pipes -> Ends] /\ receiver' \in [Pipes -> Ends]
    BY <1>t5, <1>s, <2>3
  <2> QED BY <1>t1, <1>t2, <1>t3, <1>t5, <2>1, <2>3, <2>4, <2>5, <2>6, <2>8, <2>9, <2>10, <1>t DEF taskVars
<1>3. ASSUME NEW t \in Tasks, Run(t) \/ Blocks(t) \/ Stops(t) \/ GetLogPipePanics(t) PROVE TypeOK'
  <2>1. CASE Run(t) \/ GetLogPipePanics(t)
    BY <2>1 DEF Run, GetLogPipePanics, GoTo, States, TypeOK, endVars, indexVars, mapVars, poolVars
  <2>2. CASE Blocks(t)
    BY <2>2 DEF Blocks, GoTo, States, TypeOK, indexVars, mapVars, poolVars
  <2>3. CASE Stops(t)
    BY <2>3, <1>s DEF Stops, GoTo, States, TypeOK, endVars, indexVars, mapVars, poolVars
  <2> QED BY <1>3, <2>1, <2>2, <2>3
<1>4. ASSUME NEW t \in Tasks, LogFills(t), asks[t].amount \in 0 .. BlockSize PROVE TypeOK'
  <2>1. write_index' = [write_index EXCEPT ![LogPipe] = Advance(write_index[LogPipe], asks[t].amount)]
    BY <1>4 DEF LogFills
  <2>2. Advance(write_index[LogPipe], asks[t].amount) \in 0 .. Word - 1
    BY <1>4, <1>a, <1>s, <1>t4
  <2>3. write_index' \in [Pipes -> 0 .. Word - 1]
    BY <1>t4, <2>1, <2>2
  <2>4. state' \in [Tasks -> States] /\ log_receiver' \in Ends
    BY <1>4, <1>s, <1>t2, <1>t5 DEF LogFills, GoTo, States, Logging
  <2> QED BY <1>4, <1>t1, <1>t2, <1>t3, <1>t4, <1>t5, <2>3, <2>4, <1>t DEF LogFills, endVars, mapVars, poolVars
<1>5. ASSUME NEW p \in Pipes, NEW data, WakeReceiver(p, data)
      PROVE  receiver_waiting_for' \in [Pipes -> Nat] /\ runnable' \subseteq Tasks
  <2>1. receiver_waiting_for[p] \in 1 .. data => receiver[p] \in Tasks
    BY DEF SleepInv, TypeOK
  <2>2. receiver_waiting_for' \in [Pipes -> Nat]
    BY <1>5, <1>t1 DEF WakeReceiver
  <2>3. runnable' \subseteq Tasks
    BY <1>5, <1>t1, <2>1 DEF WakeReceiver
  <2> QED BY <2>2, <2>3
<1>6. ASSUME NEW p \in Pipes, NEW space, WakeSender(p, space)
      PROVE  sender_waiting_for' \in [Pipes -> Nat] /\ runnable' \subseteq Tasks
  <2>1. sender_waiting_for[p] \in 1 .. space => sender[p] \in Tasks
    BY DEF SleepInv, TypeOK
  <2>2. sender_waiting_for' \in [Pipes -> Nat]
    BY <1>6, <1>t1 DEF WakeSender
  <2>3. runnable' \subseteq Tasks
    BY <1>6, <1>t1, <2>1 DEF WakeSender
  <2> QED BY <2>2, <2>3
<1>7. ASSUME NEW t \in Tasks, LogChecks(t) \/ LogDecides(t) \/ LogWakes(t) PROVE TypeOK'
  <2>1. receiver_waiting_for' \in [Pipes -> Nat] /\ UNCHANGED sender_waiting_for
    BY <1>7, <1>t1 DEF LogChecks, LogDecides, LogWakes, endVars
  <2>2. state' \in [Tasks -> States]
    BY <1>7, <1>t2 DEF LogChecks, LogDecides, LogWakes, LogEnds, GoTo, States, Logging
  <2>3. asks' \in [Tasks -> [pipe : Pipes, amount : Nat]]
    BY <1>7, <1>s, <1>t2 DEF LogChecks, LogDecides, LogWakes, LogEnds
  <2>4. log_receiver' \in Ends
    BY <1>7, <1>s, <1>t5 DEF LogChecks, LogDecides, LogWakes, LogEnds
  <2>5. runnable' \subseteq Tasks
    <3>1. LogWakes(t) => log_receiver \in Tasks
      BY DEF LogWakes, SleepInv, WokenInv
    <3> QED BY <1>7, <1>t1, <3>1 DEF LogChecks, LogDecides, LogWakes
  <2>6. UNCHANGED <<sender, receiver, indexVars, mapVars, poolVars, pipes_lock>>
    BY <1>7 DEF LogChecks, LogDecides, LogWakes, endVars
  <2> QED BY <1>t1, <1>t2, <1>t3, <1>t4, <1>t5, <2>1, <2>2, <2>3, <2>4, <2>5, <2>6, <1>t
          DEF indexVars, mapVars, poolVars
<1>8. ASSUME NEW t \in Tasks, NEW n \in 1 .. BlockSize, LogString(t, n) PROVE TypeOK'
  <2>1. Written(store[LogPipe], write_index[LogPipe], n) \in Cells
    BY <1>s, <1>f, <1>w
  <2>2. store' \in [Pipes -> Cells]
    BY <1>8, <1>t4, <2>1 DEF LogString
  <2>3. state' \in [Tasks -> States]
    BY <1>8, <1>t2 DEF LogString, GoTo, States, Logging
  <2>4. asks' \in [Tasks -> [pipe : Pipes, amount : Nat]]
    BY <1>8, <1>s, <1>t2, <1>w DEF LogString
  <2> QED BY <1>8, <1>t1, <1>t2, <1>t3, <1>t4, <1>t5, <2>2, <2>3, <2>4, <1>t
          DEF LogString, endVars, mapVars, poolVars
<1>9. ASSUME NEW t \in Tasks, NEW p \in Pipes, PipePanics(t, p) PROVE TypeOK'
  BY <1>9 DEF PipePanics, Panic, GoTo, States, TypeOK, endVars, indexVars, mapVars, poolVars
<1>10. ASSUME NEW t \in Tasks, NEW p \in Pipes, NEW n \in Amounts, WaitForData(t, p, n) PROVE TypeOK'
  <2>1. set_receiver_va(t, p)
    BY <1>10 DEF WaitForData
  <2>2. receiver_va' \in [Pipes -> Nat]
    BY <2>1, <1>t3, <1>g DEF set_receiver_va, Mem
  <2>3. pipe_mem' \in [Slots -> Seq(Block)]
    <3>1. pipe_mem' = pipe_mem \/ pipe_mem' = [pipe_mem EXCEPT
            ![SlotOf[t]] = insert_pipe_in_gap(pipe_mem[SlotOf[t]], p, FALSE)]
      BY <2>1 DEF set_receiver_va, Mem
    <3> QED BY <3>1, <1>g, <1>m
  <2>4. state' \in [Tasks -> States]
    BY <1>10, <1>t2 DEF WaitForData, GoTo, States
  <2>5. pipes_lock' \in Tasks \cup {None}
    BY <1>10, <1>t2 DEF WaitForData
  <2>6. [pipe |-> p, amount |-> n] \in [pipe : Pipes, amount : Nat]
    BY <1>w DEF Amounts
  <2>7. asks' \in [Tasks -> [pipe : Pipes, amount : Nat]]
    BY <1>10, <1>t2, <2>6 DEF WaitForData
  <2>8. receiver' \in [Pipes -> Ends]
    BY <1>10, <1>t5, <1>s DEF WaitForData
  <2> QED BY <1>10, <1>t1, <1>t2, <1>t3, <1>t4, <1>t5, <2>2, <2>3, <2>4, <2>5, <2>7, <2>8, <1>t
          DEF WaitForData, indexVars, poolVars
<1>11. ASSUME NEW t \in Tasks, NEW p \in Pipes, NEW n \in 1 .. BlockSize, DataConsumed(t, p, n) PROVE TypeOK'
  <2>1. sender_waiting_for' \in [Pipes -> Nat] /\ runnable' \subseteq Tasks
    BY <1>11, <1>6 DEF DataConsumed
  <2>2. Advance(read_index[p], n) \in 0 .. Word - 1
    BY <1>a, <1>t4, <1>w
  <2>3. read_index' \in [Pipes -> 0 .. Word - 1]
    BY <1>11, <1>t4, <2>2 DEF DataConsumed
  <2> QED BY <1>11, <1>t1, <1>t2, <1>t3, <1>t4, <1>t5, <2>1, <2>3, <1>t DEF DataConsumed, mapVars, poolVars
<1>12. ASSUME NEW t \in Tasks, NEW p \in Pipes, NEW new \in Tasks \cup {None}, SetReceiver(t, p, new)
       PROVE  TypeOK'
  <2>1. receiver_va' \in [Pipes -> Nat]
    BY <1>12, <1>t3 DEF SetReceiver
  <2>2. pipe_mem' \in [Slots -> Seq(Block)]
    <3>1. pipe_mem' = pipe_mem \/ pipe_mem' = [pipe_mem EXCEPT
            ![SlotOf[t]] = unmap_and_free(pipe_mem[SlotOf[t]], 0)]
      BY <1>12 DEF SetReceiver
    <3>2. unmap_and_free(pipe_mem[SlotOf[t]], 0) \in Seq(Block)
      BY <1>u, <1>t3
    <3> QED BY <3>1, <3>2, <1>m
  <2>3. receiver' \in [Pipes -> Ends]
    BY <1>12, <1>t5, <1>s DEF SetReceiver
  <2> QED BY <1>12, <1>t1, <1>t2, <1>t3, <1>t4, <1>t5, <2>1, <2>2, <2>3, <1>t
          DEF SetReceiver, indexVars, poolVars, taskVars
<1>13. ASSUME NEW p \in Pipes, NEW other, free_pipe(p, other)
       PROVE  pipes' \subseteq Pipes /\ pipe_pool' \in Seq(Pipes)
  <2>1. Append(pipe_pool, p) \in Seq(Pipes)
    BY <1>t5, Appended
  <2> QED BY <1>13, <1>t5, <2>1 DEF free_pipe, poolVars
<1>14. ASSUME NEW t \in Tasks, NEW p \in Pipes, NotListening(t, p) \/ NoMoreData(t, p) PROVE TypeOK'
  <2>1. pipes' \subseteq Pipes /\ pipe_pool' \in Seq(Pipes)
    BY <1>14, <1>13 DEF NotListening, NoMoreData
  <2>2. sender' \in [Pipes -> Ends] /\ receiver' \in [Pipes -> Ends]
    BY <1>14, <1>t5, <1>s DEF NotListening, NoMoreData
  <2> QED BY <1>14, <1>t1, <1>t2, <1>t3, <1>t4, <1>t5, <2>1, <2>2, <1>t
          DEF NotListening, NoMoreData, indexVars, mapVars, taskVars
<1>15. ASSUME NEW t \in Tasks, NEW p \in Pipes, NEW n \in Amounts, WaitForSpace(t, p, n) PROVE TypeOK'
  <2>1. set_sender_va(t, p)
    BY <1>15 DEF WaitForSpace
  <2>2. sender_va' \in [Pipes -> Nat]
    BY <2>1, <1>t3, <1>g DEF set_sender_va, Mem
  <2>3. pipe_mem' \in [Slots -> Seq(Block)]
    <3>1. pipe_mem' = pipe_mem \/ pipe_mem' = [pipe_mem EXCEPT
            ![SlotOf[t]] = insert_pipe_in_gap(pipe_mem[SlotOf[t]], p, TRUE)]
      BY <2>1 DEF set_sender_va, Mem
    <3> QED BY <3>1, <1>g, <1>m
  <2>4. state' \in [Tasks -> States]
    BY <1>15, <1>t2 DEF WaitForSpace, GoTo, States
  <2>5. n \in Nat
    BY <1>w DEF Amounts
  <2>6. sender_waiting_for' \in [Pipes -> Nat]
    BY <1>15, <1>t1, <2>5 DEF WaitForSpace
  <2>7. sender' \in [Pipes -> Ends]
    BY <1>15, <1>t5, <1>s DEF WaitForSpace
  <2> QED BY <1>15, <1>t1, <1>t2, <1>t3, <1>t4, <1>t5, <2>2, <2>3, <2>4, <2>6, <2>7, <1>t
          DEF WaitForSpace, indexVars, poolVars
<1>16. ASSUME NEW t \in Tasks, NEW p \in Pipes, NEW n \in 1 .. BlockSize, SpaceFilled(t, p, n) PROVE TypeOK'
  <2>1. receiver_waiting_for' \in [Pipes -> Nat] /\ runnable' \subseteq Tasks
    BY <1>16, <1>5 DEF SpaceFilled
  <2>2. Written(store[p], write_index[p], n) \in Cells /\ Advance(write_index[p], n) \in 0 .. Word - 1
    BY <1>w, <1>t4, <1>f, <1>a
  <2>3. store' \in [Pipes -> Cells]
    BY <1>16, <1>t4, <2>2 DEF SpaceFilled
  <2>4. write_index' \in [Pipes -> 0 .. Word - 1]
    BY <1>16, <1>t4, <2>2 DEF SpaceFilled
  <2> QED BY <1>16, <1>t1, <1>t2, <1>t3, <1>t4, <1>t5, <2>1, <2>3, <2>4, <1>t DEF SpaceFilled, mapVars, poolVars
<1>17. ASSUME NEW t \in Tasks, NEW p \in Pipes, NEW new \in Tasks \cup {None}, SetSender(t, p, new)
       PROVE  TypeOK'
  <2>1. sender_va' \in [Pipes -> Nat]
    BY <1>17, <1>t3 DEF SetSender
  <2>2. pipe_mem' \in [Slots -> Seq(Block)]
    <3>1. pipe_mem' = pipe_mem \/ pipe_mem' = [pipe_mem EXCEPT
            ![SlotOf[t]] = unmap_and_free(pipe_mem[SlotOf[t]], sender_va[p])]
      BY <1>17 DEF SetSender
    <3>2. unmap_and_free(pipe_mem[SlotOf[t]], sender_va[p]) \in Seq(Block)
      BY <1>u, <1>t3
    <3> QED BY <3>1, <3>2, <1>m
  <2>3. sender' \in [Pipes -> Ends]
    BY <1>17, <1>t5, <1>s DEF SetSender
  <2> QED BY <1>17, <1>t1, <1>t2, <1>t3, <1>t4, <1>t5, <2>1, <2>2, <2>3, <1>t
          DEF SetSender, indexVars, poolVars, taskVars
<1>18. ASSUME NEW t \in Tasks, LogFills(t) PROVE asks[t].amount \in 0 .. BlockSize
  <2>1. write_index[LogPipe] \in 0 .. Word - 1 /\ read_index[LogPipe] \in 0 .. Word - 1
    BY <1>t4, <1>s
  <2>2. data_in_pipe(LogPipe) \in 0 .. Word - 1
    BY <2>1, BetweenIs DEF Between, data_in_pipe
  <2>3. asks[t].amount \in 1 .. space_in_pipe(LogPipe)
    BY <1>18 DEF DataInv, LogFills
  <2> QED BY <1>w, <2>2, <2>3 DEF space_in_pipe
<1> QED
  BY <1>1, <1>2, <1>3, <1>4, <1>7, <1>8, <1>9, <1>10, <1>11, <1>12, <1>14, <1>15, <1>16, <1>17, <1>18, StepCases

\* Records leave the pool when they come into use, and come back when both ends
\* are finished, which is never so of the log.
LEMMA PoolInit == Init => PoolInv
<1> SUFFICES ASSUME NEW pool \in SetToSeqs(Pipes \ {LogPipe}), Start(pool, None, 1) PROVE PoolInv
  BY DEF Init
<1>1. IsFiniteSet(Pipes \ {LogPipe})
  BY PipesAssumption, FS_Subset
<1>2. IsInjective(pool) /\ ToSet(pool) = Pipes \ {LogPipe}
  BY <1>1, OrdersOnce
<1> QED BY <1>2, PipesAssumption DEF Start, PoolInv

\* Every step keeps what is free and what is in use apart.
LEMMA PoolNext == TypeOK /\ PoolInv /\ [Next]_vars => PoolInv'
<1> SUFFICES ASSUME TypeOK, PoolInv, [Next]_vars PROVE PoolInv'
  OBVIOUS
<1>t. pipe_pool \in Seq(Pipes) /\ pipes \subseteq Pipes /\ sender \in [Pipes -> Ends] /\ LogPipe \in Pipes
  BY PipesAssumption DEF TypeOK
<1>p. /\ IsInjective(pipe_pool) /\ ToSet(pipe_pool) \cap pipes = {}
      /\ LogPipe \in pipes /\ sender[LogPipe] = None
  BY DEF PoolInv
<1>1. ASSUME UNCHANGED <<poolVars, sender>> PROVE PoolInv'
  BY <1>1, <1>p DEF PoolInv, poolVars
<1>2. ASSUME UNCHANGED poolVars, NEW p \in Pipes \ {LogPipe}, NEW new, sender' = [sender EXCEPT ![p] = new]
      PROVE  PoolInv'
  BY <1>2, <1>p, <1>t DEF PoolInv, poolVars
<1>3. ASSUME NEW t \in Tasks, PipeCreate(t) PROVE PoolInv'
  <2>1. /\ pipe_pool # <<>> /\ pipes' = pipes \cup {Head(pipe_pool)} /\ pipe_pool' = Tail(pipe_pool)
        /\ sender' = [sender EXCEPT ![Head(pipe_pool)] = t]
    BY <1>3 DEF PipeCreate
  <2>2. /\ Head(pipe_pool) \in ToSet(pipe_pool) /\ IsInjective(Tail(pipe_pool))
        /\ ToSet(Tail(pipe_pool)) = ToSet(pipe_pool) \ {Head(pipe_pool)}
    BY <1>t, <1>p, <2>1, TailedOnce
  <2> QED BY <1>t, <1>p, <2>1, <2>2 DEF PoolInv
<1>4. ASSUME NEW p \in pipes \ {LogPipe}, pipes' = pipes \ {p}, pipe_pool' = Append(pipe_pool, p),
             sender'[LogPipe] = None
      PROVE  PoolInv'
  <2>1. /\ ToSet(Append(pipe_pool, p)) = ToSet(pipe_pool) \cup {p}
        /\ IsInjective(Append(pipe_pool, p))
    <3>1. p \in Pipes /\ p \notin ToSet(pipe_pool)
      BY <1>t, <1>p
    <3> QED BY <1>t, <1>p, <3>1, Appended
  <2> QED BY <1>4, <1>p, <2>1 DEF PoolInv
<1>5. ASSUME NEW t \in Tasks, NEW p \in Pipes, NotListening(t, p) PROVE PoolInv'
  <2>1. p \in pipes /\ UNCHANGED sender /\ free_pipe(p, sender[p])
    BY <1>5 DEF NotListening, PipeSwi
  <2>2. CASE sender[p] = Finished
    <3>1. p # LogPipe
      BY <1>p, <2>2, PipesAssumption
    <3> QED BY <1>p, <2>1, <2>2, <3>1, <1>4 DEF free_pipe
  <2> QED BY <2>1, <2>2, <1>1 DEF free_pipe
<1>6. ASSUME NEW t \in Tasks, NEW p \in Pipes \ {LogPipe}, NoMoreData(t, p) PROVE PoolInv'
  <2>1. p \in pipes /\ sender' = [sender EXCEPT ![p] = Finished] /\ free_pipe(p, receiver[p])
    BY <1>6 DEF NoMoreData, PipeSwi
  <2>2. sender'[LogPipe] = None
    BY <1>t, <1>p, <2>1
  <2>3. CASE receiver[p] = Finished
    BY <2>1, <2>2, <2>3, <1>4 DEF free_pipe
  <2> QED BY <2>1, <2>3, <1>2 DEF free_pipe
<1>7. ASSUME NEW t \in Tasks, NEW p \in Pipes \ {LogPipe},
             \/ \E n \in Amounts : WaitForSpace(t, p, n)
             \/ \E new \in Tasks \cup {None} : SetSender(t, p, new)
      PROVE  PoolInv'
  BY <1>7, <1>2 DEF WaitForSpace, SetSender
<1>8. ASSUME \/ UNCHANGED vars
             \/ \E t \in Tasks : \/ Run(t) \/ Blocks(t) \/ Stops(t)
                                 \/ LogFills(t) \/ LogChecks(t) \/ LogDecides(t) \/ LogWakes(t)
                                 \/ GetLogPipePanics(t)
                                 \/ \E n \in 1 .. BlockSize : LogString(t, n)
             \/ \E t \in Tasks, p \in Pipes :
                  \/ PipePanics(t, p)
                  \/ \E n \in Amounts : WaitForData(t, p, n)
                  \/ \E n \in 1 .. BlockSize : DataConsumed(t, p, n) \/ SpaceFilled(t, p, n)
                  \/ \E new \in Tasks \cup {None} : SetReceiver(t, p, new)
      PROVE  PoolInv'
  <2>1. UNCHANGED <<poolVars, sender>>
    BY <1>8 DEF vars, Run, Blocks, Stops, LogFills, LogChecks, LogDecides, LogWakes, GetLogPipePanics,
                LogString, PipePanics, Panic, WaitForData, DataConsumed, SpaceFilled, SetReceiver, endVars, poolVars
  <2> QED BY <2>1, <1>1
<1> QED BY <1>3, <1>5, <1>6, <1>7, <1>8, StepCases

\* The lock is held while a task is between the steps of WaitForData, and no SWI
\* begins then.
LEMMA LockInit == Init => LockInv
BY DEF Init, Start, LockInv

\* Every step keeps the lock with the one task that has claimed it.
LEMMA LockNext == TypeOK /\ LockInv /\ [Next]_vars => LockInv'
<1> SUFFICES ASSUME TypeOK, LockInv, [Next]_vars PROVE LockInv'
  OBVIOUS
<1>t. state \in [Tasks -> States] /\ None \notin Tasks
  BY PipesAssumption DEF TypeOK
<1>1. ASSUME UNCHANGED <<state, pipes_lock>> PROVE LockInv'
  BY <1>1 DEF LockInv
<1>2. ASSUME NEW t \in Tasks, UNCHANGED pipes_lock, NEW s, s \notin {"blocks", "stopping"},
             GoTo(t, s) \/ UNCHANGED state
      PROVE  LockInv'
  BY <1>2, <1>t DEF LockInv, GoTo
<1>3. ASSUME NEW t \in Tasks, pipes_lock = None, NEW s, UNCHANGED pipes_lock \/ (pipes_lock' = t /\ GoTo(t, s)),
             GoTo(t, s) \/ UNCHANGED state, s \in {"blocks", "stopping"} => pipes_lock' = t
      PROVE  LockInv'
  BY <1>3, <1>t DEF LockInv, GoTo
<1>4. ASSUME NEW t \in Tasks, Blocks(t) \/ Stops(t) PROVE LockInv'
  BY <1>4, <1>t DEF LockInv, GoTo, Blocks, Stops
<1>5. ASSUME \/ UNCHANGED vars
             \/ \E t \in Tasks : PipeCreate(t)
             \/ \E t \in Tasks, p \in Pipes :
                  \/ \E n \in 1 .. BlockSize : DataConsumed(t, p, n) \/ SpaceFilled(t, p, n)
                  \/ \E new \in Tasks \cup {None} : SetReceiver(t, p, new) \/ SetSender(t, p, new)
                  \/ NotListening(t, p) \/ NoMoreData(t, p)
      PROVE  LockInv'
  <2>1. UNCHANGED <<state, pipes_lock>>
    BY <1>5 DEF vars, PipeCreate, DataConsumed, SpaceFilled, SetReceiver, SetSender, NotListening, NoMoreData, taskVars
  <2> QED BY <2>1, <1>1
<1>6. ASSUME NEW t \in Tasks,
             \/ Run(t) \/ LogFills(t) \/ LogChecks(t) \/ LogDecides(t) \/ LogWakes(t) \/ GetLogPipePanics(t)
             \/ \E n \in 1 .. BlockSize : LogString(t, n)
             \/ \E p \in Pipes, n \in Amounts : WaitForSpace(t, p, n)
      PROVE  LockInv'
  <2>1. UNCHANGED pipes_lock /\ \E s \in Logging \cup {"usr", "panic", "stopped", "astray"} :
                                 GoTo(t, s) \/ UNCHANGED state
    BY <1>6 DEF Run, LogFills, LogChecks, LogDecides, LogWakes, LogEnds, Logging, GetLogPipePanics, LogString, WaitForSpace
  <2> QED BY <2>1, <1>2 DEF Logging
<1>7. ASSUME NEW t \in Tasks, NEW p \in Pipes, PipePanics(t, p) PROVE LockInv'
  BY <1>7, <1>3 DEF PipePanics, PipeSwi, Panic
<1>8. ASSUME NEW t \in Tasks, NEW p \in Pipes, NEW n \in Amounts, WaitForData(t, p, n) PROVE LockInv'
  BY <1>8, <1>2, <1>3 DEF WaitForData, PipeSwi
<1> QED BY <1>4, <1>5, <1>6, <1>7, <1>8, StepCases

\* Nothing is in a pipe that is new; what is written fits, and so does what is
\* being written to the log, whose space only grows meanwhile.
LEMMA DataInit == Init => DataInv
<1> SUFFICES ASSUME NEW pool \in SetToSeqs(Pipes \ {LogPipe}), Start(pool, None, 1) PROVE DataInv
  BY DEF Init
<1>1. Word \in Nat \ {0} /\ BlockSize \in Nat \ {0} /\ BlockSize < Word
  BY WordAssumption
<1>2. ASSUME NEW p \in Pipes PROVE data_in_pipe(p) <= BlockSize
  <2>1. write_index[p] \in {0, 1} /\ read_index[p] = 0
    BY <1>2 DEF Start
  <2>2. data_in_pipe(p) = write_index[p]
    BY <1>1, <2>1, BetweenIs DEF Between, data_in_pipe
  <2> QED BY <1>1, <2>1, <2>2
<1> QED BY <1>2 DEF Start, DataInv, Logging

\* What the indices are, and how much there is between them.
LEMMA Indices ==
  ASSUME TypeOK, NEW p \in Pipes
  PROVE  /\ write_index[p] \in 0 .. Word - 1 /\ read_index[p] \in 0 .. Word - 1
         /\ data_in_pipe(p) = Between(write_index[p], read_index[p])
         /\ data_in_pipe(p) \in 0 .. Word - 1
         /\ space_in_pipe(p) = BlockSize - data_in_pipe(p)
<1>1. write_index[p] \in 0 .. Word - 1 /\ read_index[p] \in 0 .. Word - 1
  BY DEF TypeOK
<1>2. data_in_pipe(p) = Between(write_index[p], read_index[p])
  BY DEF data_in_pipe, Between
<1> QED BY <1>1, <1>2, BetweenIs DEF space_in_pipe

\* The steps that move an index: by how much, and what that makes of the data.
LEMMA DataMoves ==
  ASSUME TypeOK, DataInv, NEW t \in Tasks, NEW p \in Pipes
  PROVE  /\ \A n \in 1 .. BlockSize : SpaceFilled(t, p, n) =>
              /\ data_in_pipe(p)' = data_in_pipe(p) + n /\ data_in_pipe(p) + n <= BlockSize
              /\ \A q \in Pipes \ {p} : data_in_pipe(q)' = data_in_pipe(q)
         /\ \A n \in 1 .. BlockSize : DataConsumed(t, p, n) =>
              /\ data_in_pipe(p)' = data_in_pipe(p) - n /\ n <= data_in_pipe(p)
              /\ \A q \in Pipes \ {p} : data_in_pipe(q)' = data_in_pipe(q)
         /\ LogFills(t) =>
              /\ data_in_pipe(LogPipe)' = data_in_pipe(LogPipe) + asks[t].amount
              /\ asks[t].amount \in 1 .. BlockSize
              /\ data_in_pipe(LogPipe) + asks[t].amount <= BlockSize
              /\ \A q \in Pipes \ {LogPipe} : data_in_pipe(q)' = data_in_pipe(q)
         /\ PipeCreate(t) /\ p = Head(pipe_pool) =>
              /\ data_in_pipe(p)' = 0
              /\ \A q \in Pipes \ {p} : data_in_pipe(q)' = data_in_pipe(q)
<1>1. Word \in Nat \ {0} /\ BlockSize \in Nat \ {0} /\ BlockSize < Word /\ LogPipe \in Pipes
  BY WordAssumption, PipesAssumption
<1>2. write_index \in [Pipes -> 0 .. Word - 1] /\ read_index \in [Pipes -> 0 .. Word - 1]
  BY DEF TypeOK
<1>3. \A q \in Pipes : data_in_pipe(q)' = Between(write_index'[q], read_index'[q])
  BY DEF data_in_pipe, Between
<1>4. \A q \in Pipes : data_in_pipe(q) = Between(write_index[q], read_index[q]) /\ data_in_pipe(q) \in 0 .. Word - 1
  BY Indices
<1>5. ASSUME NEW q \in Pipes, write_index'[q] = write_index[q], read_index'[q] = read_index[q]
      PROVE  data_in_pipe(q)' = data_in_pipe(q)
  BY <1>3, <1>4, <1>5
<1>6. ASSUME NEW q \in Pipes, NEW n \in 1 .. BlockSize, data_in_pipe(q) + n <= BlockSize,
             write_index' = [write_index EXCEPT ![q] = Advance(write_index[q], n)], UNCHANGED read_index
      PROVE  /\ data_in_pipe(q)' = data_in_pipe(q) + n
             /\ \A r \in Pipes \ {q} : data_in_pipe(r)' = data_in_pipe(r)
  <2>1. write_index'[q] = Advance(write_index[q], n)
    BY <1>2, <1>6
  <2>2. Between(write_index[q], read_index[q]) + n < Word
    BY <1>1, <1>4, <1>6
  <2>3. Between(Advance(write_index[q], n), read_index[q]) = Between(write_index[q], read_index[q]) + n
    BY <1>2, <2>2, BetweenMoves
  <2> QED BY <1>2, <1>3, <1>4, <1>5, <1>6, <2>1, <2>3
<1>7. ASSUME NEW n \in 1 .. BlockSize, SpaceFilled(t, p, n)
      PROVE  /\ data_in_pipe(p)' = data_in_pipe(p) + n /\ data_in_pipe(p) + n <= BlockSize
             /\ \A q \in Pipes \ {p} : data_in_pipe(q)' = data_in_pipe(q)
  <2>1. n <= space_in_pipe(p) /\ write_index' = [write_index EXCEPT ![p] = Advance(write_index[p], n)]
        /\ UNCHANGED read_index
    BY <1>7 DEF SpaceFilled
  <2>2. data_in_pipe(p) + n <= BlockSize
    BY <1>1, <1>4, <2>1 DEF space_in_pipe
  <2> QED BY <2>1, <2>2, <1>6
<1>8. ASSUME NEW n \in 1 .. BlockSize, DataConsumed(t, p, n)
      PROVE  /\ data_in_pipe(p)' = data_in_pipe(p) - n /\ n <= data_in_pipe(p)
             /\ \A q \in Pipes \ {p} : data_in_pipe(q)' = data_in_pipe(q)
  <2>1. n <= data_in_pipe(p) /\ read_index' = [read_index EXCEPT ![p] = Advance(read_index[p], n)]
        /\ UNCHANGED write_index
    BY <1>8 DEF DataConsumed
  <2>2. read_index'[p] = Advance(read_index[p], n)
    BY <1>2, <2>1
  <2>3. Between(write_index[p], Advance(read_index[p], n)) = Between(write_index[p], read_index[p]) - n
    BY <1>2, <1>4, <2>1, BetweenMoves
  <2> QED BY <1>2, <1>3, <1>4, <1>5, <2>1, <2>2, <2>3
<1>9. ASSUME LogFills(t)
      PROVE  /\ data_in_pipe(LogPipe)' = data_in_pipe(LogPipe) + asks[t].amount
             /\ asks[t].amount \in 1 .. BlockSize
             /\ data_in_pipe(LogPipe) + asks[t].amount <= BlockSize
             /\ \A q \in Pipes \ {LogPipe} : data_in_pipe(q)' = data_in_pipe(q)
  <2>1. asks[t].amount \in 1 .. space_in_pipe(LogPipe)
    BY <1>9 DEF LogFills, DataInv
  <2>2. asks[t].amount \in 1 .. BlockSize /\ data_in_pipe(LogPipe) + asks[t].amount <= BlockSize
    BY <1>1, <1>4, <2>1 DEF space_in_pipe
  <2>3. write_index' = [write_index EXCEPT ![LogPipe] = Advance(write_index[LogPipe], asks[t].amount)]
        /\ UNCHANGED read_index
    BY <1>9 DEF LogFills
  <2> QED BY <1>1, <1>6, <2>2, <2>3
<1>10. ASSUME PipeCreate(t), p = Head(pipe_pool)
       PROVE  /\ data_in_pipe(p)' = 0
              /\ \A q \in Pipes \ {p} : data_in_pipe(q)' = data_in_pipe(q)
  <2>1. write_index' = [write_index EXCEPT ![p] = 0] /\ read_index' = [read_index EXCEPT ![p] = 0]
    BY <1>10 DEF PipeCreate
  <2>2. write_index'[p] = 0 /\ read_index'[p] = 0 /\ 0 \in 0 .. Word - 1
    BY <1>1, <1>2, <2>1
  <2>3. Between(0, 0) = 0
    BY <2>2, BetweenIs
  <2>4. data_in_pipe(p)' = 0
    BY <1>3, <2>2, <2>3
  <2> QED BY <1>2, <1>5, <2>1, <2>4
<1> QED BY <1>7, <1>8, <1>9, <1>10

\* All other steps move none.
LEMMA DataStays ==
  ASSUME TypeOK, UNCHANGED <<write_index, read_index>>, NEW p \in Pipes
  PROVE  data_in_pipe(p)' = data_in_pipe(p)
BY DEF data_in_pipe

\* Every step keeps the indices no more than a block apart.
LEMMA DataNext == TypeOK /\ PoolInv /\ DataInv /\ [Next]_vars => DataInv'
<1> SUFFICES ASSUME TypeOK, PoolInv, DataInv, [Next]_vars PROVE DataInv'
  OBVIOUS
<1>t. state \in [Tasks -> States] /\ asks \in [Tasks -> [pipe : Pipes, amount : Nat]] /\ LogPipe \in Pipes
  BY PipesAssumption DEF TypeOK
<1>w. BlockSize \in Nat \ {0}
  BY WordAssumption
<1>n. \A p \in Pipes : data_in_pipe(p) \in Nat
  BY Indices
<1>s. \A p \in Pipes : space_in_pipe(p) = BlockSize - data_in_pipe(p)
                       /\ space_in_pipe(p)' = BlockSize - data_in_pipe(p)'
  BY DEF space_in_pipe
<1>1. ASSUME \A p \in Pipes : data_in_pipe(p)' \in Nat /\ data_in_pipe(p)' <= BlockSize,
             data_in_pipe(LogPipe)' <= data_in_pipe(LogPipe),
             \A t \in Tasks : /\ state'[t] \in Logging => state[t] \in Logging
                              /\ state'[t] = "logs" => state[t] = "logs" /\ asks'[t] = asks[t]
      PROVE  DataInv'
  <2>1. space_in_pipe(LogPipe) \in Int /\ space_in_pipe(LogPipe)' \in Int
        /\ space_in_pipe(LogPipe) <= space_in_pipe(LogPipe)'
    BY <1>1, <1>w, <1>n, <1>s, <1>t
  <2>2. ASSUME NEW t \in Tasks, state'[t] = "logs"
        PROVE  asks'[t].pipe = LogPipe /\ asks'[t].amount \in 1 .. space_in_pipe(LogPipe)'
    <3>1. asks[t].pipe = LogPipe /\ asks[t].amount \in 1 .. space_in_pipe(LogPipe) /\ asks'[t] = asks[t]
      BY <1>1, <2>2 DEF DataInv
    <3> QED BY <2>1, <3>1
  <2>3. \A t, u \in Tasks :
          (state'[t] \in Logging /\ state'[u] \in Logging) => t = u
    BY <1>1 DEF DataInv
  <2> QED BY <1>1, <2>2, <2>3 DEF DataInv
<1>2. ASSUME \/ UNCHANGED vars
             \/ \E t \in Tasks : \/ Run(t) \/ Blocks(t) \/ Stops(t)
                                 \/ LogChecks(t) \/ LogDecides(t) \/ LogWakes(t) \/ GetLogPipePanics(t)
             \/ \E t \in Tasks, p \in Pipes :
                  \/ PipePanics(t, p)
                  \/ \E n \in Amounts : WaitForData(t, p, n) \/ WaitForSpace(t, p, n)
                  \/ \E new \in Tasks \cup {None} : SetReceiver(t, p, new) \/ SetSender(t, p, new)
                  \/ NotListening(t, p) \/ NoMoreData(t, p)
      PROVE  DataInv'
  <2>1. UNCHANGED <<write_index, read_index>>
    BY <1>2 DEF vars, Run, Blocks, Stops, LogChecks, LogDecides, LogWakes, GetLogPipePanics, PipePanics, Panic,
                WaitForData, WaitForSpace, SetReceiver, SetSender, NotListening, NoMoreData, indexVars
  <2>2. \A t \in Tasks : /\ state'[t] \in Logging => state[t] \in Logging
                         /\ state'[t] = "logs" => state[t] = "logs" /\ asks'[t] = asks[t]
    BY <1>2, <1>t DEF vars, Run, Blocks, Stops, LogChecks, LogDecides, LogWakes, LogEnds, GetLogPipePanics,
                PipePanics, Panic, WaitForData, WaitForSpace, SetReceiver, SetSender, NotListening, NoMoreData,
                GoTo, taskVars, PipeSwi, Logging
  <2>3. \A p \in Pipes : data_in_pipe(p)' = data_in_pipe(p)
    BY <2>1, DataStays
  <2>4. \A p \in Pipes : data_in_pipe(p)' \in Nat /\ data_in_pipe(p)' <= BlockSize
    BY <1>n, <2>3 DEF DataInv
  <2>5. data_in_pipe(LogPipe)' <= data_in_pipe(LogPipe)
    BY <1>n, <1>t, <2>3
  <2> QED BY <1>1, <2>2, <2>4, <2>5
<1>3. ASSUME NEW t \in Tasks, PipeCreate(t) PROVE DataInv'
  <2>1. PICK p \in Pipes \ {LogPipe} : p = Head(pipe_pool)
    <3>1. Head(pipe_pool) \in Pipes /\ Head(pipe_pool) \in ToSet(pipe_pool)
      BY <1>3, Tailed DEF PipeCreate, TypeOK
    <3> QED BY <3>1 DEF PoolInv
  <2>2. data_in_pipe(p)' = 0 /\ \A q \in Pipes \ {p} : data_in_pipe(q)' = data_in_pipe(q)
    BY <1>3, <2>1, DataMoves
  <2>3. UNCHANGED <<state, asks>>
    BY <1>3 DEF PipeCreate, taskVars
  <2>4. \A q \in Pipes : data_in_pipe(q)' \in Nat /\ data_in_pipe(q)' <= BlockSize
    BY <1>w, <1>n, <2>2 DEF DataInv
  <2>5. data_in_pipe(LogPipe)' <= data_in_pipe(LogPipe)
    BY <1>t, <1>n, <2>1, <2>2
  <2> QED BY <1>1, <2>3, <2>4, <2>5
<1>4. ASSUME NEW t \in Tasks, NEW p \in Pipes \ {LogPipe}, NEW n \in 1 .. BlockSize, SpaceFilled(t, p, n)
      PROVE  DataInv'
  <2>1. data_in_pipe(p)' = data_in_pipe(p) + n /\ data_in_pipe(p) + n <= BlockSize
        /\ \A q \in Pipes \ {p} : data_in_pipe(q)' = data_in_pipe(q)
    BY <1>4, DataMoves
  <2>2. UNCHANGED <<state, asks>>
    BY <1>4 DEF SpaceFilled
  <2>3. \A q \in Pipes : data_in_pipe(q)' \in Nat /\ data_in_pipe(q)' <= BlockSize
    BY <1>w, <1>n, <2>1 DEF DataInv
  <2>4. data_in_pipe(LogPipe)' <= data_in_pipe(LogPipe)
    BY <1>t, <1>n, <2>1
  <2> QED BY <1>1, <2>2, <2>3, <2>4
<1>5. ASSUME NEW t \in Tasks, NEW p \in Pipes, NEW n \in 1 .. BlockSize, DataConsumed(t, p, n) PROVE DataInv'
  <2>1. data_in_pipe(p)' = data_in_pipe(p) - n /\ n <= data_in_pipe(p)
        /\ \A q \in Pipes \ {p} : data_in_pipe(q)' = data_in_pipe(q)
    BY <1>5, DataMoves
  <2>2. UNCHANGED <<state, asks>>
    BY <1>5 DEF DataConsumed
  <2>3. \A q \in Pipes : data_in_pipe(q)' \in Nat /\ data_in_pipe(q)' <= BlockSize
    BY <1>w, <1>n, <2>1 DEF DataInv
  <2>4. data_in_pipe(LogPipe)' <= data_in_pipe(LogPipe)
    BY <1>t, <1>n, <1>w, <2>1
  <2> QED BY <1>1, <2>2, <2>3, <2>4
<1>6. ASSUME NEW t \in Tasks, LogFills(t) PROVE DataInv'
  <2>1. data_in_pipe(LogPipe)' = data_in_pipe(LogPipe) + asks[t].amount
        /\ asks[t].amount \in 1 .. BlockSize
        /\ data_in_pipe(LogPipe) + asks[t].amount <= BlockSize
        /\ \A q \in Pipes \ {LogPipe} : data_in_pipe(q)' = data_in_pipe(q)
    BY <1>6, <1>t, DataMoves
  <2>2. \A q \in Pipes : data_in_pipe(q)' <= BlockSize
    BY <1>n, <2>1 DEF DataInv
  <2>3. state[t] = "logs" /\ state' = [state EXCEPT ![t] = "logged"]
    BY <1>6 DEF LogFills, GoTo
  <2>4. \A u \in Tasks : state'[u] \in Logging => u = t
    BY <1>t, <2>3 DEF DataInv, Logging
  <2>5. state'[t] = "logged"
    BY <1>t, <2>3
  <2> QED BY <2>2, <2>4, <2>5 DEF DataInv, Logging
<1>7. ASSUME NEW t \in Tasks, NEW n \in 1 .. BlockSize, LogString(t, n) PROVE DataInv'
  <2>1. UNCHANGED <<write_index, read_index>>
    BY <1>7 DEF LogString
  <2>2. \A p \in Pipes : data_in_pipe(p)' = data_in_pipe(p)
    BY <2>1, DataStays
  <2>3. /\ \A u \in Tasks : state[u] \notin Logging
        /\ n <= space_in_pipe(LogPipe)
        /\ asks' = [asks EXCEPT ![t] = [pipe |-> LogPipe, amount |-> n]]
        /\ state' = [state EXCEPT ![t] = "logs"]
    BY <1>7 DEF LogString, GoTo
  <2>4. space_in_pipe(LogPipe)' = space_in_pipe(LogPipe) /\ space_in_pipe(LogPipe) \in Int
    BY <1>n, <1>s, <1>t, <1>w, <2>2
  <2>5. \A u \in Tasks : state'[u] \in Logging => u = t
    BY <1>t, <2>3
  <2>6. asks'[t] = [pipe |-> LogPipe, amount |-> n]
    BY <1>t, <2>3
  <2>7. asks'[t].pipe = LogPipe /\ asks'[t].amount \in 1 .. space_in_pipe(LogPipe)'
    BY <2>3, <2>4, <2>6
  <2> QED BY <2>2, <2>5, <2>7 DEF DataInv, Logging
<1> QED BY <1>2, <1>3, <1>4, <1>5, <1>6, <1>7, StepCases

\* Who is woken stays so, as long as the log is not at it.
LEMMA WokenStays ==
  ASSUME TypeOK, WokenInv, UNCHANGED runnable,
         \A t \in Tasks : state[t] = "stopped" => state'[t] = "stopped",
         \/ UNCHANGED log_receiver /\ \A t \in Tasks : state'[t] = "waking" <=> state[t] = "waking"
         \/ \A t \in Tasks : state[t] # "waking" /\ state'[t] # "waking"
  PROVE  Woken' = Woken /\ WokenInv'
<1>1. \A t \in Tasks : IsWoken(t)' <=> IsWoken(t)
  BY DEF IsWoken
<1>2. Woken' = Woken
  BY <1>1 DEF Woken
<1>3. WokenInv'
  BY DEF WokenInv, TypeOK
<1> QED BY <1>2, <1>3

\* Woken are tasks.
LEMMA WokenTasks == TypeOK => Woken \subseteq Tasks
BY DEF TypeOK, Woken

\* Who waits sleeps, and has not been woken.
LEMMA WhoWaits ==
  ASSUME TypeOK, SleepInv, NEW p \in Pipes
  PROVE  /\ receiver_waiting_for[p] > 0 => /\ receiver[p] \in Tasks /\ Sleeps(receiver[p])
                                           /\ receiver[p] \notin Woken
         /\ sender_waiting_for[p] > 0 => /\ sender[p] \in Tasks /\ state[sender[p]] = "stopped"
                                         /\ sender[p] \notin Woken
<1>1. receiver_waiting_for[p] > 0 => receiver[p] \in Tasks /\ Sleeps(receiver[p])
  BY DEF SleepInv
<1>2. sender_waiting_for[p] > 0 => sender[p] \in Tasks /\ state[sender[p]] = "stopped" /\ Sleeps(sender[p])
  BY DEF SleepInv, Sleeps
<1>3. \A t \in Tasks : Sleeps(t) /\ t \in Woken => ~ WaitsAsSender(t, p) /\ ~ WaitsAsReceiver(t, p)
  BY DEF SleepInv, WaitsNowhere
<1> QED BY <1>1, <1>2, <1>3 DEF WaitsAsSender, WaitsAsReceiver

\* Who waits is who sleeps, as long as nobody begins to wait and nobody is woken:
\* an end may be given to somebody else when the pipe does not wait for it.
LEMMA SleepKept ==
  ASSUME TypeOK, SleepInv,
         \A p \in Pipes : /\ sender_waiting_for'[p] = sender_waiting_for[p]
                          /\ sender_waiting_for[p] > 0 => sender'[p] = sender[p]
                          /\ receiver_waiting_for'[p] = receiver_waiting_for[p]
                          /\ receiver_waiting_for[p] > 0 => receiver'[p] = receiver[p],
         \A t \in Tasks : /\ Sleeps(t)' <=> Sleeps(t)
                          /\ state[t] = "stopped" => state'[t] = "stopped",
         \A t \in Tasks : state'[t] = "blocks" =>
           receiver'[asks'[t].pipe] = t /\ asks'[t].amount > 0 /\ asks'[t].pipe \in pipes',
         \A p \in Pipes \ pipes' : sender_waiting_for[p] = 0 /\ receiver_waiting_for[p] = 0,
         Woken' = Woken, WokenInv'
  PROVE  SleepInv'
<1>t. \A p \in Pipes : sender_waiting_for[p] \in Nat /\ receiver_waiting_for[p] \in Nat
  BY DEF TypeOK
<1>1. \A t \in Tasks, p \in Pipes : /\ WaitsAsSender(t, p)' <=> WaitsAsSender(t, p)
                                    /\ WaitsAsReceiver(t, p)' <=> WaitsAsReceiver(t, p)
  BY <1>t DEF WaitsAsSender, WaitsAsReceiver
<1>2. \A t \in Tasks : /\ WaitsNowhere(t)' <=> WaitsNowhere(t)
                       /\ WaitsOnceAsSender(t)' <=> WaitsOnceAsSender(t)
                       /\ WaitsOnceAsReceiver(t)' <=> WaitsOnceAsReceiver(t)
  BY <1>1 DEF WaitsNowhere, WaitsOnceAsSender, WaitsOnceAsReceiver
<1>3. \A p \in Pipes : sender_waiting_for'[p] > 0 => sender'[p] \in Tasks /\ state'[sender'[p]] = "stopped"
  BY <1>t DEF SleepInv
<1>4. \A p \in Pipes : receiver_waiting_for'[p] > 0 => (receiver[p] \in Tasks /\ Sleeps(receiver[p]))'
  <2> SUFFICES ASSUME NEW p \in Pipes, receiver_waiting_for'[p] > 0
               PROVE  (receiver[p] \in Tasks /\ Sleeps(receiver[p]))'
    OBVIOUS
  <2>1. receiver'[p] = receiver[p] /\ receiver[p] \in Tasks /\ Sleeps(receiver[p])
    BY <1>t DEF SleepInv
  <2> QED BY <2>1 DEF Sleeps
<1>5. \A t \in Tasks : Sleeps(t)' =>
        IF t \in Woken' THEN WaitsNowhere(t)' ELSE WaitsOnceAsSender(t)' \/ WaitsOnceAsReceiver(t)'
  BY <1>2 DEF SleepInv
<1>6. \A t \in Woken' : Sleeps(t)'
  BY WokenTasks DEF SleepInv
<1> QED BY <1>3, <1>4, <1>5, <1>6 DEF SleepInv

\* Who is woken waits nowhere any more.
LEMMA SleepersWoken ==
  ASSUME TypeOK, SleepInv, NEW p \in Pipes, NEW u \in Tasks,
         \/ /\ receiver_waiting_for[p] > 0 /\ u = receiver[p]
            /\ receiver_waiting_for' = [receiver_waiting_for EXCEPT ![p] = 0]
            /\ UNCHANGED sender_waiting_for
         \/ /\ sender_waiting_for[p] > 0 /\ u = sender[p]
            /\ sender_waiting_for' = [sender_waiting_for EXCEPT ![p] = 0]
            /\ UNCHANGED receiver_waiting_for,
         Woken' = Woken \cup {u}, WokenInv',
         UNCHANGED <<sender, receiver, pipes>>,
         \A t \in Tasks : /\ Sleeps(t)' <=> Sleeps(t)
                          /\ state'[t] = "stopped" <=> state[t] = "stopped"
                          /\ state'[t] = "blocks" => state[t] = "blocks" /\ asks'[t] = asks[t]
  PROVE  SleepInv'
<1>t. \A q \in Pipes : sender_waiting_for[q] \in Nat /\ receiver_waiting_for[q] \in Nat
  BY DEF TypeOK
<1>e. \A q \in Pipes : /\ sender_waiting_for'[q] = 0 \/ sender_waiting_for'[q] = sender_waiting_for[q]
                       /\ receiver_waiting_for'[q] = 0 \/ receiver_waiting_for'[q] = receiver_waiting_for[q]
  BY DEF TypeOK
<1>1. \A t \in Tasks \ {u}, q \in Pipes : /\ WaitsAsSender(t, q)' <=> WaitsAsSender(t, q)
                                          /\ WaitsAsReceiver(t, q)' <=> WaitsAsReceiver(t, q)
  <2>1. \A q \in Pipes :
          sender_waiting_for'[q] = sender_waiting_for[q] \/ (q = p /\ u = sender[p])
    BY DEF TypeOK
  <2>2. \A q \in Pipes :
          sender_waiting_for'[q] = sender_waiting_for[q] \/ (sender'[q] = u /\ sender[q] = u)
    BY <2>1
  <2>3. \A q \in Pipes :
          receiver_waiting_for'[q] = receiver_waiting_for[q] \/ (q = p /\ u = receiver[p])
    BY DEF TypeOK
  <2>4. \A q \in Pipes :
          receiver_waiting_for'[q] = receiver_waiting_for[q] \/ (receiver'[q] = u /\ receiver[q] = u)
    BY <2>3
  <2> QED BY <2>2, <2>4 DEF WaitsAsSender, WaitsAsReceiver
<1>2. \A t \in Tasks \ {u} : /\ WaitsNowhere(t)' <=> WaitsNowhere(t)
                             /\ WaitsOnceAsSender(t)' <=> WaitsOnceAsSender(t)
                             /\ WaitsOnceAsReceiver(t)' <=> WaitsOnceAsReceiver(t)
  BY <1>1 DEF WaitsNowhere, WaitsOnceAsSender, WaitsOnceAsReceiver
<1>3. Sleeps(u)
  BY DEF SleepInv, Sleeps
<1>4. u \notin Woken
  BY WhoWaits
<1>5. WaitsNowhere(u)'
  <2>1. WaitsOnceAsSender(u) \/ WaitsOnceAsReceiver(u)
    BY <1>3, <1>4 DEF SleepInv
  <2>2. CASE receiver_waiting_for[p] > 0 /\ u = receiver[p]
             /\ receiver_waiting_for' = [receiver_waiting_for EXCEPT ![p] = 0]
             /\ UNCHANGED sender_waiting_for
    <3>1. WaitsAsReceiver(u, p)
      BY <2>2 DEF WaitsAsReceiver
    <3>2. WaitsOnceAsReceiver(u)
      BY <2>1, <3>1 DEF WaitsOnceAsSender
    <3>3. \A q \in Pipes : ~ WaitsAsSender(u, q) /\ (WaitsAsReceiver(u, q) => q = p)
      BY <3>1, <3>2 DEF WaitsOnceAsReceiver
    <3>4. \A q \in Pipes : receiver_waiting_for'[q] = IF q = p THEN 0 ELSE receiver_waiting_for[q]
      BY <2>2 DEF TypeOK
    <3> QED BY <2>2, <3>3, <3>4 DEF WaitsNowhere, WaitsAsSender, WaitsAsReceiver
  <2>3. CASE sender_waiting_for[p] > 0 /\ u = sender[p]
             /\ sender_waiting_for' = [sender_waiting_for EXCEPT ![p] = 0]
             /\ UNCHANGED receiver_waiting_for
    <3>1. WaitsAsSender(u, p)
      BY <2>3 DEF WaitsAsSender
    <3>2. WaitsOnceAsSender(u)
      BY <2>1, <3>1 DEF WaitsOnceAsReceiver
    <3>3. \A q \in Pipes : ~ WaitsAsReceiver(u, q) /\ (WaitsAsSender(u, q) => q = p)
      BY <3>1, <3>2 DEF WaitsOnceAsSender
    <3>4. \A q \in Pipes : sender_waiting_for'[q] = IF q = p THEN 0 ELSE sender_waiting_for[q]
      BY <2>3 DEF TypeOK
    <3> QED BY <2>3, <3>3, <3>4 DEF WaitsNowhere, WaitsAsSender, WaitsAsReceiver
  <2> QED BY <2>2, <2>3
<1>6. \A q \in Pipes : sender_waiting_for'[q] > 0 => sender'[q] \in Tasks /\ state'[sender'[q]] = "stopped"
  BY <1>e DEF SleepInv
<1>7. \A q \in Pipes : receiver_waiting_for'[q] > 0 => (receiver[q] \in Tasks /\ Sleeps(receiver[q]))'
  <2> SUFFICES ASSUME NEW q \in Pipes, receiver_waiting_for'[q] > 0
               PROVE  (receiver[q] \in Tasks /\ Sleeps(receiver[q]))'
    OBVIOUS
  <2>1. receiver'[q] = receiver[q] /\ receiver[q] \in Tasks /\ Sleeps(receiver[q])
    BY <1>e DEF SleepInv
  <2> QED BY <2>1 DEF Sleeps
<1>8. \A t \in Tasks : Sleeps(t)' =>
        IF t \in Woken' THEN WaitsNowhere(t)' ELSE WaitsOnceAsSender(t)' \/ WaitsOnceAsReceiver(t)'
  <2> SUFFICES ASSUME NEW t \in Tasks, Sleeps(t)'
               PROVE  IF t \in Woken' THEN WaitsNowhere(t)'
                      ELSE WaitsOnceAsSender(t)' \/ WaitsOnceAsReceiver(t)'
    OBVIOUS
  <2>1. CASE t = u
    BY <1>5, <2>1
  <2>2. CASE t # u
    <3>1. Sleeps(t) /\ (t \in Woken' <=> t \in Woken)
      BY <2>2
    <3> QED BY <1>2, <2>2, <3>1 DEF SleepInv
  <2> QED BY <2>1, <2>2
<1>9. \A t \in Woken' : Sleeps(t)'
  BY <1>3, WokenTasks DEF SleepInv
<1>10. \A q \in Pipes \ pipes' : sender_waiting_for'[q] = 0 /\ receiver_waiting_for'[q] = 0
  BY <1>e DEF SleepInv
<1>11. \A t \in Tasks : state'[t] = "blocks" =>
         receiver'[asks'[t].pipe] = t /\ asks'[t].amount > 0 /\ asks'[t].pipe \in pipes'
  BY DEF SleepInv
<1> QED BY <1>6, <1>7, <1>8, <1>9, <1>10, <1>11 DEF SleepInv

\* Nobody sleeps at first, and who is awake waits nowhere.
LEMMA SleepInit == Init => SleepInv
<1> SUFFICES ASSUME NEW pool \in SetToSeqs(Pipes \ {LogPipe}), Start(pool, None, 1) PROVE SleepInv
  BY DEF Init
<1> QED BY DEF Start, SleepInv, Sleeps, Woken, WokenInv, IsWoken

\* No pipe has a task that is awake down as waiting.
LEMMA AwakeWaitsNowhere ==
  ASSUME TypeOK, SleepInv, NEW t \in Tasks, ~ Sleeps(t)
  PROVE  /\ WaitsNowhere(t) /\ t \notin Woken
         /\ \A p \in Pipes : /\ sender[p] \in {t, None} => sender_waiting_for[p] = 0
                             /\ receiver[p] \in {t, None} => receiver_waiting_for[p] = 0
         /\ \A p \in Pipes : /\ sender[p] = Finished => sender_waiting_for[p] = 0
                             /\ receiver[p] = Finished => receiver_waiting_for[p] = 0
<1>1. \A p \in Pipes : sender_waiting_for[p] \in Nat /\ receiver_waiting_for[p] \in Nat
  BY DEF TypeOK
<1>2. \A p \in Pipes : /\ sender_waiting_for[p] > 0 => sender[p] \in Tasks \ {t}
                       /\ receiver_waiting_for[p] > 0 => receiver[p] \in Tasks \ {t}
  BY DEF SleepInv, Sleeps
<1>3. None \notin Tasks /\ Finished \notin Tasks
  BY PipesAssumption
<1>4. t \notin Woken
  BY DEF SleepInv
<1> QED BY <1>1, <1>2, <1>3, <1>4 DEF WaitsNowhere, WaitsAsSender, WaitsAsReceiver

\* A core picks up a task that nobody waits for.
LEMMA SleepRun ==
  ASSUME TypeOK, SleepInv, NEW t \in Tasks, Run(t)
  PROVE  SleepInv'
<1>1. /\ t \in runnable /\ state[t] = "stopped" /\ runnable' = runnable \ {t}
      /\ state' = [state EXCEPT ![t] = "usr"]
      /\ UNCHANGED <<sender, receiver, sender_waiting_for, receiver_waiting_for, pipes, asks, log_receiver>>
  BY DEF Run, GoTo, endVars, poolVars, SleepInv, WokenInv
<1>2. \A u \in Tasks : state'[u] = IF u = t THEN "usr" ELSE state[u]
  BY <1>1 DEF TypeOK
<1>a. Woken' = Woken \ {t}
  <2>1. \A u \in Tasks : state'[u] = "waking" <=> state[u] = "waking"
    BY <1>1, <1>2
  <2>2. \A u \in Tasks : IsWoken(u)' <=> IsWoken(u)
    BY <1>1, <2>1 DEF IsWoken
  <2>3. ~ IsWoken(t)
    BY <1>1 DEF IsWoken, SleepInv, WokenInv
  <2> QED BY <1>1, <2>2, <2>3 DEF Woken
<1>b. WokenInv'
  <2>1. \A u \in runnable' : state'[u] = "stopped"
    BY <1>1, <1>2 DEF SleepInv, WokenInv, TypeOK
  <2>2. (\E u \in Tasks : state'[u] = "waking") => log_receiver' \in Tasks /\ log_receiver' \notin runnable'
    BY <1>1, <1>2 DEF SleepInv, WokenInv
  <2> QED BY <2>1, <2>2 DEF WokenInv
<1>c. t \in Woken
  BY <1>1 DEF Woken
<1>3. \A u \in Tasks : Sleeps(u)' <=> u # t /\ Sleeps(u)
  BY <1>2 DEF Sleeps
<1>4. \A u \in Tasks : /\ WaitsNowhere(u)' <=> WaitsNowhere(u)
                       /\ WaitsOnceAsSender(u)' <=> WaitsOnceAsSender(u)
                       /\ WaitsOnceAsReceiver(u)' <=> WaitsOnceAsReceiver(u)
  BY <1>1 DEF WaitsNowhere, WaitsOnceAsSender, WaitsOnceAsReceiver, WaitsAsSender, WaitsAsReceiver
<1>5. \A p \in Pipes : /\ sender_waiting_for[p] > 0 => sender[p] # t
                       /\ receiver_waiting_for[p] > 0 => receiver[p] # t
  BY <1>c, WhoWaits
<1>6. \A p \in Pipes : sender_waiting_for'[p] > 0 => sender'[p] \in Tasks /\ state'[sender'[p]] = "stopped"
  BY <1>1, <1>2, <1>5 DEF SleepInv
<1>7. \A p \in Pipes : receiver_waiting_for'[p] > 0 => (receiver[p] \in Tasks /\ Sleeps(receiver[p]))'
  <2> SUFFICES ASSUME NEW p \in Pipes, receiver_waiting_for'[p] > 0
               PROVE  (receiver[p] \in Tasks /\ Sleeps(receiver[p]))'
    OBVIOUS
  <2>1. receiver'[p] = receiver[p] /\ receiver[p] \in Tasks \ {t} /\ Sleeps(receiver[p])
    BY <1>1, <1>5 DEF SleepInv
  <2> QED BY <2>1, <1>2 DEF Sleeps
<1>8. \A u \in Tasks : Sleeps(u)' =>
        IF u \in Woken' THEN WaitsNowhere(u)' ELSE WaitsOnceAsSender(u)' \/ WaitsOnceAsReceiver(u)'
  BY <1>a, <1>3, <1>4 DEF SleepInv
<1>9. \A u \in Woken' : Sleeps(u)'
  BY <1>a, <1>3, WokenTasks DEF SleepInv
<1>10. \A u \in Tasks : state'[u] = "blocks" =>
         receiver'[asks'[u].pipe] = u /\ asks'[u].amount > 0 /\ asks'[u].pipe \in pipes'
  BY <1>1, <1>2 DEF SleepInv
<1>11. \A p \in Pipes \ pipes' : sender_waiting_for'[p] = 0 /\ receiver_waiting_for'[p] = 0
  BY <1>1 DEF SleepInv
<1> QED BY <1>b, <1>6, <1>7, <1>8, <1>9, <1>10, <1>11 DEF SleepInv

\* A task that is awake begins to wait at one end, which is its own.
LEMMA SleepBegins ==
  ASSUME TypeOK, SleepInv, NEW t \in Tasks, ~ Sleeps(t), NEW p \in pipes, NEW n \in Nat \ {0},
         \/ /\ receiver[p] = t /\ receiver_waiting_for' = [receiver_waiting_for EXCEPT ![p] = n]
            /\ UNCHANGED <<sender, receiver, sender_waiting_for>>
            /\ state' = [state EXCEPT ![t] = "stopping"]
         \/ /\ sender[p] \in {t, None} /\ sender' = [sender EXCEPT ![p] = t]
            /\ sender_waiting_for' = [sender_waiting_for EXCEPT ![p] = n]
            /\ UNCHANGED <<receiver, receiver_waiting_for>>
            /\ state' = [state EXCEPT ![t] = "stopped"],
         UNCHANGED <<pipes, asks>>, Woken' = Woken, WokenInv'
  PROVE  SleepInv'
<1>0. p \in Pipes
  BY DEF TypeOK
<1>a. /\ \A q \in Pipes : ~ WaitsAsSender(t, q) /\ ~ WaitsAsReceiver(t, q)
      /\ t \notin Woken
      /\ \A q \in Pipes : /\ sender[q] \in {t, None} => sender_waiting_for[q] = 0
                          /\ receiver[q] \in {t, None} => receiver_waiting_for[q] = 0
  BY AwakeWaitsNowhere DEF WaitsNowhere
<1>t. \A q \in Pipes : sender_waiting_for[q] \in Nat /\ receiver_waiting_for[q] \in Nat
  BY DEF TypeOK
<1>b. None \notin Tasks
  BY PipesAssumption
<1>e. /\ \A q \in Pipes \ {p} : /\ sender'[q] = sender[q] /\ receiver'[q] = receiver[q]
                                /\ sender_waiting_for'[q] = sender_waiting_for[q]
                                /\ receiver_waiting_for'[q] = receiver_waiting_for[q]
      /\ receiver'[p] = receiver[p]
  BY <1>0 DEF TypeOK
<1>p. \/ /\ sender[p] = sender'[p] /\ sender_waiting_for'[p] = sender_waiting_for[p]
         /\ receiver'[p] = t /\ receiver_waiting_for'[p] = n /\ receiver_waiting_for[p] = 0
         /\ state'[t] = "stopping"
      \/ /\ sender'[p] = t /\ sender_waiting_for'[p] = n /\ sender_waiting_for[p] = 0
         /\ receiver_waiting_for'[p] = receiver_waiting_for[p] /\ state'[t] = "stopped"
  <2>1. CASE /\ receiver[p] = t /\ receiver_waiting_for' = [receiver_waiting_for EXCEPT ![p] = n]
             /\ UNCHANGED <<sender, receiver, sender_waiting_for>>
             /\ state' = [state EXCEPT ![t] = "stopping"]
    BY <1>0, <1>a, <2>1 DEF TypeOK
  <2>2. CASE /\ sender[p] \in {t, None} /\ sender' = [sender EXCEPT ![p] = t]
             /\ sender_waiting_for' = [sender_waiting_for EXCEPT ![p] = n]
             /\ UNCHANGED <<receiver, receiver_waiting_for>>
             /\ state' = [state EXCEPT ![t] = "stopped"]
    BY <1>0, <1>a, <2>2 DEF TypeOK
  <2> QED BY <2>1, <2>2
<1>s. /\ state'[t] \in {"stopping", "stopped"}
      /\ \A u \in Tasks \ {t} : state'[u] = state[u]
  BY <1>p DEF TypeOK
<1>1. \A u \in Tasks : Sleeps(u)' <=> u = t \/ Sleeps(u)
  BY <1>s DEF Sleeps
<1>2. \A u \in Tasks \ {t}, q \in Pipes : /\ WaitsAsSender(u, q)' <=> WaitsAsSender(u, q)
                                          /\ WaitsAsReceiver(u, q)' <=> WaitsAsReceiver(u, q)
  BY <1>e, <1>p DEF WaitsAsSender, WaitsAsReceiver
<1>3. \A u \in Tasks \ {t} : /\ WaitsNowhere(u)' <=> WaitsNowhere(u)
                             /\ WaitsOnceAsSender(u)' <=> WaitsOnceAsSender(u)
                             /\ WaitsOnceAsReceiver(u)' <=> WaitsOnceAsReceiver(u)
  BY <1>2 DEF WaitsNowhere, WaitsOnceAsSender, WaitsOnceAsReceiver
<1>4. WaitsOnceAsSender(t)' \/ WaitsOnceAsReceiver(t)'
  <2>1. \A q \in Pipes \ {p} : ~ WaitsAsSender(t, q)' /\ ~ WaitsAsReceiver(t, q)'
    BY <1>a, <1>e DEF WaitsAsSender, WaitsAsReceiver
  <2>2. \/ WaitsAsSender(t, p)' /\ ~ WaitsAsReceiver(t, p)'
        \/ WaitsAsReceiver(t, p)' /\ ~ WaitsAsSender(t, p)'
    BY <1>0, <1>a, <1>e, <1>p DEF WaitsAsSender, WaitsAsReceiver
  <2> QED BY <1>0, <2>1, <2>2 DEF WaitsOnceAsSender, WaitsOnceAsReceiver
<1>5. \A u \in Tasks : Sleeps(u)' =>
        IF u \in Woken' THEN WaitsNowhere(u)' ELSE WaitsOnceAsSender(u)' \/ WaitsOnceAsReceiver(u)'
  BY <1>1, <1>3, <1>4, <1>a DEF SleepInv
<1>6. \A q \in Pipes : sender_waiting_for'[q] > 0 => sender'[q] \in Tasks /\ state'[sender'[q]] = "stopped"
  <2>1. \A q \in Pipes : sender_waiting_for[q] > 0 => sender[q] \in Tasks \ {t} /\ state[sender[q]] = "stopped"
    BY <1>a, <1>t DEF SleepInv
  <2>2. \A q \in Pipes : (sender_waiting_for[q] > 0 /\ sender'[q] = sender[q]) =>
                           sender'[q] \in Tasks /\ state'[sender'[q]] = "stopped"
    BY <2>1, <1>s
  <2> QED BY <1>e, <1>p, <2>2
<1>7. \A q \in Pipes : receiver_waiting_for'[q] > 0 => (receiver[q] \in Tasks /\ Sleeps(receiver[q]))'
  <2> SUFFICES ASSUME NEW q \in Pipes, receiver_waiting_for'[q] > 0
               PROVE  (receiver[q] \in Tasks /\ Sleeps(receiver[q]))'
    OBVIOUS
  <2>1. receiver'[q] = receiver[q]
    BY <1>e
  <2>2. \/ receiver[q] \in Tasks /\ state[receiver[q]] \in {"stopping", "stopped"} /\ receiver[q] # t
        \/ receiver[q] = t
    BY <1>e, <1>p, <1>a, <1>t DEF SleepInv, Sleeps
  <2> QED BY <2>1, <2>2, <1>s DEF Sleeps
<1>8. \A u \in Woken' : Sleeps(u)'
  BY <1>1, WokenTasks DEF SleepInv
<1>9. \A u \in Tasks : state'[u] = "blocks" =>
        receiver'[asks'[u].pipe] = u /\ asks'[u].amount > 0 /\ asks'[u].pipe \in pipes'
  <2>1. \A u \in Tasks \ {t} : state[u] = "blocks" =>
          receiver[asks[u].pipe] = u /\ asks[u].amount > 0 /\ asks[u].pipe \in pipes
    BY DEF SleepInv
  <2>2. UNCHANGED receiver
    OBVIOUS
  <2> QED BY <1>s, <2>1, <2>2
<1>10. \A q \in Pipes \ pipes' : sender_waiting_for'[q] = 0 /\ receiver_waiting_for'[q] = 0
  BY <1>e DEF SleepInv
<1> QED BY <1>5, <1>6, <1>7, <1>8, <1>9, <1>10 DEF SleepInv

\* Nothing happens to the sleepers when nothing happens.
LEMMA SleepersStay == SleepersInv /\ UNCHANGED vars => SleepersInv'
<1> SUFFICES ASSUME SleepersInv, UNCHANGED vars PROVE SleepersInv'
  OBVIOUS
<1>1. UNCHANGED <<endVars, poolVars, taskVars>>
  BY DEF vars
<1>2. Astray' <=> Astray
  BY <1>1 DEF Astray, taskVars
<1>3. SleepInv => SleepInv'
  BY <1>1 DEF SleepInv, Sleeps, Woken, WokenInv, IsWoken, WaitsNowhere, WaitsOnceAsSender, WaitsOnceAsReceiver,
              WaitsAsSender, WaitsAsReceiver, endVars, poolVars, taskVars
<1> QED BY <1>2, <1>3 DEF SleepersInv

\* Who begins to wait was awake; who is woken is whom the pipe waited for, or the log
\* goes astray.
LEMMA SleepNext == TypeOK /\ PoolInv /\ LockInv /\ DataInv /\ SleepInv /\ [Next]_vars => SleepersInv'
<1> SUFFICES ASSUME TypeOK, PoolInv, LockInv, DataInv, SleepInv, [Next]_vars PROVE SleepersInv'
  OBVIOUS
<1>s. SleepInv' => SleepersInv'
  BY DEF SleepersInv
<1>t. /\ state \in [Tasks -> States] /\ asks \in [Tasks -> [pipe : Pipes, amount : Nat]]
      /\ pipes \subseteq Pipes /\ LogPipe \in Pipes /\ None \notin Tasks
      /\ sender \in [Pipes -> Ends] /\ receiver \in [Pipes -> Ends]
      /\ sender_waiting_for \in [Pipes -> Nat] /\ receiver_waiting_for \in [Pipes -> Nat]
  BY PipesAssumption DEF TypeOK
<1>a. \A t \in Tasks : state[t] \notin {"stopping", "stopped"} =>
        /\ WaitsNowhere(t) /\ t \notin Woken
        /\ \A p \in Pipes : /\ sender[p] \in {t, None} => sender_waiting_for[p] = 0
                            /\ receiver[p] \in {t, None} => receiver_waiting_for[p] = 0
        /\ \A p \in Pipes : /\ sender[p] = Finished => sender_waiting_for[p] = 0
                            /\ receiver[p] = Finished => receiver_waiting_for[p] = 0
  BY AwakeWaitsNowhere DEF Sleeps
<1>n. pipes_lock = None => \A t \in Tasks : state[t] \notin {"blocks", "stopping"}
  BY <1>t DEF LockInv
<1>w. \A p \in Pipes \ pipes : sender_waiting_for[p] = 0 /\ receiver_waiting_for[p] = 0
  BY DEF SleepInv
<1>b. \A t \in Tasks : state[t] = "blocks" =>
        receiver[asks[t].pipe] = t /\ asks[t].amount > 0 /\ asks[t].pipe \in pipes
  BY DEF SleepInv
<1>o. WokenInv
  BY DEF SleepInv
\* One task logs.
<1>g. ASSUME NEW t \in Tasks, state[t] \in Logging
      PROVE  \A u \in Tasks \ {t} : state[u] # "waking"
  BY <1>g DEF DataInv, Logging
\* Nobody else than one task changes its state, and neither falls asleep nor wakes.
<1>k. ASSUME NEW t \in Tasks, NEW s, state[t] \notin {"stopping", "stopped"}, s \notin {"stopping", "stopped"},
             UNCHANGED state \/ GoTo(t, s)
      PROVE  \A u \in Tasks : /\ Sleeps(u)' <=> Sleeps(u)
                              /\ state[u] = "stopped" <=> state'[u] = "stopped"
  <2>1. \A u \in Tasks : state'[u] = state[u] \/ (u = t /\ state'[u] = s)
    BY <1>k, <1>t DEF GoTo
  <2> QED BY <2>1, <1>k DEF Sleeps
<1>1. CASE UNCHANGED vars
  BY <1>1, SleepersStay DEF SleepersInv
\* Nor does it have to do with the log.
<1>l. ASSUME NEW t \in Tasks, NEW s, state[t] \notin Logging \cup {"stopped"}, s # "waking",
             UNCHANGED state \/ GoTo(t, s), UNCHANGED <<runnable, log_receiver>>
      PROVE  Woken' = Woken /\ WokenInv'
  <2>1. \A u \in Tasks : state'[u] = state[u] \/ (u = t /\ state'[u] = s)
    BY <1>l, <1>t DEF GoTo
  <2>2. \A u \in Tasks : /\ state[u] = "stopped" => state'[u] = "stopped"
                         /\ state'[u] = "waking" <=> state[u] = "waking"
    BY <1>l, <2>1 DEF Logging
  <2> QED BY <1>l, <1>o, <2>2, WokenStays
<1>2. ASSUME NEW t \in Tasks, PipeCreate(t) PROVE SleepInv'
  <2>1. PICK p \in Pipes : p = Head(pipe_pool) /\ p \notin pipes
    <3>1. Head(pipe_pool) \in Pipes /\ Head(pipe_pool) \in ToSet(pipe_pool)
      BY <1>2, Tailed DEF PipeCreate, TypeOK
    <3> QED BY <3>1 DEF PoolInv
  <2>2. /\ pipes' = pipes \cup {p} /\ sender' = [sender EXCEPT ![p] = t] /\ receiver' = [receiver EXCEPT ![p] = t]
        /\ sender_waiting_for' = [sender_waiting_for EXCEPT ![p] = 0]
        /\ receiver_waiting_for' = [receiver_waiting_for EXCEPT ![p] = 0]
        /\ UNCHANGED <<state, asks, runnable, log_receiver>>
        /\ pipes_lock = None /\ state[t] = "usr"
    BY <1>2, <2>1 DEF PipeCreate, taskVars
  <2>6. Woken' = Woken /\ WokenInv'
    BY <2>2, <1>l DEF Logging
  <2>3. \A q \in Pipes : /\ sender_waiting_for'[q] = sender_waiting_for[q]
                         /\ sender_waiting_for[q] > 0 => sender'[q] = sender[q]
                         /\ receiver_waiting_for'[q] = receiver_waiting_for[q]
                         /\ receiver_waiting_for[q] > 0 => receiver'[q] = receiver[q]
    BY <1>t, <1>w, <2>1, <2>2
  <2>4. \A u \in Tasks : (Sleeps(u)' <=> Sleeps(u)) /\ (state[u] = "stopped" => state'[u] = "stopped")
    BY <2>2 DEF Sleeps
  <2>5. \A u \in Tasks : state'[u] # "blocks"
    BY <2>2, <1>n
  <2> QED BY <2>2, <2>3, <2>4, <2>5, <2>6, <1>w, SleepKept
<1>3. ASSUME NEW t \in Tasks, Run(t) PROVE SleepInv'
  BY <1>3, SleepRun
<1>4. ASSUME NEW t \in Tasks, Blocks(t) PROVE SleepInv'
  <2>1. ~ Sleeps(t) /\ asks[t].pipe \in pipes /\ asks[t].amount \in Nat \ {0} /\ receiver[asks[t].pipe] = t
    BY <1>4, <1>t, <1>b DEF Blocks, Sleeps
  <2>2. Woken' = Woken /\ WokenInv'
    BY <1>4, <1>l DEF Blocks, Logging
  <2> QED BY <1>4, <2>1, <2>2, SleepBegins DEF Blocks, GoTo, endVars, poolVars
<1>5. ASSUME NEW t \in Tasks, Stops(t) PROVE SleepInv'
  <2>1. /\ state[t] = "stopping" /\ state' = [state EXCEPT ![t] = "stopped"] /\ asks' = [asks EXCEPT ![t] = Nothing]
        /\ UNCHANGED <<endVars, poolVars, runnable>>
    BY <1>5 DEF Stops, GoTo
  <2>3. Woken' = Woken /\ WokenInv'
    BY <1>5, <1>l DEF Stops, Logging
  <2>2. \A u \in Tasks : (Sleeps(u)' <=> Sleeps(u)) /\ (state[u] = "stopped" => state'[u] = "stopped")
                         /\ (state'[u] = "blocks" => state[u] = "blocks" /\ asks'[u] = asks[u])
    BY <2>1, <1>t DEF Sleeps
  <2> QED BY <2>1, <2>2, <2>3, <1>w, <1>b, SleepKept DEF endVars, poolVars
\* What logs without waking anybody: neither before nor after it is somebody woken.
<1>6. ASSUME NEW t \in Tasks, NEW n,
             LogFills(t) \/ LogChecks(t) \/ GetLogPipePanics(t) \/ LogString(t, n)
      PROVE  SleepInv'
  <2>1. /\ state[t] \in {"usr", "logs", "logged"} /\ UNCHANGED <<endVars, poolVars, runnable>>
        /\ \E s \in {"logs", "logged", "checked", "panic"} : GoTo(t, s)
    BY <1>6 DEF LogFills, LogChecks, LogEnds, GetLogPipePanics, LogString
  <2>2. \A u \in Tasks : (Sleeps(u)' <=> Sleeps(u)) /\ (state[u] = "stopped" <=> state'[u] = "stopped")
    BY <2>1, <1>k
  <2>3. \A u \in Tasks : state'[u] = "blocks" => state[u] = "blocks" /\ asks'[u] = asks[u]
    BY <1>6, <1>t DEF LogFills, LogChecks, LogEnds, GetLogPipePanics, LogString, GoTo
  <2>4. Woken' = Woken /\ WokenInv'
    <3>1. \A u \in Tasks : state'[u] = state[u] \/ (u = t /\ state'[u] # "waking")
      BY <2>1, <1>t DEF GoTo
    <3>2. CASE GetLogPipePanics(t) \/ LogString(t, n)
      <4>1. UNCHANGED log_receiver /\ state[t] = "usr"
        BY <3>2 DEF GetLogPipePanics, LogString
      <4>2. \A u \in Tasks : state'[u] = "waking" <=> state[u] = "waking"
        BY <3>1, <4>1, <2>1, <1>t DEF GoTo
      <4> QED BY <1>o, <2>1, <2>2, <4>1, <4>2, WokenStays
    <3>3. CASE LogFills(t) \/ LogChecks(t)
      <4>1. state[t] \in Logging /\ state[t] # "waking"
        BY <3>3 DEF LogFills, LogChecks, Logging
      <4>2. \A u \in Tasks : state[u] # "waking" /\ state'[u] # "waking"
        BY <1>g, <3>1, <4>1
      <4> QED BY <1>o, <2>1, <2>2, <4>2, WokenStays
    <3> QED BY <1>6, <3>2, <3>3
  <2> QED BY <2>1, <2>2, <2>3, <2>4, <1>w, <1>b, SleepKept DEF endVars, poolVars
\* A pipe SWI that wakes nobody.
<1>7. ASSUME NEW t \in Tasks, NEW p \in Pipes, PipeSwi(t, p), UNCHANGED <<runnable, log_receiver>>,
             UNCHANGED <<sender_waiting_for, receiver_waiting_for>>,
             UNCHANGED state \/ GoTo(t, "panic") \/ GoTo(t, "blocks"),
             GoTo(t, "blocks") => receiver'[asks'[t].pipe] = t /\ asks'[t].amount > 0 /\ asks'[t].pipe \in pipes',
             sender_waiting_for[p] > 0 => sender'[p] = sender[p] /\ p \in pipes',
             receiver_waiting_for[p] > 0 => receiver'[p] = receiver[p] /\ p \in pipes',
             \A q \in Pipes \ {p} : sender'[q] = sender[q] /\ receiver'[q] = receiver[q] /\ (q \in pipes => q \in pipes')
      PROVE  SleepInv'
  <2>1. \A u \in Tasks : (Sleeps(u)' <=> Sleeps(u)) /\ (state[u] = "stopped" => state'[u] = "stopped")
    BY <1>7, <1>k DEF PipeSwi
  <2>2. \A u \in Tasks : state'[u] = "blocks" => u = t /\ GoTo(t, "blocks")
    BY <1>7, <1>n, <1>t DEF PipeSwi, GoTo
  <2>3. \A q \in Pipes : /\ sender_waiting_for[q] > 0 => sender'[q] = sender[q]
                         /\ receiver_waiting_for[q] > 0 => receiver'[q] = receiver[q]
    BY <1>7
  <2>4. \A q \in Pipes \ pipes' : sender_waiting_for[q] = 0 /\ receiver_waiting_for[q] = 0
    BY <1>7, <1>t, <1>w
  <2>5. Woken' = Woken /\ WokenInv'
    BY <1>7, <1>l DEF PipeSwi, Logging
  <2> QED BY <1>7, <2>1, <2>2, <2>3, <2>4, <2>5, SleepKept
<1>8. ASSUME NEW t \in Tasks, NEW p \in Pipes, PipePanics(t, p) PROVE SleepInv'
  BY <1>8, <1>7, <1>t, <1>w DEF PipePanics, Panic, endVars, poolVars, GoTo, PipeSwi
<1>9. ASSUME NEW t \in Tasks, NEW p \in Pipes, NEW n \in Amounts, WaitForData(t, p, n) PROVE SleepInv'
  <2>1. /\ PipeSwi(t, p) /\ state[t] = "usr" /\ p \in pipes
        /\ receiver[p] \in {t, None} /\ receiver' = [receiver EXCEPT ![p] = t]
        /\ UNCHANGED <<sender, sender_waiting_for, receiver_waiting_for, pipes, runnable, log_receiver>>
    BY <1>9 DEF WaitForData, PipeSwi, poolVars
  <2>2. receiver_waiting_for[p] = 0 /\ receiver'[p] = t
        /\ \A q \in Pipes \ {p} : receiver'[q] = receiver[q]
    BY <1>a, <1>t, <2>1
  <2>3. UNCHANGED state \/ (GoTo(t, "blocks") /\ asks' = [asks EXCEPT ![t] = [pipe |-> p, amount |-> n]])
    BY <1>9 DEF WaitForData
  <2>4. GoTo(t, "blocks") /\ UNCHANGED state => FALSE
    BY <1>t, <2>1 DEF GoTo
  <2>5. GoTo(t, "blocks") => receiver'[asks'[t].pipe] = t /\ asks'[t].amount > 0 /\ asks'[t].pipe \in pipes'
    BY <1>t, <2>1, <2>2, <2>3, <2>4 DEF Amounts
  <2> QED BY <1>7, <2>1, <2>2, <2>3, <2>5
<1>10. ASSUME NEW t \in Tasks, NEW p \in Pipes, NEW new,
              \/ SetReceiver(t, p, new) \/ SetSender(t, p, new)
              \/ receiver[p] = t /\ NotListening(t, p)
              \/ sender[p] = t /\ NoMoreData(t, p)
       PROVE  SleepInv'
  <2>1. /\ PipeSwi(t, p) /\ state[t] = "usr"
        /\ UNCHANGED <<sender_waiting_for, receiver_waiting_for, state, asks, runnable, log_receiver>>
    BY <1>10 DEF SetReceiver, SetSender, NotListening, NoMoreData, PipeSwi, taskVars
  <2>2. \A q \in Pipes \ {p} : /\ sender'[q] = sender[q] /\ receiver'[q] = receiver[q]
                               /\ q \in pipes => q \in pipes'
    BY <1>10, <1>t DEF SetReceiver, SetSender, NotListening, NoMoreData, free_pipe, poolVars
  <2>a. /\ p \in pipes
        /\ sender[p] \in {t, None, Finished} => sender_waiting_for[p] = 0
        /\ receiver[p] \in {t, None, Finished} => receiver_waiting_for[p] = 0
    BY <1>a, <2>1 DEF PipeSwi
  <2>b. ASSUME SetReceiver(t, p, new)
        PROVE  /\ sender_waiting_for[p] > 0 => sender'[p] = sender[p] /\ p \in pipes'
               /\ receiver_waiting_for[p] > 0 => receiver'[p] = receiver[p] /\ p \in pipes'
    BY <2>a, <2>b DEF SetReceiver, poolVars
  <2>c. ASSUME SetSender(t, p, new)
        PROVE  /\ sender_waiting_for[p] > 0 => sender'[p] = sender[p] /\ p \in pipes'
               /\ receiver_waiting_for[p] > 0 => receiver'[p] = receiver[p] /\ p \in pipes'
    BY <2>a, <2>c DEF SetSender, poolVars
  <2>d. ASSUME receiver[p] = t /\ NotListening(t, p)
        PROVE  /\ sender_waiting_for[p] > 0 => sender'[p] = sender[p] /\ p \in pipes'
               /\ receiver_waiting_for[p] > 0 => receiver'[p] = receiver[p] /\ p \in pipes'
    BY <2>a, <2>d DEF NotListening, free_pipe, poolVars
  <2>e. ASSUME sender[p] = t /\ NoMoreData(t, p)
        PROVE  /\ sender_waiting_for[p] > 0 => sender'[p] = sender[p] /\ p \in pipes'
               /\ receiver_waiting_for[p] > 0 => receiver'[p] = receiver[p] /\ p \in pipes'
    BY <2>a, <2>e DEF NoMoreData, free_pipe, poolVars
  <2>3. /\ sender_waiting_for[p] > 0 => sender'[p] = sender[p] /\ p \in pipes'
        /\ receiver_waiting_for[p] > 0 => receiver'[p] = receiver[p] /\ p \in pipes'
    BY <1>10, <2>b, <2>c, <2>d, <2>e
  <2>5. ~ GoTo(t, "blocks")
    BY <1>t, <2>1 DEF GoTo
  <2> QED BY <1>7, <2>1, <2>2, <2>3, <2>5
<1>11. ASSUME NEW t \in Tasks, NEW p \in Pipes, NEW n \in Amounts, WaitForSpace(t, p, n) PROVE SleepInv'
  <2>1. /\ PipeSwi(t, p) /\ state[t] = "usr" /\ p \in pipes
        /\ sender[p] \in {t, None} /\ sender' = [sender EXCEPT ![p] = t]
        /\ UNCHANGED <<receiver, receiver_waiting_for, pipes, runnable, asks, log_receiver>>
    BY <1>11 DEF WaitForSpace, PipeSwi, poolVars
  <2>2. CASE UNCHANGED <<sender_waiting_for, state>>
    <3>1. sender_waiting_for[p] = 0 /\ \A q \in Pipes \ {p} : sender'[q] = sender[q]
      BY <1>a, <1>t, <2>1
    <3>2. ~ GoTo(t, "blocks")
      BY <1>t, <2>1, <2>2 DEF GoTo
    <3> QED BY <1>7, <1>w, <2>1, <2>2, <3>1, <3>2
  <2>3. CASE sender_waiting_for' = [sender_waiting_for EXCEPT ![p] = n] /\ GoTo(t, "stopped")
    <3>1. n \in Nat \ {0} /\ ~ Sleeps(t)
      BY <2>1, WordAssumption DEF Sleeps, Amounts
    <3>2. Woken' = Woken /\ WokenInv'
      BY <2>1, <2>3, <1>l DEF Logging
    <3> QED BY <2>1, <2>3, <3>1, <3>2, SleepBegins DEF GoTo
  <2> QED BY <1>11, <2>2, <2>3 DEF WaitForSpace
\* What moves an index, and may wake who waits at the other end.
<1>12. ASSUME NEW t \in Tasks, NEW p \in Pipes, PipeSwi(t, p),
              UNCHANGED <<sender, receiver, pipes, state, asks, log_receiver>>,
              \/ UNCHANGED sender_waiting_for /\ \E data \in Nat : WakeReceiver(p, data)
              \/ UNCHANGED receiver_waiting_for /\ \E space \in Nat : WakeSender(p, space)
       PROVE  SleepInv'
  <2>1. \A u \in Tasks : (Sleeps(u)' <=> Sleeps(u)) /\ state[u] # "stopping"
    BY <1>12, <1>n DEF Sleeps, PipeSwi
  <2>2. ASSUME NEW u \in Tasks, Sleeps(u), u \notin Woken, runnable' = runnable \cup {u}
        PROVE  Woken' = Woken \cup {u} /\ WokenInv'
    <3>1. \A w \in Tasks : IsWoken(w)' <=> IsWoken(w)
      BY <1>12 DEF IsWoken
    <3>2. state'[u] = "stopped"
      BY <1>12, <2>1, <2>2 DEF Sleeps
    <3>3. u \notin runnable /\ ~ IsWoken(u)
      BY <2>2 DEF Woken
    <3> QED BY <1>12, <1>o, <2>2, <3>1, <3>2, <3>3 DEF Woken, WokenInv, IsWoken
  <2>3. CASE UNCHANGED <<receiver_waiting_for, sender_waiting_for, runnable>>
    <3>1. Woken' = Woken /\ WokenInv'
      BY <1>12, <1>l, <2>3 DEF PipeSwi, Logging
    <3> QED BY <1>12, <1>w, <1>b, <2>1, <2>3, <3>1, SleepKept
  <2>4. CASE /\ receiver_waiting_for[p] > 0 /\ runnable' = runnable \cup {receiver[p]}
             /\ receiver_waiting_for' = [receiver_waiting_for EXCEPT ![p] = 0]
             /\ UNCHANGED sender_waiting_for
    <3>1. PICK u \in Tasks : u = receiver[p] /\ Sleeps(u) /\ u \notin Woken
      BY <2>4, WhoWaits
    <3>2. Woken' = Woken \cup {u} /\ WokenInv'
      BY <2>2, <2>4, <3>1
    <3> QED BY <1>12, <2>1, <2>4, <3>1, <3>2, SleepersWoken
  <2>5. CASE /\ sender_waiting_for[p] > 0 /\ runnable' = runnable \cup {sender[p]}
             /\ sender_waiting_for' = [sender_waiting_for EXCEPT ![p] = 0]
             /\ UNCHANGED receiver_waiting_for
    <3>1. PICK u \in Tasks : u = sender[p] /\ Sleeps(u) /\ u \notin Woken
      BY <2>5, WhoWaits DEF Sleeps
    <3>2. Woken' = Woken \cup {u} /\ WokenInv'
      BY <2>2, <2>5, <3>1
    <3> QED BY <1>12, <2>1, <2>5, <3>1, <3>2, SleepersWoken
  <2> QED BY <1>12, <1>t, <2>3, <2>4, <2>5 DEF WakeReceiver, WakeSender
<1>d. \A p \in Pipes : data_in_pipe(p) \in Nat /\ space_in_pipe(p) \in Int /\ BlockSize \in Nat
  BY Indices, WordAssumption
\* The log finds who waits, if it is whom it meant to tell,
<1>13. ASSUME NEW t \in Tasks, LogDecides(t) PROVE SleepersInv'
  <2>1. /\ state[t] = "checked" /\ UNCHANGED <<sender, receiver, pipes, sender_waiting_for, runnable>>
        /\ \E s \in {"usr", "waking", "astray"} : GoTo(t, s)
        /\ asks' = asks \/ asks' = [asks EXCEPT ![t] = Nothing]
    BY <1>13 DEF LogDecides, LogEnds, poolVars
  <2>2. \A u \in Tasks : /\ Sleeps(u)' <=> Sleeps(u)
                         /\ state'[u] = "stopped" <=> state[u] = "stopped"
                         /\ state'[u] = "blocks" => state[u] = "blocks" /\ asks'[u] = asks[u]
    BY <2>1, <1>t DEF GoTo, Sleeps
  <2>3. \A u \in Tasks : state[u] # "waking"
    BY <1>g, <2>1 DEF Logging
  <2>4. CASE LogEnds(t, "usr") /\ UNCHANGED receiver_waiting_for
    <3>1. \A u \in Tasks : state'[u] # "waking"
      BY <2>3, <2>4, <1>t DEF LogEnds, GoTo
    <3>2. Woken' = Woken /\ WokenInv'
      BY <1>o, <2>1, <2>2, <2>3, <3>1, WokenStays
    <3> QED BY <1>s, <1>w, <1>b, <2>1, <2>2, <2>4, <3>2, SleepKept
  <2>5. CASE /\ receiver_waiting_for[LogPipe] > 0 /\ GoTo(t, "waking")
             /\ receiver_waiting_for' = [receiver_waiting_for EXCEPT ![LogPipe] = 0]
             /\ log_receiver = receiver[LogPipe] /\ UNCHANGED log_receiver
    <3>1. PICK u \in Tasks : u = receiver[LogPipe] /\ u \notin Woken
      BY <1>t, <2>5, WhoWaits
    <3>2. state'[t] = "waking"
      BY <1>t, <2>5 DEF GoTo
    <3>3. Woken = runnable /\ Woken' = runnable \cup {u}
      BY <2>1, <2>3, <2>5, <3>1, <3>2 DEF Woken, IsWoken
    <3>4. WokenInv'
      BY <1>o, <2>1, <2>2, <2>5, <3>1, <3>3 DEF WokenInv, TypeOK
    <3> QED BY <1>s, <1>t, <2>1, <2>2, <2>5, <3>1, <3>3, <3>4, SleepersWoken
  <2>6. CASE GoTo(t, "astray")
    <3>1. Astray'
      BY <1>t, <2>6 DEF GoTo, Astray
    <3> QED BY <3>1 DEF SleepersInv
  <2> QED BY <1>13, <1>t, <2>4, <2>5, <2>6 DEF LogDecides
\* and makes it runnable, if it has stopped.
<1>23. ASSUME NEW t \in Tasks, LogWakes(t) PROVE SleepersInv'
  <2>1. /\ state[t] = "waking" /\ runnable' = runnable \cup {log_receiver}
        /\ UNCHANGED <<endVars, poolVars>> /\ asks' = [asks EXCEPT ![t] = Nothing]
    BY <1>23 DEF LogWakes, LogEnds
  <2>2. CASE GoTo(t, "astray")
    <3>1. Astray'
      BY <1>t, <2>2 DEF GoTo, Astray
    <3> QED BY <3>1 DEF SleepersInv
  <2>3. CASE GoTo(t, "usr") /\ state[log_receiver] = "stopped"
    <3>1. \A u \in Tasks : /\ Sleeps(u)' <=> Sleeps(u)
                           /\ state'[u] = "stopped" <=> state[u] = "stopped"
                           /\ state'[u] = "blocks" => state[u] = "blocks" /\ asks'[u] = asks[u]
      BY <1>t, <2>1, <2>3 DEF GoTo, Sleeps
    <3>2. \A u \in Tasks : state'[u] # "waking"
      BY <1>g, <1>t, <2>1, <2>3 DEF GoTo, Logging
    <3>3. log_receiver \in Tasks /\ \A u \in Tasks : IsWoken(u) <=> u = log_receiver
      BY <1>o, <2>1 DEF WokenInv, IsWoken
    <3>4. Woken' = Woken
      BY <2>1, <3>2, <3>3 DEF Woken, IsWoken
    <3>5. WokenInv'
      BY <1>o, <2>1, <2>3, <3>1, <3>2, <3>3 DEF WokenInv, TypeOK
    <3> QED BY <1>s, <1>w, <1>b, <2>1, <3>1, <3>4, <3>5, SleepKept DEF endVars, poolVars
  <2> QED BY <1>23, <2>2, <2>3 DEF LogWakes, LogEnds
<1>14. ASSUME NEW t \in Tasks, NEW p \in Pipes, NEW n \in 1 .. BlockSize, SpaceFilled(t, p, n) PROVE SleepInv'
  <2>1. /\ PipeSwi(t, p) /\ UNCHANGED <<sender, receiver, pipes, sender_waiting_for, state, asks, log_receiver>>
        /\ WakeReceiver(p, data_in_pipe(p) + n)
    BY <1>14 DEF SpaceFilled, poolVars
  <2>2. data_in_pipe(p) + n \in Nat
    BY <1>d
  <2> QED BY <1>12, <2>1, <2>2
<1>15. ASSUME NEW t \in Tasks, NEW p \in Pipes, NEW n \in 1 .. BlockSize, DataConsumed(t, p, n) PROVE SleepInv'
  <2>1. /\ PipeSwi(t, p) /\ UNCHANGED <<sender, receiver, pipes, receiver_waiting_for, state, asks, log_receiver>>
        /\ WakeSender(p, space_in_pipe(p) + n)
        /\ n <= data_in_pipe(p)
    BY <1>15 DEF DataConsumed, poolVars
  <2>2. WakeSender(p, space_in_pipe(p) + n) => \E space \in Nat : WakeSender(p, space)
    <3>1. CASE space_in_pipe(p) + n \in Nat
      BY <3>1
    <3>2. CASE space_in_pipe(p) + n < 0
      <4>1. WakeSender(p, space_in_pipe(p) + n) <=> WakeSender(p, 0)
        BY <1>d, <3>2 DEF WakeSender
      <4> QED BY <4>1
    <3> QED BY <1>d, <3>1, <3>2
  <2> QED BY <1>12, <2>1, <2>2
<1>16. ASSUME NEW t \in Tasks, NEW p \in Pipes, NEW new \in Tasks \cup {None}, SetReceiver(t, p, new)
       PROVE  SleepInv'
  BY <1>10, <1>16
<1>17. ASSUME NEW t \in Tasks, NEW p \in Pipes, NEW new \in Tasks \cup {None}, SetSender(t, p, new)
       PROVE  SleepInv'
  BY <1>10, <1>17
<1>18. ASSUME NEW t \in Tasks, NEW p \in Pipes,
              \/ receiver[p] = t /\ NotListening(t, p)
              \/ sender[p] = t /\ NoMoreData(t, p)
       PROVE  SleepInv'
  BY <1>10, <1>18
<1>19. ASSUME NEW t \in Tasks,
              \/ LogFills(t) \/ LogChecks(t) \/ GetLogPipePanics(t)
              \/ \E n \in 1 .. BlockSize : LogString(t, n)
       PROVE  SleepInv'
  BY <1>6, <1>19
<1>20. ASSUME NEW t \in Tasks,
              \/ PipeCreate(t) \/ Run(t) \/ Blocks(t) \/ Stops(t)
              \/ LogFills(t) \/ LogChecks(t) \/ LogDecides(t) \/ LogWakes(t) \/ GetLogPipePanics(t)
              \/ \E n \in 1 .. BlockSize : LogString(t, n)
       PROVE  SleepersInv'
  BY <1>s, <1>20, <1>2, <1>3, <1>4, <1>5, <1>13, <1>19, <1>23
<1>21. ASSUME NEW t \in Tasks, NEW p \in Pipes,
              \/ PipePanics(t, p)
              \/ \E n \in Amounts : WaitForData(t, p, n)
              \/ \E n \in 1 .. BlockSize : DataConsumed(t, p, n)
              \/ \E new \in Tasks \cup {None} : SetReceiver(t, p, new)
              \/ receiver[p] = t /\ NotListening(t, p)
       PROVE  SleepersInv'
  BY <1>s, <1>21, <1>8, <1>9, <1>15, <1>16, <1>18
<1>22. ASSUME NEW t \in Tasks, NEW p \in Pipes,
              \/ \E n \in Amounts : WaitForSpace(t, p, n)
              \/ \E n \in 1 .. BlockSize : SpaceFilled(t, p, n)
              \/ \E new \in Tasks \cup {None} : SetSender(t, p, new)
              \/ sender[p] = t /\ NoMoreData(t, p)
       PROVE  SleepersInv'
  BY <1>s, <1>22, <1>11, <1>14, <1>17, <1>18
<1> QED BY <1>1, <1>20, <1>21, <1>22, StepCases

\* Nobody waits at first; a task begins to wait when there is too little, and what
\* there is grows only where the one that waits is woken once it is enough.
LEMMA ForgetInit == Init => ForgetInv
<1> SUFFICES ASSUME NEW pool \in SetToSeqs(Pipes \ {LogPipe}), Start(pool, None, 1) PROVE ForgetInv
  BY DEF Init
<1> QED BY DEF Start, ForgetInv, NobodyForgotten

\* Every step keeps those that wait waiting for what is not there yet.
LEMMA ForgetNext == TypeOK /\ PoolInv /\ LockInv /\ DataInv /\ ForgetInv /\ [Next]_vars => ForgetInv'
<1> SUFFICES ASSUME TypeOK, PoolInv, LockInv, DataInv, ForgetInv, [Next]_vars PROVE ForgetInv'
  OBVIOUS
<1>t. /\ state \in [Tasks -> States] /\ asks \in [Tasks -> [pipe : Pipes, amount : Nat]]
      /\ sender_waiting_for \in [Pipes -> Nat] /\ receiver_waiting_for \in [Pipes -> Nat]
  BY DEF TypeOK
<1>n. pipes_lock = None => \A t \in Tasks : state[t] # "blocks"
  BY PipesAssumption DEF LockInv
<1>d. \A p \in Pipes : /\ data_in_pipe(p) \in Nat /\ BlockSize \in Nat
                       /\ space_in_pipe(p) = BlockSize - data_in_pipe(p)
                       /\ space_in_pipe(p)' = BlockSize - data_in_pipe(p)'
  BY Indices, WordAssumption DEF space_in_pipe
<1>f. \A p \in Pipes \ {LogPipe} :
        /\ sender_waiting_for[p] > 0 => sender_waiting_for[p] > space_in_pipe(p)
        /\ receiver_waiting_for[p] > 0 => receiver_waiting_for[p] > data_in_pipe(p)
  BY DEF ForgetInv, NobodyForgotten
<1>b. \A t \in Tasks : (state[t] = "blocks" /\ asks[t].pipe # LogPipe) =>
        asks[t].amount > data_in_pipe(asks[t].pipe)
  BY DEF ForgetInv
<1>k. ASSUME \A p \in Pipes \ {LogPipe} :
               \/ /\ data_in_pipe(p)' = data_in_pipe(p)
                  /\ sender_waiting_for'[p] \in {sender_waiting_for[p], 0}
                  /\ receiver_waiting_for'[p] \in {receiver_waiting_for[p], 0}
               \/ /\ sender_waiting_for'[p] > 0 => sender_waiting_for'[p] > space_in_pipe(p)'
                  /\ receiver_waiting_for'[p] > 0 => receiver_waiting_for'[p] > data_in_pipe(p)',
             \A t \in Tasks : state'[t] = "blocks" => /\ state[t] = "blocks" /\ asks'[t] = asks[t]
                                                      /\ data_in_pipe(asks[t].pipe)' = data_in_pipe(asks[t].pipe)
                                                         \/ asks[t].pipe = LogPipe
      PROVE  ForgetInv'
  <2>1. \A p \in Pipes \ {LogPipe} :
          /\ sender_waiting_for'[p] > 0 => sender_waiting_for'[p] > space_in_pipe(p)'
          /\ receiver_waiting_for'[p] > 0 => receiver_waiting_for'[p] > data_in_pipe(p)'
    BY <1>k, <1>d, <1>f
  <2>2. ASSUME NEW t \in Tasks, state'[t] = "blocks", asks'[t].pipe # LogPipe
        PROVE  (asks[t].amount > data_in_pipe(asks[t].pipe))'
    <3>1. PICK p \in Pipes : p = asks[t].pipe
      BY <1>t
    <3>2. asks[t].amount > data_in_pipe(p) /\ asks'[t] = asks[t] /\ data_in_pipe(p)' = data_in_pipe(p)
      BY <1>k, <1>b, <2>2, <3>1
    <3>3. asks'[t].pipe = p
      BY <3>1, <3>2
    <3> QED BY <3>2, <3>3 DEF data_in_pipe
  <2> QED BY <2>1, <2>2 DEF ForgetInv, NobodyForgotten
<1>1. ASSUME UNCHANGED <<write_index, read_index, sender_waiting_for, receiver_waiting_for>>,
             \A t \in Tasks : state'[t] = "blocks" => state[t] = "blocks" /\ asks'[t] = asks[t]
      PROVE  ForgetInv'
  <2>1. \A p \in Pipes : data_in_pipe(p)' = data_in_pipe(p)
    BY <1>1, DataStays
  <2> QED BY <1>1, <1>k, <1>t, <2>1
<1>2. ASSUME \/ UNCHANGED vars
             \/ \E t \in Tasks : Run(t) \/ Stops(t) \/ GetLogPipePanics(t)
             \/ \E t \in Tasks, n \in 1 .. BlockSize : LogString(t, n)
             \/ \E t \in Tasks, p \in Pipes :
                  \/ PipePanics(t, p)
                  \/ \E new \in Tasks \cup {None} : SetReceiver(t, p, new) \/ SetSender(t, p, new)
                  \/ NotListening(t, p) \/ NoMoreData(t, p)
      PROVE  ForgetInv'
  <2>1. UNCHANGED <<write_index, read_index, sender_waiting_for, receiver_waiting_for>>
    BY <1>2 DEF vars, Run, Stops, GetLogPipePanics, LogString, PipePanics, Panic,
                SetReceiver, SetSender, NotListening, NoMoreData, endVars, indexVars
  <2>2. \A t \in Tasks : state'[t] = "blocks" => state[t] = "blocks" /\ asks'[t] = asks[t]
    BY <1>2, <1>t DEF vars, Run, Stops, GetLogPipePanics, LogString, PipePanics, Panic,
                SetReceiver, SetSender, NotListening, NoMoreData, GoTo, taskVars
  <2> QED BY <1>1, <2>1, <2>2
<1>3. ASSUME NEW t \in Tasks, PipeCreate(t) PROVE ForgetInv'
  <2>1. PICK p \in Pipes : p = Head(pipe_pool)
    BY <1>3, Tailed DEF PipeCreate, TypeOK
  <2>2. \A q \in Pipes \ {p} : data_in_pipe(q)' = data_in_pipe(q)
    BY <1>3, <2>1, DataMoves
  <2>3. /\ sender_waiting_for' = [sender_waiting_for EXCEPT ![p] = 0]
        /\ receiver_waiting_for' = [receiver_waiting_for EXCEPT ![p] = 0]
        /\ UNCHANGED <<state, asks>>
        /\ pipes_lock = None
    BY <1>3, <2>1 DEF PipeCreate, taskVars
  <2>4. /\ sender_waiting_for'[p] = 0 /\ receiver_waiting_for'[p] = 0
        /\ \A q \in Pipes \ {p} : /\ sender_waiting_for'[q] = sender_waiting_for[q]
                                  /\ receiver_waiting_for'[q] = receiver_waiting_for[q]
    BY <1>t, <2>1, <2>3
  <2> QED BY <1>k, <1>n, <2>2, <2>3, <2>4
<1>4. ASSUME NEW t \in Tasks, Blocks(t) PROVE ForgetInv'
  <2>1. /\ state[t] = "blocks" /\ asks[t].pipe \in Pipes /\ UNCHANGED <<write_index, read_index, sender_waiting_for, asks>>
        /\ receiver_waiting_for' = [receiver_waiting_for EXCEPT ![asks[t].pipe] = asks[t].amount]
        /\ state' = [state EXCEPT ![t] = "stopping"]
    BY <1>4, <1>t DEF Blocks, GoTo, indexVars
  <2>2. \A p \in Pipes : data_in_pipe(p)' = data_in_pipe(p)
    BY <2>1, DataStays
  <2>3. \A p \in Pipes \ {LogPipe} :
          \/ receiver_waiting_for'[p] = receiver_waiting_for[p]
          \/ receiver_waiting_for'[p] > data_in_pipe(p)
    BY <1>b, <1>t, <2>1
  <2>4. \A p \in Pipes \ {LogPipe} :
          /\ sender_waiting_for'[p] > 0 => sender_waiting_for'[p] > space_in_pipe(p)'
          /\ receiver_waiting_for'[p] > 0 => receiver_waiting_for'[p] > data_in_pipe(p)'
    BY <1>d, <1>f, <2>1, <2>2, <2>3
  <2>5. \A u \in Tasks : state'[u] = "blocks" => state[u] = "blocks"
    BY <1>t, <2>1
  <2> QED BY <1>k, <1>t, <2>1, <2>2, <2>4, <2>5
<1>5. ASSUME NEW t \in Tasks, LogFills(t) PROVE ForgetInv'
  <2>1. /\ UNCHANGED <<sender_waiting_for, receiver_waiting_for, asks>> /\ state' = [state EXCEPT ![t] = "logged"]
    BY <1>5 DEF LogFills, GoTo, endVars
  <2>2. \A q \in Pipes \ {LogPipe} : data_in_pipe(q)' = data_in_pipe(q)
    BY <1>5, PipesAssumption, DataMoves
  <2>3. \A u \in Tasks : state'[u] = "blocks" => state[u] = "blocks"
    BY <1>t, <2>1
  <2> QED BY <1>k, <1>t, <2>1, <2>2, <2>3
<1>6. ASSUME NEW t \in Tasks, LogChecks(t) \/ LogDecides(t) \/ LogWakes(t) PROVE ForgetInv'
  <2>1. /\ UNCHANGED <<sender_waiting_for, write_index, read_index>>
        /\ receiver_waiting_for' = receiver_waiting_for
           \/ receiver_waiting_for' = [receiver_waiting_for EXCEPT ![LogPipe] = 0]
        /\ asks' = asks \/ asks' = [asks EXCEPT ![t] = Nothing]
        /\ state[t] # "blocks" /\ \E s \in {"panic", "usr", "checked", "waking", "astray"} : GoTo(t, s)
    BY <1>6 DEF LogChecks, LogDecides, LogWakes, LogEnds, endVars, indexVars
  <2>2. \A p \in Pipes : data_in_pipe(p)' = data_in_pipe(p)
    BY <2>1, DataStays
  <2>3. \A u \in Tasks : state'[u] = "blocks" => state[u] = "blocks" /\ asks'[u] = asks[u]
    BY <1>t, <2>1 DEF GoTo
  <2>4. \A p \in Pipes \ {LogPipe} : receiver_waiting_for'[p] = receiver_waiting_for[p]
    BY <1>t, <2>1
  <2> QED BY <1>k, <1>t, <2>1, <2>2, <2>3, <2>4
<1>7. ASSUME NEW t \in Tasks, NEW p \in Pipes, NEW n \in Amounts, WaitForData(t, p, n) PROVE ForgetInv'
  <2>1. /\ pipes_lock = None /\ UNCHANGED <<write_index, read_index, sender_waiting_for, receiver_waiting_for>>
    BY <1>7 DEF WaitForData, PipeSwi, indexVars
  <2>2. CASE UNCHANGED <<state, asks>>
    BY <1>1, <2>1, <2>2
  <2>3. CASE /\ data_in_pipe(p) < n /\ state' = [state EXCEPT ![t] = "blocks"]
             /\ asks' = [asks EXCEPT ![t] = [pipe |-> p, amount |-> n]]
    <3>1. \A q \in Pipes : data_in_pipe(q)' = data_in_pipe(q)
      BY <2>1, DataStays
    <3>2. NobodyForgotten'
      BY <1>d, <1>f, <2>1, <3>1 DEF NobodyForgotten
    <3>3. \A u \in Tasks : state'[u] = "blocks" => u = t
      BY <1>t, <1>n, <2>1, <2>3
    <3>4. asks'[t].pipe = p /\ asks'[t].amount = n
      BY <1>t, <2>3
    <3>5. (asks[t].amount > data_in_pipe(asks[t].pipe))'
      <4>1. data_in_pipe(p)' < n
        BY <2>3, <3>1
      <4> QED BY <1>d, <3>1, <3>4, <4>1 DEF data_in_pipe, Amounts
    <3> QED BY <3>2, <3>3, <3>5 DEF ForgetInv
  <2>4. n \in Nat
    BY WordAssumption DEF Amounts
  <2>5. \/ UNCHANGED <<state, asks>>
        \/ /\ ~ (data_in_pipe(p) >= n) /\ state' = [state EXCEPT ![t] = "blocks"]
           /\ asks' = [asks EXCEPT ![t] = [pipe |-> p, amount |-> n]]
    BY <1>7 DEF WaitForData, GoTo
  <2> QED BY <1>d, <2>2, <2>3, <2>4, <2>5
<1>8. ASSUME NEW t \in Tasks, NEW p \in Pipes, NEW n \in Amounts, WaitForSpace(t, p, n) PROVE ForgetInv'
  <2>1. /\ pipes_lock = None /\ UNCHANGED <<write_index, read_index, receiver_waiting_for, asks>>
    BY <1>8 DEF WaitForSpace, PipeSwi, indexVars
  <2>2. CASE UNCHANGED <<sender_waiting_for, state>>
    BY <1>1, <2>1, <2>2
  <2>3. CASE /\ space_in_pipe(p) < n /\ state' = [state EXCEPT ![t] = "stopped"]
             /\ sender_waiting_for' = [sender_waiting_for EXCEPT ![p] = n]
    <3>1. \A q \in Pipes : data_in_pipe(q)' = data_in_pipe(q)
      BY <2>1, DataStays
    <3>2. \A u \in Tasks : state'[u] # "blocks"
      BY <1>t, <1>n, <2>1, <2>3
    <3>3. \A q \in Pipes : sender_waiting_for'[q] = sender_waiting_for[q] \/ (q = p /\ sender_waiting_for'[q] = n)
      BY <1>t, <2>3
    <3>4. \A q \in Pipes \ {LogPipe} :
            /\ sender_waiting_for'[q] > 0 => sender_waiting_for'[q] > space_in_pipe(q)'
            /\ receiver_waiting_for'[q] > 0 => receiver_waiting_for'[q] > data_in_pipe(q)'
      BY <1>d, <1>f, <2>1, <2>3, <3>1, <3>3 DEF Amounts
    <3> QED BY <1>k, <3>2, <3>4
  <2>4. n \in Nat
    BY WordAssumption DEF Amounts
  <2>5. \/ UNCHANGED <<sender_waiting_for, state>>
        \/ /\ ~ (space_in_pipe(p) >= n) /\ state' = [state EXCEPT ![t] = "stopped"]
           /\ sender_waiting_for' = [sender_waiting_for EXCEPT ![p] = n]
    BY <1>8 DEF WaitForSpace, GoTo
  <2> QED BY <1>d, <2>2, <2>3, <2>4, <2>5
<1>9. ASSUME NEW t \in Tasks, NEW p \in Pipes \ {LogPipe}, NEW n \in 1 .. BlockSize, SpaceFilled(t, p, n)
      PROVE  ForgetInv'
  <2>1. /\ pipes_lock = None /\ UNCHANGED <<sender_waiting_for, state>>
        /\ \/ /\ receiver_waiting_for[p] \in 1 .. data_in_pipe(p) + n
              /\ receiver_waiting_for' = [receiver_waiting_for EXCEPT ![p] = 0]
           \/ /\ receiver_waiting_for[p] \notin 1 .. data_in_pipe(p) + n
              /\ receiver_waiting_for' = receiver_waiting_for
    BY <1>9 DEF SpaceFilled, WakeReceiver, PipeSwi
  <2>2. /\ data_in_pipe(p)' = data_in_pipe(p) + n /\ n \in Nat
        /\ \A q \in Pipes \ {p} : data_in_pipe(q)' = data_in_pipe(q)
    BY <1>9, DataMoves
  <2>3. \A q \in Pipes \ {p} : receiver_waiting_for'[q] = receiver_waiting_for[q]
    BY <1>t, <2>1
  <2>4. receiver_waiting_for'[p] > 0 => receiver_waiting_for'[p] > data_in_pipe(p)'
    BY <1>t, <1>d, <2>1, <2>2
  <2>5. sender_waiting_for'[p] > 0 => sender_waiting_for'[p] > space_in_pipe(p)'
    BY <1>t, <1>d, <1>f, <2>1, <2>2
  <2> QED BY <1>k, <1>n, <2>1, <2>2, <2>3, <2>4, <2>5
<1>10. ASSUME NEW t \in Tasks, NEW p \in Pipes, NEW n \in 1 .. BlockSize, DataConsumed(t, p, n)
       PROVE  ForgetInv'
  <2>1. /\ pipes_lock = None /\ UNCHANGED <<receiver_waiting_for, state>>
        /\ \/ /\ sender_waiting_for[p] \in 1 .. space_in_pipe(p) + n
              /\ sender_waiting_for' = [sender_waiting_for EXCEPT ![p] = 0]
           \/ /\ sender_waiting_for[p] \notin 1 .. space_in_pipe(p) + n
              /\ sender_waiting_for' = sender_waiting_for
    BY <1>10 DEF DataConsumed, WakeSender, PipeSwi
  <2>2. /\ data_in_pipe(p)' = data_in_pipe(p) - n /\ n \in Nat
        /\ \A q \in Pipes \ {p} : data_in_pipe(q)' = data_in_pipe(q)
    BY <1>10, DataMoves
  <2>3. \A q \in Pipes \ {p} : sender_waiting_for'[q] = sender_waiting_for[q]
    BY <1>t, <2>1
  <2>4. sender_waiting_for'[p] > 0 => sender_waiting_for'[p] > space_in_pipe(p)'
    BY <1>t, <1>d, <2>1, <2>2
  <2>5. p # LogPipe /\ receiver_waiting_for'[p] > 0 => receiver_waiting_for'[p] > data_in_pipe(p)'
    BY <1>t, <1>d, <1>f, <2>1, <2>2
  <2> QED BY <1>k, <1>n, <2>1, <2>2, <2>3, <2>4, <2>5
<1>11. \A t \in Tasks, n \in 1 .. BlockSize : LogString(t, n) => ForgetInv'
  BY <1>2
<1>12. \A t \in Tasks, p \in Pipes, new \in Tasks \cup {None} : SetReceiver(t, p, new) \/ SetSender(t, p, new) => ForgetInv'
  BY <1>2
<1>13. \A t \in Tasks, p \in Pipes : PipePanics(t, p) \/ NotListening(t, p) \/ NoMoreData(t, p) => ForgetInv'
  BY <1>2
<1>14. \A t \in Tasks : Run(t) \/ Stops(t) \/ GetLogPipePanics(t) => ForgetInv'
  BY <1>2
<1>15. UNCHANGED vars => ForgetInv'
  BY <1>2
<1> QED BY <1>3, <1>4, <1>5, <1>6, <1>7, <1>8, <1>9, <1>10, <1>11, <1>12, <1>13, <1>14, <1>15, StepCases

\* Blocks in order are in ascending order.
LEMMA InOrderAscends ==
  ASSUME NEW mem \in Seq(Block), InOrder(mem)
  PROVE  Ascending(mem)
<1>1. Len(mem) \in Nat
  OBVIOUS
<1>2. \A i \in 1 .. Len(mem) - 1 : i \in 1 .. Len(mem) /\ i + 1 \in 1 .. Len(mem) /\ i < i + 1
  BY <1>1
<1> QED BY <1>2 DEF InOrder, Ascending, top_of

\* A pipe that is mapped behind the others leaves them in order, and mapped.
LEMMA MappedMore ==
  ASSUME NEW mem \in Seq(Block), InOrder(mem), NEW p \in Pipes, NEW w \in BOOLEAN
  PROVE  LET new == insert_pipe_in_gap(mem, p, w)
         IN  /\ new \in Seq(Block) /\ InOrder(new)
             /\ MappedTwice(p, gap_va(mem), w, new)
             /\ \A q \in Pipes, va \in Nat, x \in BOOLEAN : MappedTwice(q, va, x, mem) => MappedTwice(q, va, x, new)
<1> DEFINE new == insert_pipe_in_gap(mem, p, w)
           l == Len(mem)
           g == gap_va(mem)
<1>1. BlockPages \in Nat \ {0} /\ PipesBase \in Nat
  BY PipeMemoryAssumption
<1>2. /\ new \in Seq(Block) /\ Len(new) = l + 2 /\ l \in Nat
      /\ \A i \in 1 .. l : new[i] = mem[i]
      /\ new[l + 1] = block(p, g, w) /\ new[l + 2] = block(p, g + BlockPages, w)
  BY GapIsFilled
<1>3. g \in Nat /\ (mem = <<>> => g = PipesBase) /\ (mem # <<>> => l \in 1 .. l /\ g = mem[l].va + BlockPages)
  BY <1>2, GapIsBehind
<1>m. \A i \in 1 .. l : mem[i].va \in Nat
  <2>1. \A i \in 1 .. l : mem[i] \in Block
    BY ElementOfSeq
  <2> QED BY <2>1 DEF Block
<1> HIDE DEF new, l, g
<1>4. new[l + 1].va = g /\ new[l + 2].va = g + BlockPages
  BY <1>2 DEF block
<1>5. \A i, j \in 1 .. l : i < j => mem[i].va + BlockPages <= mem[j].va
  BY DEF InOrder, l
<1>6. \A i \in 1 .. l : mem[i].va >= PipesBase /\ mem[i].va + BlockPages <= g
  <2>1. \A i \in 1 .. l : mem[i].va >= PipesBase
    BY DEF InOrder, l
  <2>2. ASSUME NEW i \in 1 .. l PROVE mem[i].va + BlockPages <= g
    <3>1. mem # <<>>
      BY <1>2 DEF l
    <3>2. g = mem[l].va + BlockPages /\ l \in 1 .. l
      BY <1>3, <3>1
    <3>3. i = l \/ i < l
      BY <1>2
    <3> QED BY <1>1, <1>5, <1>m, <3>2, <3>3
  <2> QED BY <2>1, <2>2
<1>7. g >= PipesBase
  <2>1. CASE mem = <<>>
    BY <1>1, <1>3, <2>1
  <2>2. CASE mem # <<>>
    BY <1>1, <1>3, <1>6, <1>m, <2>2
  <2> QED BY <2>1, <2>2
<1>8. InOrder(new)
  <2>1. \A i \in 1 .. l + 2 : i \in 1 .. l \/ i = l + 1 \/ i = l + 2
    BY <1>2
  <2>2. \A i \in 1 .. l : new[i].va = mem[i].va
    BY <1>2
  <2>3. ASSUME NEW i \in 1 .. l + 2, NEW j \in 1 .. l + 2, i < j
        PROVE  new[i].va + BlockPages <= new[j].va
    <3>1. CASE j \in 1 .. l
      <4>1. i \in 1 .. l
        BY <1>2, <2>3, <3>1
      <4> QED BY <1>5, <2>2, <2>3, <3>1, <4>1
    <3>2. CASE j = l + 1
      <4>1. i \in 1 .. l
        BY <1>2, <2>3, <3>2
      <4> QED BY <1>4, <1>6, <2>2, <3>2, <4>1
    <3>3. CASE j = l + 2
      <4>1. CASE i \in 1 .. l
        <5>1. mem[i].va + BlockPages <= g /\ mem[i].va \in Nat
          BY <1>6, <1>m, <4>1
        <5>2. new[i].va = mem[i].va /\ new[j].va = g + BlockPages
          BY <1>4, <2>2, <3>3, <4>1
        <5>3. BlockPages \in Nat /\ g \in Nat
          BY <1>1, <1>3
        <5> QED BY <5>1, <5>2, <5>3
      <4>2. CASE i = l + 1
        BY <1>1, <1>3, <1>4, <3>3, <4>2
      <4> QED BY <1>2, <2>1, <2>3, <3>3, <4>1, <4>2
    <3> QED BY <2>1, <3>1, <3>2, <3>3
  <2>4. ASSUME NEW i \in 1 .. l + 2 PROVE new[i].va >= PipesBase
    <3>1. CASE i \in 1 .. l
      BY <1>6, <2>2, <3>1
    <3>2. CASE i = l + 1 \/ i = l + 2
      BY <1>1, <1>3, <1>4, <1>7, <3>2
    <3> QED BY <2>1, <3>1, <3>2
  <2> QED BY <1>2, <2>3, <2>4 DEF InOrder
<1>9. MappedTwice(p, g, w, new)
  <2>1. l + 1 \in 1 .. Len(new) - 1 /\ (l + 1) + 1 = l + 2
    BY <1>2
  <2> QED BY <1>2, <2>1 DEF MappedTwice
<1>10. ASSUME NEW q \in Pipes, NEW va \in Nat, NEW x \in BOOLEAN, MappedTwice(q, va, x, mem)
       PROVE  MappedTwice(q, va, x, new)
  <2>1. PICK i \in 1 .. l - 1 : mem[i] = block(q, va, x) /\ mem[i + 1] = block(q, va + BlockPages, x)
    BY <1>10 DEF MappedTwice, l
  <2>2. i \in 1 .. Len(new) - 1 /\ new[i] = mem[i] /\ new[i + 1] = mem[i + 1]
    BY <1>2
  <2> QED BY <2>1, <2>2 DEF MappedTwice
<1> QED BY <1>2, <1>8, <1>9, <1>10 DEF new, g

\* The two blocks of a pipe go, and the others stay in order, and mapped.
LEMMA MappedLess ==
  ASSUME NEW mem \in Seq(Block), InOrder(mem), NEW p \in Pipes, NEW w \in BOOLEAN, NEW at \in Nat,
         MappedTwice(p, at, w, mem)
  PROVE  LET new == unmap_and_free(mem, at)
         IN  /\ new \in Seq(Block) /\ InOrder(new)
             /\ \A q \in Pipes, va \in Nat, x \in BOOLEAN :
                  MappedTwice(q, va, x, mem) /\ <<q, x>> # <<p, w>> => MappedTwice(q, va, x, new)
<1> DEFINE new == unmap_and_free(mem, at)
           l == Len(mem)
<1>1. BlockPages \in Nat \ {0}
  BY PipeMemoryAssumption
<1>2. l \in Nat /\ DOMAIN mem = 1 .. l
  BY LenProperties
<1>3. PICK i \in 1 .. l - 1 : mem[i] = block(p, at, w) /\ mem[i + 1] = block(p, at + BlockPages, w)
  BY DEF MappedTwice
<1>4. mem[i].va = at /\ i \in DOMAIN mem
  BY <1>2, <1>3 DEF block
<1>5. PICK f \in 1 .. l :
        /\ mem[f].va = at
        /\ f < l => /\ Len(new) = l - 2
                    /\ \A k \in 1 .. l - 2 : new[k] = IF k < f THEN mem[k] ELSE mem[k + 2]
  BY <1>4, BlocksGo
<1>6. new \in Seq(Block)
  BY BlocksGo
<1>m. \A k \in 1 .. l : mem[k].va \in Nat
  <2>1. \A k \in 1 .. l : mem[k] \in Block
    BY ElementOfSeq
  <2> QED BY <2>1 DEF Block
<1> HIDE DEF new, l
<1>7. \A j, k \in 1 .. l : j < k => mem[j].va + BlockPages <= mem[k].va
  BY DEF InOrder, l
<1>8. f = i
  BY <1>1, <1>2, <1>4, <1>5, <1>7, <1>m
<1>9. /\ Len(new) = l - 2
      /\ \A k \in 1 .. l - 2 : new[k] = IF k < i THEN mem[k] ELSE mem[k + 2]
  BY <1>2, <1>5, <1>8
<1>10. InOrder(new)
  <2>1. ASSUME NEW j \in 1 .. l - 2, NEW k \in 1 .. l - 2, j < k
        PROVE  new[j].va + BlockPages <= new[k].va
    <3>1. PICK a \in 1 .. l, b \in 1 .. l : a < b /\ new[j] = mem[a] /\ new[k] = mem[b]
      <4>1. CASE k < i
        BY <1>2, <1>9, <2>1, <4>1
      <4>2. CASE j < i /\ ~ (k < i)
        <5>1. k + 2 \in 1 .. l /\ j \in 1 .. l /\ j < k + 2
          BY <1>2, <2>1
        <5> QED BY <1>9, <4>2, <5>1
      <4>3. CASE ~ (j < i)
        <5>1. k + 2 \in 1 .. l /\ j + 2 \in 1 .. l /\ j + 2 < k + 2 /\ ~ (k < i)
          BY <1>2, <2>1, <4>3
        <5> QED BY <1>9, <4>3, <5>1
      <4> QED BY <4>1, <4>2, <4>3
    <3> QED BY <1>7, <3>1
  <2>2. ASSUME NEW j \in 1 .. l - 2 PROVE new[j].va >= PipesBase
    <3>1. PICK a \in 1 .. l : new[j] = mem[a]
      <4>1. j \in 1 .. l /\ j + 2 \in 1 .. l
        BY <1>2
      <4> QED BY <1>9, <4>1
    <3> QED BY <3>1 DEF InOrder, l
  <2> QED BY <1>9, <2>1, <2>2 DEF InOrder
<1>11. ASSUME NEW q \in Pipes, NEW va \in Nat, NEW x \in BOOLEAN, MappedTwice(q, va, x, mem), <<q, x>> # <<p, w>>
       PROVE  MappedTwice(q, va, x, new)
  <2>1. PICK j \in 1 .. l - 1 : mem[j] = block(q, va, x) /\ mem[j + 1] = block(q, va + BlockPages, x)
    BY <1>11 DEF MappedTwice, l
  <2>2. j # i /\ j # i + 1 /\ j + 1 # i
    <3>1. mem[j].pipe = q /\ mem[j].writable = x /\ mem[j + 1].pipe = q /\ mem[j + 1].writable = x
      BY <2>1 DEF block
    <3>2. mem[i].pipe = p /\ mem[i].writable = w /\ mem[i + 1].pipe = p /\ mem[i + 1].writable = w
      BY <1>3 DEF block
    <3> QED BY <1>11, <3>1, <3>2
  <2>3. CASE j + 1 < i
    <3>1. j \in 1 .. l - 3 /\ j + 1 \in 1 .. l - 2 /\ j < i
      BY <1>2, <2>3
    <3>2. new[j] = mem[j] /\ new[j + 1] = mem[j + 1]
      BY <1>2, <1>9, <2>3, <3>1
    <3> QED BY <1>2, <1>9, <2>1, <3>1, <3>2 DEF MappedTwice
  <2>4. CASE j > i + 1
    <3>1. j - 2 \in 1 .. l - 3 /\ j - 2 \in 1 .. l - 2 /\ (j - 2) + 1 \in 1 .. l - 2
          /\ ~ (j - 2 < i) /\ ~ ((j - 2) + 1 < i) /\ (j - 2) + 2 = j /\ ((j - 2) + 1) + 2 = j + 1
      BY <1>2, <2>4
    <3>2. new[j - 2] = mem[j] /\ new[(j - 2) + 1] = mem[j + 1]
      BY <1>9, <3>1
    <3>3. j - 2 \in 1 .. Len(new) - 1
      BY <1>2, <1>9, <3>1
    <3>4. new[j - 2] = block(q, va, x) /\ new[(j - 2) + 1] = block(q, va + BlockPages, x)
      BY <2>1, <3>2
    <3>5. \A k \in 1 .. Len(new) - 1 :
            new[k] = block(q, va, x) /\ new[k + 1] = block(q, va + BlockPages, x) => MappedTwice(q, va, x, new)
      BY DEF MappedTwice
    <3> QED BY ONLY <3>3, <3>4, <3>5
  <2> QED BY <2>2, <2>3, <2>4
<1> QED BY <1>6, <1>10, <1>11 DEF new

\* Nothing is at address 0.
LEMMA NothingAtZero ==
  ASSUME NEW mem \in Seq(Block), InOrder(mem)
  PROVE  unmap_and_free(mem, 0) = mem
<1>1. PipesBase \in Nat \ {0}
  BY PipeMemoryAssumption
<1>2. \A i \in DOMAIN mem : mem[i].va # 0
  BY <1>1 DEF InOrder, Block
<1> QED BY <1>2, BlocksGo

\* Nothing is mapped at first.
LEMMA MapInit == Init => MapInv
<1> SUFFICES ASSUME NEW pool \in SetToSeqs(Pipes \ {LogPipe}), Start(pool, None, 1) PROVE MapInv
  BY DEF Init
<1>1. \A s \in Slots : pipe_mem[s] = <<>>
  BY DEF Start
<1>2. InOrder(<<>>)
  <2>1. Len(<<>>) = 0
    OBVIOUS
  <2> QED BY <2>1 DEF InOrder
<1>3. \A p \in pipes : p = LogPipe /\ receiver_va[p] = 0
  BY PipesAssumption DEF Start
<1> QED BY <1>1, <1>2, <1>3 DEF MapInv, SenderMapped, ReceiverMapped

\* An end is mapped when its task waits there, and unmapped when another slot gets
\* it: of the others, that moves no mapping.
LEMMA MapNext == TypeOK /\ TypeOK' /\ PoolInv /\ MapInv /\ [Next]_vars => MapInv'
<1> SUFFICES ASSUME TypeOK, TypeOK', PoolInv, MapInv, [Next]_vars PROVE MapInv'
  OBVIOUS
<1>t1. /\ sender \in [Pipes -> Ends] /\ receiver \in [Pipes -> Ends]
       /\ sender_va \in [Pipes -> Nat] /\ receiver_va \in [Pipes -> Nat]
       /\ pipes \subseteq Pipes /\ pipes' \subseteq Pipes
  BY DEF TypeOK
<1>t2. pipe_mem \in [Slots -> Seq(Block)] /\ DOMAIN pipe_mem' = Slots
  BY DEF TypeOK, Block
<1>t3. \A s \in Slots : pipe_mem[s] \in Seq(Block)
  BY <1>t2
<1>c. /\ None \notin Tasks /\ Finished \notin Tasks /\ None # Finished
      /\ \A t \in Tasks : SlotOf[t] \in Slots
  BY PipesAssumption
<1>i. /\ \A s \in Slots : InOrder(pipe_mem[s])
      /\ \A p \in pipes : SenderMapped(p) /\ ReceiverMapped(p)
      /\ \A p \in pipes \ {LogPipe} : sender[p] = None => sender_va[p] = 0
      /\ \A p \in pipes : receiver[p] = None => receiver_va[p] = 0
  BY DEF MapInv
<1> DEFINE SenderKept(p) == /\ sender'[p] \in {sender[p], Finished} /\ sender_va'[p] = sender_va[p]
                            /\ \A t \in Tasks, va \in Nat : sender[p] = t /\ p # LogPipe
                                 /\ MappedTwice(p, va, TRUE, pipe_mem[SlotOf[t]]) =>
                                    MappedTwice(p, va, TRUE, pipe_mem'[SlotOf[t]])
           ReceiverKept(p) == /\ receiver'[p] \in {receiver[p], Finished} /\ receiver_va'[p] = receiver_va[p]
                              /\ \A t \in Tasks, va \in Nat : receiver[p] = t
                                   /\ MappedTwice(p, va, FALSE, pipe_mem[SlotOf[t]]) =>
                                      MappedTwice(p, va, FALSE, pipe_mem'[SlotOf[t]])
\* An end is kept, or has a mapping now, or none.
<1>k. ASSUME \A s \in Slots : InOrder(pipe_mem'[s]),
             \A p \in pipes' : \/ p \in pipes /\ SenderKept(p)
                               \/ sender_va'[p] = 0
                               \/ sender'[p] \in Tasks /\ MappedTwice(p, sender_va'[p], TRUE, pipe_mem'[SlotOf[sender'[p]]]),
             \A p \in pipes' : \/ p \in pipes /\ ReceiverKept(p)
                               \/ receiver_va'[p] = 0
                               \/ receiver'[p] \in Tasks /\ MappedTwice(p, receiver_va'[p], FALSE, pipe_mem'[SlotOf[receiver'[p]]])
      PROVE  MapInv'
  <2>1. ASSUME NEW p \in pipes'
        PROVE  SenderMapped(p)' /\ (p # LogPipe /\ sender'[p] = None => sender_va'[p] = 0)
    <3>1. CASE p \in pipes /\ SenderKept(p)
      <4>1. p \in pipes /\ sender_va[p] \in Nat /\ sender'[p] \in {sender[p], Finished} /\ sender_va'[p] = sender_va[p]
        BY <1>t1, <3>1
      <4>2. SenderMapped(p)'
        BY <1>i, <1>c, <3>1, <4>1 DEF SenderMapped
      <4> QED BY <1>i, <1>c, <4>1, <4>2
    <3>2. CASE sender_va'[p] = 0
      BY <3>2 DEF SenderMapped
    <3>3. CASE sender'[p] \in Tasks /\ MappedTwice(p, sender_va'[p], TRUE, pipe_mem'[SlotOf[sender'[p]]])
      <4>1. SenderMapped(p)'
        BY <3>3 DEF SenderMapped, MappedTwice
      <4> QED BY <1>c, <3>3, <4>1
    <3> QED BY <1>k, <3>1, <3>2, <3>3
  <2>2. ASSUME NEW p \in pipes'
        PROVE  ReceiverMapped(p)' /\ (receiver'[p] = None => receiver_va'[p] = 0)
    <3>1. CASE p \in pipes /\ ReceiverKept(p)
      <4>1. p \in pipes /\ receiver_va[p] \in Nat /\ receiver'[p] \in {receiver[p], Finished} /\ receiver_va'[p] = receiver_va[p]
        BY <1>t1, <3>1
      <4>2. ReceiverMapped(p)'
        BY <1>i, <1>c, <3>1, <4>1 DEF ReceiverMapped
      <4> QED BY <1>i, <1>c, <4>1, <4>2
    <3>2. CASE receiver_va'[p] = 0
      BY <3>2 DEF ReceiverMapped
    <3>3. CASE receiver'[p] \in Tasks /\ MappedTwice(p, receiver_va'[p], FALSE, pipe_mem'[SlotOf[receiver'[p]]])
      <4>1. ReceiverMapped(p)'
        BY <3>3 DEF ReceiverMapped, MappedTwice
      <4> QED BY <1>c, <3>3, <4>1
    <3> QED BY <1>k, <3>1, <3>2, <3>3
  <2> QED BY <1>k, <2>1, <2>2 DEF MapInv, InOrder
<1>s. ASSUME NEW p \in Pipes, sender'[p] \in {sender[p], Finished}, sender_va'[p] = sender_va[p], UNCHANGED pipe_mem
      PROVE  SenderKept(p)
  BY <1>s
<1>r. ASSUME NEW p \in Pipes, receiver'[p] \in {receiver[p], Finished}, receiver_va'[p] = receiver_va[p], UNCHANGED pipe_mem
      PROVE  ReceiverKept(p)
  BY <1>r
<1> HIDE DEF SenderKept, ReceiverKept
<1>1. ASSUME UNCHANGED mapVars, pipes' \subseteq pipes,
             \A p \in Pipes : sender'[p] \in {sender[p], Finished} /\ receiver'[p] \in {receiver[p], Finished}
      PROVE  MapInv'
  <2>1. \A p \in pipes' : p \in pipes /\ p \in Pipes
    BY <1>1, <1>t1
  <2>2. \A p \in pipes' : SenderKept(p) /\ ReceiverKept(p)
    BY <1>1, <1>s, <1>r, <2>1 DEF mapVars
  <2> QED BY <1>1, <1>i, <1>k, <2>1, <2>2 DEF mapVars
<1>2. ASSUME UNCHANGED <<mapVars, poolVars, sender, receiver>> PROVE MapInv'
  BY <1>1, <1>2 DEF poolVars
<1>3. ASSUME \/ UNCHANGED vars
             \/ \E t \in Tasks : \/ Run(t) \/ Blocks(t) \/ Stops(t) \/ LogFills(t)
                                 \/ LogChecks(t) \/ LogDecides(t) \/ LogWakes(t) \/ GetLogPipePanics(t)
             \/ \E t \in Tasks, n \in 1 .. BlockSize : LogString(t, n)
             \/ \E t \in Tasks, p \in Pipes : PipePanics(t, p)
             \/ \E t \in Tasks, p \in Pipes, n \in 1 .. BlockSize : DataConsumed(t, p, n) \/ SpaceFilled(t, p, n)
      PROVE  MapInv'
  <2>1. UNCHANGED <<mapVars, poolVars, sender, receiver>>
    BY <1>3 DEF vars, Run, Blocks, Stops, LogFills, LogChecks, LogDecides, LogWakes, GetLogPipePanics, LogString,
                PipePanics, Panic, DataConsumed, SpaceFilled, endVars
  <2> QED BY <2>1, <1>2
<1>4. ASSUME NEW t \in Tasks, NEW p \in Pipes, NotListening(t, p) \/ NoMoreData(t, p) PROVE MapInv'
  <2>1. UNCHANGED mapVars /\ pipes' \subseteq pipes
    BY <1>4 DEF NotListening, NoMoreData, free_pipe, poolVars
  <2>2. \A q \in Pipes : sender'[q] \in {sender[q], Finished} /\ receiver'[q] \in {receiver[q], Finished}
    BY <1>4, <1>t1 DEF NotListening, NoMoreData
  <2> QED BY <2>1, <2>2, <1>1
<1>5. ASSUME NEW t \in Tasks, PipeCreate(t) PROVE MapInv'
  <2>1. PICK p \in Pipes : p = Head(pipe_pool)
    BY <1>5, Tailed DEF PipeCreate, TypeOK
  <2>2. /\ pipes' = pipes \cup {p} /\ sender' = [sender EXCEPT ![p] = t] /\ receiver' = [receiver EXCEPT ![p] = t]
        /\ sender_va' = [sender_va EXCEPT ![p] = 0] /\ receiver_va' = [receiver_va EXCEPT ![p] = 0]
        /\ UNCHANGED pipe_mem
    BY <1>5, <2>1 DEF PipeCreate
  <2>3. /\ sender_va'[p] = 0 /\ receiver_va'[p] = 0
        /\ \A q \in Pipes \ {p} : /\ sender_va'[q] = sender_va[q] /\ receiver_va'[q] = receiver_va[q]
                                  /\ sender'[q] = sender[q] /\ receiver'[q] = receiver[q]
    BY <1>t1, <2>1, <2>2
  <2>4. \A q \in Pipes \ {p} : SenderKept(q) /\ ReceiverKept(q) /\ (q \in pipes' => q \in pipes)
    BY <1>s, <1>r, <2>2, <2>3
  <2> QED BY <1>i, <1>k, <1>t1, <2>2, <2>3, <2>4
\* A slot gets a mapping.
<1>m. ASSUME NEW t \in Tasks, NEW p \in Pipes, NEW w \in BOOLEAN,
             pipe_mem' = [pipe_mem EXCEPT ![SlotOf[t]] = insert_pipe_in_gap(pipe_mem[SlotOf[t]], p, w)]
      PROVE  /\ \A s \in Slots : InOrder(pipe_mem'[s])
             /\ MappedTwice(p, gap_va(pipe_mem[SlotOf[t]]), w, pipe_mem'[SlotOf[t]])
             /\ \A s \in Slots, q \in Pipes, va \in Nat, x \in BOOLEAN :
                  MappedTwice(q, va, x, pipe_mem[s]) => MappedTwice(q, va, x, pipe_mem'[s])
  <2> DEFINE mem == pipe_mem[SlotOf[t]]
             more == insert_pipe_in_gap(mem, p, w)
  <2>1. /\ InOrder(more) /\ MappedTwice(p, gap_va(mem), w, more)
        /\ \A q \in Pipes, va \in Nat, x \in BOOLEAN : MappedTwice(q, va, x, mem) => MappedTwice(q, va, x, more)
    BY <1>c, <1>i, <1>t3, MappedMore
  <2>2. \A s \in Slots : (pipe_mem'[s] = more /\ pipe_mem[s] = mem) \/ pipe_mem'[s] = pipe_mem[s]
    BY <1>m, <1>t2
  <2>3. pipe_mem'[SlotOf[t]] = more
    BY <1>m, <1>c, <1>t2
  <2> HIDE DEF more, mem
  <2> QED BY <1>i, <2>1, <2>2, <2>3 DEF mem
<1>6. ASSUME NEW t \in Tasks, NEW p \in Pipes \ {LogPipe}, NEW n \in Amounts, WaitForSpace(t, p, n) PROVE MapInv'
  <2>1. /\ p \in pipes /\ sender[p] \in {t, None} /\ sender' = [sender EXCEPT ![p] = t]
        /\ set_sender_va(t, p) /\ UNCHANGED <<receiver, receiver_va, pipes>>
    BY <1>6 DEF WaitForSpace, PipeSwi, poolVars
  <2>2. sender'[p] = t /\ \A q \in Pipes \ {p} : sender'[q] = sender[q]
    BY <1>t1, <2>1
  <2>3. CASE sender_va[p] # 0
    <3>1. UNCHANGED <<sender_va, pipe_mem>> /\ sender[p] = t
      BY <1>i, <2>1, <2>3 DEF set_sender_va
    <3>2. \A q \in Pipes : sender'[q] \in {sender[q], Finished} /\ receiver'[q] \in {receiver[q], Finished}
      BY <2>1, <2>2, <3>1
    <3> QED BY <1>1, <2>1, <3>1, <3>2 DEF mapVars
  <2>4. CASE sender_va[p] = 0
    <3>1. /\ sender_va' = [sender_va EXCEPT ![p] = gap_va(pipe_mem[SlotOf[t]])]
          /\ pipe_mem' = [pipe_mem EXCEPT ![SlotOf[t]] = insert_pipe_in_gap(pipe_mem[SlotOf[t]], p, TRUE)]
      BY <2>1, <2>4 DEF set_sender_va, Mem
    <3>2. sender_va'[p] = gap_va(pipe_mem[SlotOf[t]]) /\ \A q \in Pipes \ {p} : sender_va'[q] = sender_va[q]
      BY <1>t1, <3>1
    <3>3. /\ \A s \in Slots : InOrder(pipe_mem'[s])
          /\ MappedTwice(p, gap_va(pipe_mem[SlotOf[t]]), TRUE, pipe_mem'[SlotOf[t]])
          /\ \A s \in Slots, q \in Pipes, va \in Nat, x \in BOOLEAN :
               MappedTwice(q, va, x, pipe_mem[s]) => MappedTwice(q, va, x, pipe_mem'[s])
      BY <1>m, <3>1
    <3>4. \A q \in Pipes \ {p} : SenderKept(q)
      BY <1>c, <2>2, <3>2, <3>3 DEF SenderKept
    <3>5. \A q \in Pipes : ReceiverKept(q)
      BY <1>c, <2>1, <3>3 DEF ReceiverKept
    <3>6. sender'[p] \in Tasks /\ MappedTwice(p, sender_va'[p], TRUE, pipe_mem'[SlotOf[sender'[p]]])
      BY <2>2, <3>2, <3>3
    <3> QED BY <1>k, <1>t1, <2>1, <3>3, <3>4, <3>5, <3>6
  <2> QED BY <2>3, <2>4
<1>7. ASSUME NEW t \in Tasks, NEW p \in Pipes, NEW n \in Amounts, WaitForData(t, p, n) PROVE MapInv'
  <2>1. /\ p \in pipes /\ receiver[p] \in {t, None} /\ receiver' = [receiver EXCEPT ![p] = t]
        /\ set_receiver_va(t, p) /\ UNCHANGED <<sender, sender_va, pipes>>
    BY <1>7 DEF WaitForData, PipeSwi, poolVars
  <2>2. receiver'[p] = t /\ \A q \in Pipes \ {p} : receiver'[q] = receiver[q]
    BY <1>t1, <2>1
  <2>3. CASE receiver_va[p] # 0
    <3>1. UNCHANGED <<receiver_va, pipe_mem>> /\ receiver[p] = t
      BY <1>i, <2>1, <2>3 DEF set_receiver_va
    <3>2. \A q \in Pipes : sender'[q] \in {sender[q], Finished} /\ receiver'[q] \in {receiver[q], Finished}
      BY <2>1, <2>2, <3>1
    <3> QED BY <1>1, <2>1, <3>1, <3>2 DEF mapVars
  <2>4. CASE receiver_va[p] = 0
    <3>1. /\ receiver_va' = [receiver_va EXCEPT ![p] = gap_va(pipe_mem[SlotOf[t]])]
          /\ pipe_mem' = [pipe_mem EXCEPT ![SlotOf[t]] = insert_pipe_in_gap(pipe_mem[SlotOf[t]], p, FALSE)]
      BY <2>1, <2>4 DEF set_receiver_va, Mem
    <3>2. receiver_va'[p] = gap_va(pipe_mem[SlotOf[t]]) /\ \A q \in Pipes \ {p} : receiver_va'[q] = receiver_va[q]
      BY <1>t1, <3>1
    <3>3. /\ \A s \in Slots : InOrder(pipe_mem'[s])
          /\ MappedTwice(p, gap_va(pipe_mem[SlotOf[t]]), FALSE, pipe_mem'[SlotOf[t]])
          /\ \A s \in Slots, q \in Pipes, va \in Nat, x \in BOOLEAN :
               MappedTwice(q, va, x, pipe_mem[s]) => MappedTwice(q, va, x, pipe_mem'[s])
      BY <1>m, <3>1
    <3>4. \A q \in Pipes \ {p} : ReceiverKept(q)
      BY <1>c, <2>2, <3>2, <3>3 DEF ReceiverKept
    <3>5. \A q \in Pipes : SenderKept(q)
      BY <1>c, <2>1, <3>3 DEF SenderKept
    <3>6. receiver'[p] \in Tasks /\ MappedTwice(p, receiver_va'[p], FALSE, pipe_mem'[SlotOf[receiver'[p]]])
      BY <2>2, <3>2, <3>3
    <3> QED BY <1>k, <1>t1, <2>1, <3>3, <3>4, <3>5, <3>6
  <2> QED BY <2>3, <2>4
\* The sender's blocks go, if it has any.
<1>8. ASSUME NEW t \in Tasks, NEW p \in Pipes \ {LogPipe}, NEW new \in Tasks \cup {None}, SetSender(t, p, new)
      PROVE  MapInv'
  <2>1. /\ p \in pipes /\ sender[p] \in {t, None} /\ sender' = [sender EXCEPT ![p] = new]
        /\ UNCHANGED <<receiver, receiver_va, pipes>>
    BY <1>8 DEF SetSender, PipeSwi, poolVars
  <2>2. sender'[p] = new /\ \A q \in Pipes \ {p} : sender'[q] = sender[q]
    BY <1>t1, <2>1
  <2>3. CASE SameSlot(sender[p], new)
    <3>1. UNCHANGED <<sender_va, pipe_mem>> /\ sender[p] = t /\ new \in Tasks /\ SlotOf[new] = SlotOf[t]
      BY <1>8, <1>c, <2>1, <2>3 DEF SetSender, SameSlot
    <3>2. /\ \A q \in Pipes \ {p} : SenderKept(q)
          /\ \A q \in Pipes : ReceiverKept(q)
      BY <1>s, <1>r, <2>1, <2>2, <3>1
    <3>3. \/ sender_va'[p] = 0
          \/ sender'[p] \in Tasks /\ MappedTwice(p, sender_va'[p], TRUE, pipe_mem'[SlotOf[sender'[p]]])
      BY <1>i, <2>1, <2>2, <3>1 DEF SenderMapped
    <3> QED BY <1>k, <1>i, <1>t1, <2>1, <3>1, <3>2, <3>3
  <2>4. CASE ~ SameSlot(sender[p], new)
    <3>1. /\ sender_va' = [sender_va EXCEPT ![p] = 0]
          /\ \/ UNCHANGED pipe_mem
             \/ /\ sender[p] = t
                /\ pipe_mem' = [pipe_mem EXCEPT ![SlotOf[t]] = unmap_and_free(pipe_mem[SlotOf[t]], sender_va[p])]
      BY <1>8, <2>1, <2>4 DEF SetSender
    <3>2. sender_va'[p] = 0 /\ \A q \in Pipes \ {p} : sender_va'[q] = sender_va[q]
      BY <1>t1, <3>1
    <3> DEFINE mem == pipe_mem[SlotOf[t]]
               less == unmap_and_free(mem, sender_va[p])
    <3>3. CASE UNCHANGED pipe_mem
      <4>1. /\ \A q \in Pipes \ {p} : SenderKept(q)
            /\ \A q \in Pipes : ReceiverKept(q)
        BY <1>s, <1>r, <2>1, <2>2, <3>2, <3>3
      <4> QED BY <1>k, <1>i, <1>t1, <2>1, <3>2, <3>3, <4>1
    <3>4. CASE sender[p] = t /\ pipe_mem' = [pipe_mem EXCEPT ![SlotOf[t]] = less] /\ sender_va[p] = 0
      <4>1. less = mem
        BY <1>c, <1>i, <1>t3, <3>4, NothingAtZero
      <4>2. pipe_mem' = pipe_mem
        BY <1>t2, <3>4, <4>1
      <4> QED BY <3>3, <4>2
    <3>5. CASE sender[p] = t /\ pipe_mem' = [pipe_mem EXCEPT ![SlotOf[t]] = less] /\ sender_va[p] # 0
      <4>1. MappedTwice(p, sender_va[p], TRUE, mem) /\ sender_va[p] \in Nat
        BY <1>i, <1>t1, <2>1, <3>5 DEF SenderMapped
      <4>2. /\ InOrder(less)
            /\ \A q \in Pipes, va \in Nat, x \in BOOLEAN :
                 MappedTwice(q, va, x, mem) /\ <<q, x>> # <<p, TRUE>> => MappedTwice(q, va, x, less)
        BY <1>c, <1>i, <1>t3, <4>1, MappedLess
      <4>3. \A s \in Slots : (pipe_mem'[s] = less /\ pipe_mem[s] = mem) \/ pipe_mem'[s] = pipe_mem[s]
        BY <1>t2, <3>5
      <4> HIDE DEF less, mem
      <4>4. \A s \in Slots, q \in Pipes, va \in Nat, x \in BOOLEAN :
              MappedTwice(q, va, x, pipe_mem[s]) /\ <<q, x>> # <<p, TRUE>> => MappedTwice(q, va, x, pipe_mem'[s])
        BY <4>2, <4>3
      <4>5. \A s \in Slots : InOrder(pipe_mem'[s])
        BY <1>i, <4>2, <4>3
      <4>6. \A q \in Pipes \ {p} : SenderKept(q)
        BY <1>c, <2>2, <3>2, <4>4 DEF SenderKept
      <4>7. \A q \in Pipes : ReceiverKept(q)
        BY <1>c, <2>1, <4>4 DEF ReceiverKept
      <4> QED BY <1>k, <1>t1, <2>1, <3>2, <4>5, <4>6, <4>7
    <3> QED BY <3>1, <3>3, <3>4, <3>5
  <2> QED BY <2>3, <2>4
<1>9. ASSUME NEW t \in Tasks, NEW p \in Pipes, NEW new \in Tasks \cup {None}, SetReceiver(t, p, new)
      PROVE  MapInv'
  <2>1. /\ p \in pipes /\ receiver[p] \in {t, None} /\ receiver' = [receiver EXCEPT ![p] = new]
        /\ UNCHANGED <<sender, sender_va, pipes>>
    BY <1>9 DEF SetReceiver, PipeSwi, poolVars
  <2>2. receiver'[p] = new /\ \A q \in Pipes \ {p} : receiver'[q] = receiver[q]
    BY <1>t1, <2>1
  <2>3. UNCHANGED pipe_mem
    <3>1. pipe_mem' = pipe_mem \/ pipe_mem' = [pipe_mem EXCEPT ![SlotOf[t]] = unmap_and_free(pipe_mem[SlotOf[t]], 0)]
      BY <1>9 DEF SetReceiver
    <3>2. unmap_and_free(pipe_mem[SlotOf[t]], 0) = pipe_mem[SlotOf[t]]
      BY <1>c, <1>i, <1>t3, NothingAtZero
    <3> QED BY <1>t2, <3>1, <3>2
  <2>4. /\ \A q \in Pipes : SenderKept(q)
        /\ \A q \in Pipes \ {p} : receiver_va'[q] = receiver_va[q]
    BY <1>9, <1>s, <1>t1, <2>1, <2>3 DEF SetReceiver
  <2>5. \A q \in Pipes \ {p} : ReceiverKept(q)
    BY <1>r, <2>2, <2>3, <2>4
  <2>6. CASE SameSlot(receiver[p], new)
    <3>1. UNCHANGED receiver_va /\ receiver[p] = t /\ new \in Tasks /\ SlotOf[new] = SlotOf[t]
      BY <1>9, <1>c, <2>1, <2>6 DEF SetReceiver, SameSlot
    <3>2. \/ receiver_va'[p] = 0
          \/ receiver'[p] \in Tasks /\ MappedTwice(p, receiver_va'[p], FALSE, pipe_mem'[SlotOf[receiver'[p]]])
      BY <1>i, <2>1, <2>2, <2>3, <3>1 DEF ReceiverMapped
    <3> QED BY <1>k, <1>i, <1>t1, <2>1, <2>3, <2>4, <2>5, <3>2
  <2>7. CASE ~ SameSlot(receiver[p], new)
    <3>1. receiver_va'[p] = 0
      BY <1>9, <1>t1, <2>7 DEF SetReceiver
    <3> QED BY <1>k, <1>i, <1>t1, <2>1, <2>3, <2>4, <2>5, <3>1
  <2> QED BY <2>6, <2>7
<1>10. \A t \in Tasks, n \in 1 .. BlockSize : LogString(t, n) => MapInv'
  BY <1>3
<1>11. \A t \in Tasks, p \in Pipes : PipePanics(t, p) => MapInv'
  BY <1>3
<1>12. \A t \in Tasks, p \in Pipes, n \in 1 .. BlockSize : DataConsumed(t, p, n) \/ SpaceFilled(t, p, n) => MapInv'
  BY <1>3
<1>13. ASSUME NEW t \in Tasks,
              \/ Run(t) \/ Blocks(t) \/ Stops(t) \/ LogFills(t)
              \/ LogChecks(t) \/ LogDecides(t) \/ LogWakes(t) \/ GetLogPipePanics(t)
       PROVE  MapInv'
  BY <1>3, <1>13
<1>14. UNCHANGED vars => MapInv'
  BY <1>3
<1> QED
  BY <1>4, <1>5, <1>6, <1>7, <1>8, <1>9, <1>10, <1>11, <1>12, <1>13, <1>14, StepCases

-----------------------------------------------------------------------------
\* The program starts with the invariant.
LEMMA InvInit == Init => Inv
BY TypeInit, PoolInit, LockInit, DataInit, SleepInit, ForgetInit, MapInit DEF Inv, SleepersInv

\* Every step keeps the whole of the invariant.
LEMMA InvNext == Inv /\ [Next]_vars => Inv'
<1> SUFFICES ASSUME Inv, [Next]_vars PROVE Inv'
  OBVIOUS
<1>1. PoolInv' /\ LockInv' /\ DataInv' /\ ForgetInv'
  BY PoolNext, LockNext, DataNext, ForgetNext DEF Inv
<1>2. TypeOK' /\ SleepersInv'
  <2>1. CASE UNCHANGED vars
    BY <2>1, TypeStays, SleepersStay DEF Inv
  <2>2. CASE ~ Astray
    BY <2>2, TypeNext, SleepNext DEF Inv, SleepersInv
  <2> QED BY <2>1, <2>2 DEF Next, Stuck
<1>3. MapInv'
  BY <1>2, MapNext DEF Inv
<1> QED BY <1>1, <1>2, <1>3 DEF Inv

\* The inductive invariant, in every state: what is free is free, the lock is with
\* one task, the indices are in step with the data, and who sleeps is recorded once,
\* where who comes for it looks (pipes.c).
THEOREM PipesInvariant == Spec => []Inv
BY InvInit, InvNext, PTL DEF Spec

\* The indices stay in their range, what is mapped is blocks, and who is woken is
\* a task, whatever the number of tasks and pipes and the size of the block
\* (pipes.c).
THEOREM PipesTypes == Spec => []TypeOK
<1>1. Inv => TypeOK
  BY DEF Inv
<1> QED BY <1>1, PipesInvariant, PTL

\* Nobody sleeps at an end of a pipe on what is already there: PipeSpaceFilled and
\* PipeDataConsumed look at what the other end waits for after they have moved the
\* index, and a task only waits when there is too little.
THEOREM NobodyIsForgotten == Spec => []NobodyForgotten
<1>1. Inv => NobodyForgotten
  BY DEF Inv, ForgetInv
<1> QED BY <1>1, PipesInvariant, PTL

\* Who waits once is counted once.
LEMMA CountedOnce ==
  ASSUME NEW A, NEW B,
         \/ A = {} /\ B = {}
         \/ (\E p : A = {p}) /\ B = {}
         \/ A = {} /\ \E p : B = {p}
  PROVE  Cardinality(A) + Cardinality(B) = IF A = {} /\ B = {} THEN 0 ELSE 1
<1>1. Cardinality({}) = 0
  BY FS_EmptySet
<1>2. \A p : Cardinality({p}) = 1 /\ {p} # {}
  BY FS_Singleton
<1>3. CASE A = {} /\ B = {}
  BY <1>1, <1>3
<1>4. CASE (\E p : A = {p}) /\ B = {}
  <2>1. Cardinality(A) = 1 /\ Cardinality(B) = 0 /\ A # {}
    BY <1>1, <1>2, <1>4
  <2> QED BY <2>1
<1>5. CASE A = {} /\ \E p : B = {p}
  <2>1. Cardinality(A) = 0 /\ Cardinality(B) = 1 /\ B # {}
    BY <1>1, <1>2, <1>5
  <2> QED BY <2>1
<1> QED BY <1>3, <1>4, <1>5

\* A stopped task is runnable, or about to be made so by the log, or waits at one end
\* of one pipe, which will wake it, and nobody is runnable who has not stopped: until
\* LogString, which does without the lock, wakes a task too early, or another one than
\* waits (pipes.c).
THEOREM SleepersAreKnown == Spec => []SleepersKnown
<1>1. ASSUME Inv, ~ Astray PROVE SleepersKnown
  <2>t. TypeOK /\ SleepInv
    BY <1>1 DEF Inv, SleepersInv
  <2>w. \A t \in Tasks : t \in Woken <=> t \in runnable \/ IsWoken(t)
    BY DEF Woken
  <2>1. ASSUME NEW t \in Tasks, state[t] = "stopped"
        PROVE  Cardinality({p \in Pipes : WaitsAsSender(t, p)})
                 + Cardinality({p \in Pipes : WaitsAsReceiver(t, p)})
                 = IF t \in runnable \/ IsWoken(t) THEN 0 ELSE 1
    <3> DEFINE A == {p \in Pipes : WaitsAsSender(t, p)}
               B == {p \in Pipes : WaitsAsReceiver(t, p)}
    <3>1. IF t \in Woken THEN WaitsNowhere(t) ELSE WaitsOnceAsSender(t) \/ WaitsOnceAsReceiver(t)
      BY <2>t, <2>1 DEF SleepInv, Sleeps
    <3>2. WaitsNowhere(t) => A = {} /\ B = {}
      BY DEF WaitsNowhere
    <3>3. WaitsOnceAsSender(t) => (\E p : A = {p}) /\ B = {}
      BY DEF WaitsOnceAsSender
    <3>4. WaitsOnceAsReceiver(t) => A = {} /\ \E p : B = {p}
      BY DEF WaitsOnceAsReceiver
    <3> HIDE DEF A, B
    <3>5. Cardinality(A) + Cardinality(B) = IF A = {} /\ B = {} THEN 0 ELSE 1
      BY <3>1, <3>2, <3>3, <3>4, CountedOnce
    <3>6. A = {} /\ B = {} <=> t \in Woken
      BY <3>1, <3>2, <3>3, <3>4
    <3>7. Cardinality(A) + Cardinality(B) = IF t \in runnable \/ IsWoken(t) THEN 0 ELSE 1
      BY <2>w, <3>5, <3>6
    <3> QED BY <3>7 DEF A, B
  <2>2. \A p \in Pipes :
          /\ sender_waiting_for[p] > 0 => sender[p] \in Tasks /\ state[sender[p]] = "stopped"
          /\ receiver_waiting_for[p] > 0 => receiver[p] \in Tasks /\ state[receiver[p]] \in {"stopping", "stopped"}
    BY <2>t DEF SleepInv, Sleeps
  <2>3. \A t \in runnable : state[t] = "stopped" /\ ~ IsWoken(t)
    BY <2>t DEF SleepInv, WokenInv, IsWoken
  <2> QED BY <2>1, <2>2, <2>3 DEF SleepersKnown
<1>2. Inv => SleepersKnown
  BY <1>1 DEF SleepersKnown
<1> QED BY <1>2, PipesInvariant, PTL

\* The addresses an end uses are those where its slot has the pipe mapped, twice in
\* a row, although the blocks of a former receiver stay (PipeSetReceiver).
THEOREM EndsAreAlwaysMapped == Spec => []EndsAreMapped
<1>1. ASSUME Inv PROVE EndsAreMapped
  <2>1. ASSUME NEW s \in Slots PROVE Ascending(pipe_mem[s])
    <3>1. pipe_mem[s] \in Seq(Block) /\ InOrder(pipe_mem[s])
      BY <1>1 DEF Inv, TypeOK, MapInv, Block
    <3> QED BY <3>1, InOrderAscends
  <2>2. \A p \in pipes : SenderMapped(p) /\ ReceiverMapped(p)
    BY <1>1 DEF Inv, MapInv
  <2> QED BY <2>1, <2>2 DEF EndsAreMapped, SenderMapped, ReceiverMapped
<1>2. Inv => EndsAreMapped
  BY <1>1
<1> QED BY <1>2, PipesInvariant, PTL

-----------------------------------------------------------------------------
\* The stream: so many units of a memory from an index on, which for a pipe is what
\* is between its indices.
Unit == 0 .. Word - 1

Units(mem, i, amount) == [n \in 1 .. amount |-> mem[location(i, n - 1)]]

Unread(p) ==
  IF p \notin pipes THEN <<>> ELSE Units(store[p], read_index[p], data_in_pipe(p))

AllUnread == [p \in Pipes |-> Unread(p)]

\* The units from an index on are those at the locations from it on.
LEMMA UnitsAre ==
  ASSUME NEW mem \in Cells, NEW i \in 0 .. Word - 1, NEW amount \in Nat
  PROVE  /\ Units(mem, i, amount) \in Seq(Unit) /\ Len(Units(mem, i, amount)) = amount
         /\ Units(mem, i, amount) \in [1 .. amount -> Unit]
         /\ \A n \in 1 .. amount : Units(mem, i, amount)[n] = mem[location(i, n - 1)]
<1>1. Word \in Nat /\ BlockSize \in Nat \ {0}
  BY WordAssumption
<1>2. ASSUME NEW n \in 1 .. amount PROVE mem[location(i, n - 1)] \in Unit
  <2>1. i + (n - 1) \in Nat
    BY <1>1
  <2>2. location(i, n - 1) \in 0 .. BlockSize - 1
    BY <1>1, <2>1, Divided DEF location
  <2> QED BY <2>2 DEF Cells, Unit
<1> DEFINE u == Units(mem, i, amount)
<1>3. u = [n \in 1 .. amount |-> mem[location(i, n - 1)]]
  BY DEF Units
<1> HIDE DEF u
<1>4. u \in [1 .. amount -> Unit]
  BY <1>2, <1>3
<1>5. u \in Seq(Unit) /\ Len(u) = amount
  BY <1>4
<1> QED BY <1>3, <1>4, <1>5 DEF u

\* What a pipe holds unread fits in its block,
LEMMA UnreadIs ==
  ASSUME TypeOK, DataInv, NEW p \in Pipes
  PROVE  /\ store[p] \in Cells /\ read_index[p] \in 0 .. Word - 1
         /\ data_in_pipe(p) \in Nat /\ data_in_pipe(p) <= BlockSize
<1>1. store[p] \in Cells /\ read_index[p] \in 0 .. Word - 1 /\ data_in_pipe(p) \in 0 .. Word - 1
  BY Indices DEF TypeOK, Cells
<1>2. Word \in Nat /\ BlockSize \in Nat
  BY WordAssumption
<1> QED BY <1>1, <1>2 DEF DataInv

\* and still does after a step.
LEMMA UnreadNext ==
  ASSUME TypeOK', DataInv', NEW p \in Pipes
  PROVE  /\ store'[p] \in Cells /\ read_index'[p] \in 0 .. Word - 1
         /\ data_in_pipe(p)' \in Nat /\ data_in_pipe(p)' <= BlockSize
<1>2. store'[p] \in Cells /\ read_index'[p] \in 0 .. Word - 1 /\ write_index'[p] \in 0 .. Word - 1
  BY DEF TypeOK, Cells
<1>3. data_in_pipe(p)' = Between(write_index'[p], read_index'[p])
  BY DEF data_in_pipe, Between
<1>4. data_in_pipe(p)' \in 0 .. Word - 1 /\ data_in_pipe(p)' <= BlockSize
  BY <1>2, <1>3, BetweenIs DEF DataInv
<1>5. Word \in Nat
  BY WordAssumption
<1> QED BY <1>2, <1>4, <1>5

\* A pipe that keeps its unread units holds the same.
LEMMA UnreadKept ==
  ASSUME NEW p \in Pipes, p \in pipes' <=> p \in pipes,
         p \in pipes => /\ data_in_pipe(p)' = data_in_pipe(p)
                        /\ \A n \in 1 .. data_in_pipe(p) :
                             store'[p][location(read_index'[p], n - 1)] = store[p][location(read_index[p], n - 1)]
  PROVE  Unread(p)' = Unread(p)
<1>1. CASE p \notin pipes
  BY <1>1 DEF Unread
<1>2. CASE p \in pipes
  <2>1. Unread(p)' = Units(store'[p], read_index'[p], data_in_pipe(p)')
    BY <1>2 DEF Unread
  <2>2. Unread(p) = Units(store[p], read_index[p], data_in_pipe(p))
    BY <1>2 DEF Unread
  <2> QED BY <1>2, <2>1, <2>2 DEF Units
<1> QED BY <1>1, <1>2

\* With the same pipes and the same units unread, nothing happens to the streams.
LEMMA AllKept ==
  ASSUME \A p \in Pipes : Unread(p)' = Unread(p), pipes' = pipes
  PROVE  UNCHANGED <<pipes, AllUnread>>
BY DEF AllUnread

\* What is written behind the unread units is put in.
LEMMA StreamPutIn ==
  ASSUME TypeOK, DataInv, TypeOK', DataInv', NEW p \in pipes, NEW n \in 1 .. BlockSize,
         UNCHANGED <<pipes, read_index>>,
         data_in_pipe(p)' = data_in_pipe(p) + n,
         \A k \in 1 .. data_in_pipe(p) :
           store'[p][location(read_index[p], k - 1)] = store[p][location(read_index[p], k - 1)],
         \A q \in Pipes \ {p} : data_in_pipe(q)' = data_in_pipe(q) /\ store'[q] = store[q]
  PROVE  Stream!PutIn(p)
<1> DEFINE d == data_in_pipe(p)
           u == Unread(p)
<1>p. p \in Pipes /\ BlockSize \in Nat
  BY WordAssumption DEF TypeOK
<1>1. /\ d \in Nat /\ u \in Seq(Unit) /\ Len(u) = d
      /\ \A k \in 1 .. d : u[k] = store[p][location(read_index[p], k - 1)]
  <2>1. /\ store[p] \in Cells /\ read_index[p] \in 0 .. Word - 1 /\ d \in Nat
    BY <1>p, UnreadIs
  <2>2. u = Units(store[p], read_index[p], d)
    BY DEF Unread
  <2> HIDE DEF d, u
  <2> QED BY <2>1, <2>2, UnitsAre
<1>2. PICK v : v = Unread(p)'
  OBVIOUS
<1>3. d + n \in Nat /\ d + n <= BlockSize /\ store'[p] \in Cells /\ read_index[p] \in 0 .. Word - 1
  BY <1>p, UnreadNext
<1>4. v = Units(store'[p], read_index[p], d + n)
  BY <1>2 DEF Unread
<1>5. /\ v \in Seq(Unit) /\ Len(v) = d + n
      /\ \A k \in 1 .. d + n : v[k] = store'[p][location(read_index[p], k - 1)]
  BY <1>3, <1>4, UnitsAre
<1> DEFINE s == [k \in 1 .. n |-> v[d + k]]
<1> HIDE DEF d, u
<1>6. /\ s \in [1 .. n -> Unit] /\ s \in Seq(Unit) /\ Len(s) = n
      /\ \A k \in 1 .. n : s[k] = v[d + k]
  <2>1. \A k \in 1 .. n : v[d + k] \in Unit
    BY <1>1, <1>5
  <2>2. s \in [1 .. n -> Unit] /\ \A k \in 1 .. n : s[k] = v[d + k]
    BY <2>1
  <2> HIDE DEF s
  <2> QED BY <2>2
<1> HIDE DEF s
<1>7. v = u \o s
  <2>1. /\ u \o s \in Seq(Unit) /\ Len(u \o s) = d + n
        /\ \A i \in 1 .. d + n : (u \o s)[i] = IF i <= d THEN u[i] ELSE s[i - d]
    BY <1>1, <1>6, ConcatProperties
  <2>2. ASSUME NEW k \in 1 .. d + n PROVE v[k] = (u \o s)[k]
    <3>1. CASE k <= d
      <4>1. k \in 1 .. d
        BY <1>1, <3>1
      <4>2. v[k] = u[k]
        BY <1>1, <1>5, <4>1 DEF d
      <4>3. (u \o s)[k] = u[k]
        BY <2>1, <3>1
      <4> QED BY <4>2, <4>3
    <3>2. CASE k > d
      <4>1. k - d \in 1 .. n /\ d + (k - d) = k
        BY <1>1, <3>2
      <4>2. (u \o s)[k] = s[k - d]
        <5>1. ~ (k <= d)
          BY <1>1, <3>2
        <5> QED BY <2>1, <5>1
      <4> QED BY <1>6, <4>1, <4>2
    <3>3. k <= d \/ k > d
      BY <1>1
    <3> QED BY <3>1, <3>2, <3>3
  <2> QED BY <1>5, <2>1, <2>2, SeqEqual
<1>8. \A q \in Pipes \ {p} : Unread(q)' = Unread(q)
  BY UnreadKept
<1>9. AllUnread' = [AllUnread EXCEPT ![p] = u \o s]
  BY <1>2, <1>7, <1>8, <1>p DEF AllUnread, u
<1>10. AllUnread[p] = u /\ n \in 1 .. BlockSize - Len(u)
  BY <1>1, <1>3, <1>p DEF AllUnread, u
<1>11. /\ \E m \in 1 .. BlockSize - Len(AllUnread[p]) : \E t \in [1 .. m -> Unit] :
            AllUnread' = [AllUnread EXCEPT ![p] = AllUnread[p] \o t]
       /\ p \in pipes /\ UNCHANGED pipes
  BY <1>6, <1>9, <1>10
<1> QED BY <1>11 DEF Stream!PutIn, AllUnread, Unread, Units, Unit

\* The units the read index moves past are taken out.
LEMMA StreamTakeOut ==
  ASSUME TypeOK, DataInv, TypeOK', DataInv', NEW p \in pipes, NEW n \in 1 .. BlockSize,
         UNCHANGED <<pipes, store>>, n <= data_in_pipe(p),
         data_in_pipe(p)' = data_in_pipe(p) - n, read_index'[p] = Advance(read_index[p], n),
         \A q \in Pipes \ {p} : data_in_pipe(q)' = data_in_pipe(q) /\ read_index'[q] = read_index[q]
  PROVE  Stream!TakeOut(p)
<1> DEFINE d == data_in_pipe(p)
           u == Unread(p)
<1>p. p \in Pipes /\ BlockSize \in Nat /\ BlockSize < Word /\ Word \in Nat
  BY WordAssumption DEF TypeOK
<1>0. d \in Nat /\ store[p] \in Cells /\ read_index[p] \in 0 .. Word - 1 /\ store'[p] \in Cells
      /\ read_index'[p] \in 0 .. Word - 1 /\ d - n \in Nat
  BY <1>p, UnreadIs, UnreadNext
<1>1. /\ u \in Seq(Unit) /\ Len(u) = d
      /\ \A k \in 1 .. d : u[k] = store[p][location(read_index[p], k - 1)]
  <2>1. u = Units(store[p], read_index[p], d)
    BY DEF Unread
  <2> HIDE DEF u, d
  <2> QED BY <1>0, <2>1, UnitsAre
<1>2. PICK v : v = Unread(p)'
  OBVIOUS
<1>3. v = Units(store[p], read_index'[p], d - n)
  BY <1>2 DEF Unread
<1>4. /\ v \in Seq(Unit) /\ Len(v) = d - n
      /\ \A k \in 1 .. d - n : v[k] = store[p][location(read_index'[p], k - 1)]
  BY <1>0, <1>3, UnitsAre
<1> HIDE DEF d, u
<1>5. ASSUME NEW k \in 1 .. d - n PROVE v[k] = u[n + k]
  <2>1. n \in 0 .. Word - 1 /\ k - 1 \in Nat /\ n + (k - 1) = (n + k) - 1 /\ n + k \in 1 .. d
    BY <1>p, <1>0
  <2>2. location(read_index'[p], k - 1) = location(read_index[p], n + (k - 1))
    BY <1>0, <2>1, LocationMoves
  <2>3. u[n + k] = store[p][location(read_index[p], (n + k) - 1)]
    BY <1>1, <2>1
  <2>4. v[k] = store[p][location(read_index'[p], k - 1)]
    BY <1>4
  <2> QED BY <2>1, <2>2, <2>3, <2>4
<1>6. v = SubSeq(u, n + 1, Len(u))
  <2> DEFINE r == SubSeq(u, n + 1, d)
  <2>1. n + 1 \in Int /\ d \in Int /\ \A k \in n + 1 .. d : u[k] \in Unit
    BY <1>0, <1>1
  <2>2. r \in Seq(Unit) /\ Len(r) = IF n + 1 <= d THEN (d - (n + 1)) + 1 ELSE 0
    BY <2>1, SubSeqProperties
  <2>3. \A k \in 1 .. (d - (n + 1)) + 1 : r[k] = u[((n + 1) + k) - 1]
    BY <1>0, <2>1, SubSeqProperties
  <2> HIDE DEF r
  <2>4. Len(r) = d - n
    BY <1>0, <2>2
  <2>5. (d - (n + 1)) + 1 = d - n /\ \A k \in 1 .. d - n : ((n + 1) + k) - 1 = n + k
    BY <1>0
  <2>6. \A k \in 1 .. d - n : r[k] = u[n + k]
    BY <2>3, <2>5
  <2>7. v = r
    BY <1>4, <1>5, <2>2, <2>4, <2>6, SeqEqual
  <2> QED BY <1>1, <2>7 DEF r
<1>7. \A q \in Pipes \ {p} : Unread(q)' = Unread(q)
  BY UnreadKept
<1>8. AllUnread' = [AllUnread EXCEPT ![p] = SubSeq(u, n + 1, Len(u))]
  BY <1>2, <1>6, <1>7, <1>p DEF AllUnread, u
<1>9. AllUnread[p] = u /\ n \in 1 .. Len(u)
  BY <1>0, <1>1, <1>p DEF AllUnread, u, d
<1>10. /\ \E m \in 1 .. Len(AllUnread[p]) :
            AllUnread' = [AllUnread EXCEPT ![p] = SubSeq(AllUnread[p], m + 1, Len(AllUnread[p]))]
       /\ p \in pipes /\ UNCHANGED pipes
  BY <1>8, <1>9
<1> QED BY <1>10 DEF Stream!TakeOut, AllUnread, Unread, Units

\* A pipe that comes into use is empty, and one that goes is not looked at any more.
LEMMA StreamOpen ==
  ASSUME NEW p \in Pipes \ pipes, pipes' = pipes \cup {p}, data_in_pipe(p)' = 0,
         \A q \in pipes : Unread(q)' = Unread(q)
  PROVE  Stream!Open(p)
<1>1. Unread(p) = <<>>
  BY DEF Unread
<1>2. Unread(p)' = <<>>
  <2>1. Unread(p)' = Units(store'[p], read_index'[p], 0)
    BY DEF Unread
  <2>2. \A mem, i : Units(mem, i, 0) = <<>>
    BY DEF Units
  <2> QED BY <2>1, <2>2
<1>3. \A q \in Pipes : Unread(q)' = Unread(q)
  <2>1. \A q \in Pipes \ pipes : q # p => Unread(q)' = Unread(q)
    BY DEF Unread
  <2> QED BY <1>1, <1>2, <2>1
<1>4. UNCHANGED AllUnread
  BY <1>3 DEF AllUnread
<1> QED BY <1>4 DEF Stream!Open, AllUnread, Unread, Units

\* A pipe whose last end closes is a stream that is closed.
LEMMA StreamClose ==
  ASSUME NEW p \in pipes, p \in Pipes, pipes' = pipes \ {p}, \A q \in Pipes \ {p} : Unread(q)' = Unread(q)
  PROVE  Stream!Close(p)
<1>1. Unread(p)' = <<>>
  BY DEF Unread
<1>2. AllUnread' = [AllUnread EXCEPT ![p] = <<>>]
  BY <1>1 DEF AllUnread
<1> QED BY <1>2 DEF Stream!Close, AllUnread, Unread, Units

\* The log holds some text at first.
LEMMA StreamInit == Init => Stream!Init
<1> SUFFICES ASSUME NEW pool \in SetToSeqs(Pipes \ {LogPipe}), Start(pool, None, 1) PROVE Stream!Init
  BY DEF Init
<1> DEFINE Contents == UNION {[1 .. n -> Unit] : n \in 0 .. BlockSize}
<1>1. TypeOK /\ DataInv
  BY TypeInit, DataInit DEF Init
<1>2. pipes = {LogPipe}
  BY DEF Start
<1>3. ASSUME NEW p \in Pipes PROVE Unread(p) \in Contents
  <2>1. CASE p \notin pipes
    <3>1. Unread(p) \in [1 .. 0 -> Unit]
      BY <2>1 DEF Unread
    <3>2. 0 \in 0 .. BlockSize
      BY WordAssumption
    <3> QED BY <3>1, <3>2
  <2>2. CASE p \in pipes
    <3>1. Unread(p) \in [1 .. data_in_pipe(p) -> Unit]
      BY <1>1, <2>2, UnreadIs, UnitsAre DEF Unread
    <3>2. data_in_pipe(p) \in 0 .. BlockSize
      BY <1>1, UnreadIs, WordAssumption
    <3> QED BY <3>1, <3>2
  <2> QED BY <2>1, <2>2
<1>4. \A p \in Pipes \ pipes : Unread(p) = <<>>
  BY DEF Unread
<1> HIDE DEF Contents
<1>5. AllUnread \in [Pipes -> Contents] /\ \A p \in Pipes \ pipes : AllUnread[p] = <<>>
  BY <1>3, <1>4 DEF AllUnread
<1> QED BY <1>2, <1>5 DEF Stream!Init, AllUnread, Unread, Units, Unit, Contents

\* A step of the pipes puts in, takes out, opens or closes, or is none of the stream:
\* what LogString writes before it moves the index is behind what is unread.
LEMMA StepStream == Inv /\ [Next]_vars => [Stream!Next]_(Stream!vars)
<1> SUFFICES ASSUME Inv, [Next]_vars PROVE [Stream!Next]_(Stream!vars)
  OBVIOUS
<1>i. TypeOK /\ DataInv /\ PoolInv /\ TypeOK' /\ DataInv'
  BY InvNext DEF Inv
<1>t. /\ pipes \subseteq Pipes /\ LogPipe \in pipes /\ store \in [Pipes -> Cells]
      /\ read_index \in [Pipes -> 0 .. Word - 1]
  BY <1>i DEF TypeOK, PoolInv, Cells
<1>w. BlockSize \in Nat /\ BlockSize < Word /\ Word \in Nat
  BY WordAssumption
<1>s. ASSUME UNCHANGED pipes, \A p \in Pipes : Unread(p)' = Unread(p)
      PROVE  [Stream!Next]_(Stream!vars)
  <2>1. UNCHANGED <<pipes, AllUnread>>
    BY <1>s, AllKept
  <2> QED BY <2>1 DEF Stream!vars, AllUnread, Unread, Units
<1>n. \A p \in pipes : Stream!Open(p) \/ Stream!PutIn(p) \/ Stream!TakeOut(p) \/ Stream!Close(p) => Stream!Next
  BY <1>t DEF Stream!Next
<1>0. ASSUME UNCHANGED <<write_index, read_index, store>>
      PROVE  \A p \in Pipes : (p \in pipes' <=> p \in pipes) => Unread(p)' = Unread(p)
  BY <1>0, <1>i, DataStays, UnreadKept
<1>1. ASSUME UNCHANGED <<write_index, read_index, store, pipes>> PROVE [Stream!Next]_(Stream!vars)
  BY <1>0, <1>1, <1>s
<1>2. ASSUME \/ UNCHANGED vars
             \/ \E t \in Tasks : \/ Run(t) \/ Blocks(t) \/ Stops(t)
                                 \/ LogChecks(t) \/ LogDecides(t) \/ LogWakes(t) \/ GetLogPipePanics(t)
             \/ \E t \in Tasks, p \in Pipes :
                  \/ PipePanics(t, p)
                  \/ \E n \in Amounts : WaitForData(t, p, n) \/ WaitForSpace(t, p, n)
                  \/ \E new \in Tasks \cup {None} : SetReceiver(t, p, new) \/ SetSender(t, p, new)
      PROVE  [Stream!Next]_(Stream!vars)
  <2>1. UNCHANGED <<write_index, read_index, store, pipes>>
    BY <1>2 DEF vars, Run, Blocks, Stops, LogChecks, LogDecides, LogWakes, GetLogPipePanics, PipePanics, Panic,
                WaitForData, WaitForSpace, SetReceiver, SetSender, indexVars, poolVars
  <2> QED BY <2>1, <1>1
<1>3. ASSUME NEW t \in Tasks, NEW p \in Pipes, NotListening(t, p) \/ NoMoreData(t, p)
      PROVE  [Stream!Next]_(Stream!vars)
  <2>1. p \in pipes /\ UNCHANGED <<write_index, read_index, store>> /\ (pipes' = pipes \/ pipes' = pipes \ {p})
    BY <1>3 DEF NotListening, NoMoreData, PipeSwi, free_pipe, poolVars, indexVars
  <2>2. CASE pipes' = pipes
    BY <1>1, <2>1, <2>2
  <2>3. CASE pipes' = pipes \ {p}
    <3>1. \A q \in Pipes \ {p} : Unread(q)' = Unread(q)
      BY <1>0, <2>1, <2>3
    <3>2. Stream!Close(p)
      BY <2>1, <2>3, <3>1, StreamClose
    <3> QED BY <1>n, <2>1, <3>2
  <2> QED BY <2>1, <2>2, <2>3
<1>4. ASSUME NEW t \in Tasks, PipeCreate(t) PROVE [Stream!Next]_(Stream!vars)
  <2>1. PICK p \in Pipes \ pipes : p = Head(pipe_pool)
    <3>1. Head(pipe_pool) \in Pipes /\ Head(pipe_pool) \in ToSet(pipe_pool)
      BY <1>4, <1>i, Tailed DEF PipeCreate, TypeOK
    <3> QED BY <1>i, <3>1 DEF PoolInv
  <2>2. data_in_pipe(p)' = 0 /\ \A q \in Pipes \ {p} : data_in_pipe(q)' = data_in_pipe(q)
    BY <1>4, <1>i, <2>1, DataMoves
  <2>3. /\ pipes' = pipes \cup {p} /\ read_index' = [read_index EXCEPT ![p] = 0]
        /\ store' = [store EXCEPT ![p] = Fresh]
    BY <1>4, <2>1 DEF PipeCreate
  <2>4. \A q \in pipes : q \in Pipes /\ q \in pipes' /\ read_index'[q] = read_index[q] /\ store'[q] = store[q]
                         /\ data_in_pipe(q)' = data_in_pipe(q)
    BY <1>t, <2>1, <2>2, <2>3
  <2>5. \A q \in pipes : Unread(q)' = Unread(q)
    BY <2>4, UnreadKept
  <2>6. Stream!Open(p)
    BY <2>1, <2>2, <2>3, <2>5, StreamOpen
  <2> QED BY <2>6 DEF Stream!Next
\* What is written behind the unread units of a pipe.
<1>f. ASSUME NEW p \in pipes, NEW n \in 1 .. BlockSize, data_in_pipe(p) + n <= BlockSize,
             store' = [store EXCEPT ![p] = Written(store[p], write_index[p], n)]
      PROVE  /\ \A k \in 1 .. data_in_pipe(p) :
                  store'[p][location(read_index[p], k - 1)] = store[p][location(read_index[p], k - 1)]
             /\ \A q \in Pipes \ {p} : store'[q] = store[q]
  <2>1. /\ p \in Pipes /\ store[p] \in Cells /\ write_index[p] \in 0 .. Word - 1 /\ read_index[p] \in 0 .. Word - 1
        /\ data_in_pipe(p) = Between(write_index[p], read_index[p]) /\ data_in_pipe(p) \in Nat
    BY <1>i, <1>t, Indices
  <2>2. ASSUME NEW k \in 1 .. data_in_pipe(p)
        PROVE  store'[p][location(read_index[p], k - 1)] = store[p][location(read_index[p], k - 1)]
    <3>1. k - 1 \in 0 .. Between(write_index[p], read_index[p]) - 1 /\ n \in Nat
      BY <2>1
    <3>2. Between(write_index[p], read_index[p]) + n <= BlockSize
      BY <1>f, <2>1
    <3>3. Written(store[p], write_index[p], n)[location(read_index[p], k - 1)] = store[p][location(read_index[p], k - 1)]
      BY <2>1, <3>1, <3>2, UnreadStays
    <3> QED BY <1>f, <1>t, <2>1, <3>3
  <2> QED BY <1>f, <1>t, <2>1, <2>2
<1>5. ASSUME NEW t \in Tasks, NEW p \in Pipes, NEW n \in 1 .. BlockSize, SpaceFilled(t, p, n)
      PROVE  [Stream!Next]_(Stream!vars)
  <2>1. p \in pipes /\ UNCHANGED <<pipes, read_index>>
        /\ store' = [store EXCEPT ![p] = Written(store[p], write_index[p], n)]
    BY <1>5 DEF SpaceFilled, PipeSwi, poolVars
  <2>2. data_in_pipe(p)' = data_in_pipe(p) + n /\ data_in_pipe(p) + n <= BlockSize
        /\ \A q \in Pipes \ {p} : data_in_pipe(q)' = data_in_pipe(q)
    BY <1>5, <1>i, DataMoves
  <2>3. Stream!PutIn(p)
    BY <1>f, <1>i, <2>1, <2>2, StreamPutIn
  <2> QED BY <1>n, <2>1, <2>3
<1>6. ASSUME NEW t \in Tasks, LogFills(t) PROVE [Stream!Next]_(Stream!vars)
  <2>1. UNCHANGED <<pipes, read_index, store>>
    BY <1>6 DEF LogFills, poolVars
  <2>2. PICK n \in 1 .. BlockSize : n = asks[t].amount
    BY <1>6, <1>i, <1>t, DataMoves
  <2>3. data_in_pipe(LogPipe)' = data_in_pipe(LogPipe) + n
        /\ \A q \in Pipes \ {LogPipe} : data_in_pipe(q)' = data_in_pipe(q)
    BY <1>6, <1>i, <1>t, <2>2, DataMoves
  <2>4. Stream!PutIn(LogPipe)
    BY <1>i, <1>t, <2>1, <2>3, StreamPutIn
  <2> QED BY <1>n, <1>t, <2>4
<1>7. ASSUME NEW t \in Tasks, NEW p \in Pipes, NEW n \in 1 .. BlockSize, DataConsumed(t, p, n)
      PROVE  [Stream!Next]_(Stream!vars)
  <2>1. p \in pipes /\ UNCHANGED <<pipes, store>>
        /\ read_index' = [read_index EXCEPT ![p] = Advance(read_index[p], n)]
    BY <1>7 DEF DataConsumed, PipeSwi, poolVars
  <2>2. data_in_pipe(p)' = data_in_pipe(p) - n /\ n <= data_in_pipe(p)
        /\ \A q \in Pipes \ {p} : data_in_pipe(q)' = data_in_pipe(q)
    BY <1>7, <1>i, DataMoves
  <2>3. read_index'[p] = Advance(read_index[p], n) /\ \A q \in Pipes \ {p} : read_index'[q] = read_index[q]
    BY <1>t, <2>1
  <2>4. Stream!TakeOut(p)
    BY <1>i, <2>1, <2>2, <2>3, StreamTakeOut
  <2> QED BY <1>n, <2>1, <2>4
<1>8. ASSUME NEW t \in Tasks, NEW n \in 1 .. BlockSize, LogString(t, n) PROVE [Stream!Next]_(Stream!vars)
  <2>1. /\ UNCHANGED <<pipes, write_index, read_index>> /\ n <= space_in_pipe(LogPipe)
        /\ store' = [store EXCEPT ![LogPipe] = Written(store[LogPipe], write_index[LogPipe], n)]
    BY <1>8 DEF LogString, poolVars
  <2>2. \A q \in Pipes : data_in_pipe(q)' = data_in_pipe(q)
    BY <1>i, <2>1, DataStays
  <2>3. data_in_pipe(LogPipe) + n <= BlockSize
    <3>1. data_in_pipe(LogPipe) \in Nat /\ space_in_pipe(LogPipe) = BlockSize - data_in_pipe(LogPipe)
      BY <1>i, <1>t, Indices
    <3> QED BY <1>w, <2>1, <3>1
  <2>4. \A q \in Pipes : Unread(q)' = Unread(q)
    <3>1. Unread(LogPipe)' = Unread(LogPipe)
      BY <1>f, <1>t, <2>1, <2>2, <2>3, UnreadKept
    <3>2. \A q \in Pipes \ {LogPipe} : Unread(q)' = Unread(q)
      BY <1>f, <1>t, <2>1, <2>2, <2>3, UnreadKept
    <3> QED BY <3>1, <3>2
  <2> QED BY <1>s, <2>1, <2>4
<1>9. \A t \in Tasks, p \in Pipes, n \in Amounts : WaitForData(t, p, n) \/ WaitForSpace(t, p, n) => [Stream!Next]_(Stream!vars)
  BY <1>2
<1>10. \A t \in Tasks, p \in Pipes, new \in Tasks \cup {None} :
         SetReceiver(t, p, new) \/ SetSender(t, p, new) => [Stream!Next]_(Stream!vars)
  BY <1>2
<1>11. \A t \in Tasks, p \in Pipes : PipePanics(t, p) => [Stream!Next]_(Stream!vars)
  BY <1>2
<1>12. ASSUME NEW t \in Tasks,
              \/ Run(t) \/ Blocks(t) \/ Stops(t)
              \/ LogChecks(t) \/ LogDecides(t) \/ LogWakes(t) \/ GetLogPipePanics(t)
       PROVE  [Stream!Next]_(Stream!vars)
  BY <1>2, <1>12
<1>13. UNCHANGED vars => [Stream!Next]_(Stream!vars)
  BY <1>2
<1> QED BY <1>3, <1>4, <1>5, <1>6, <1>7, <1>8, <1>9, <1>10, <1>11, <1>12, <1>13, StepCases

\* What goes into a pipe comes out of it, once and in order, for any number of pipes
\* and tasks, any size of block and any interleaving with LogString, which writes the
\* log without the lock (pipes.c).
THEOREM PipesAreStreams == Spec => IsStream
<1> QED BY StreamInit, StepStream, PipesInvariant, PTL DEF Spec, IsStream, Stream!Spec
===============================================================================
