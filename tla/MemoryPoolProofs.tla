--------------------------- MODULE MemoryPoolProofs ---------------------------
(***************************************************************************)
(* Proofs about MemoryPool, for any sizes of nodes, lists and blocks, and  *)
(* any number of threads of which one at most makes large objects.         *)
(***************************************************************************)
EXTENDS MemoryPool, SequenceTheorems, TLAPS

(* The code takes no lock for a large object (memory_pool.cpp:30), which   *)
(* is safe as long as one thread makes them.                               *)
OneBigUser == \A t, u \in BigUsers : t = u

Pieces == [region : DOMAIN regions, from : Nat, size : Nat \ {0}]

-----------------------------------------------------------------------------
(* Arithmetic: a size rounded up is the least of the list that serves it.  *)

LEMMA Divided ==
  ASSUME NEW x \in Nat, NEW n \in Nat \ {0}
  PROVE  /\ x \div n \in Nat
         /\ (x \div n) * n <= x
         /\ x < (x \div n) * n + n
OBVIOUS

LEMMA Products ==
  ASSUME NEW a \in Nat \ {0}, NEW b \in Nat \ {0}
  PROVE  a * b \in Nat \ {0}
OBVIOUS

LEMMA Rounded ==
  ASSUME NEW size \in Nat \ {0}
  PROVE  /\ index(size) \in Nat
         /\ roundup(size) = (index(size) + 1) * node_size
         /\ roundup(size) \in Nat \ {0}
         /\ size <= roundup(size)
<1> DEFINE q == (size + node_size - 1) \div node_size
<1>1. node_size \in Nat \ {0} /\ size + node_size - 1 \in Nat
  BY PoolAssumption
<1>2. q \in Nat /\ q * node_size <= size + node_size - 1 /\ size + node_size - 1 < q * node_size + node_size
  BY <1>1, Divided
<1>3. roundup(size) = q * node_size /\ index(size) = q - 1
  BY DEF roundup, index
<1> HIDE DEF q
<1>4. q # 0
  <2>1. CASE q = 0
    <3>1. q * node_size = 0
      BY <1>1, <2>1
    <3>2. QED
      BY <1>1, <1>2, <3>1
  <2>2. QED
    BY <2>1
<1>5. q * node_size \in Nat \ {0}
  BY <1>1, <1>2, <1>4, Products
<1>6. size <= q * node_size
  BY <1>1, <1>2, <1>5
<1>7. (q - 1) + 1 = q /\ q - 1 \in Nat
  BY <1>2, <1>4
<1>8. QED
  BY <1>3, <1>5, <1>6, <1>7

(* delete_object() puts everything into the first list.                    *)
LEMMA FirstList == Returned = 0 /\ 0 \in 0..(list_num - 1)
<1> DEFINE q == (pointer + node_size - 1) \div node_size
<1>1. node_size \in Nat \ {0} /\ pointer \in 1..node_size /\ list_num \in Nat \ {0}
  BY PoolAssumption
<1>2. q \in Nat /\ q * node_size <= pointer + node_size - 1 /\ pointer + node_size - 1 < q * node_size + node_size
  BY <1>1, Divided
<1>3. Returned = q - 1
  BY DEF Returned, index
<1> HIDE DEF q
<1>4. q = 1
  <2>1. CASE q = 0
    <3>1. q * node_size = 0
      BY <1>1, <2>1
    <3>2. QED
      BY <1>1, <1>2, <3>1
  <2>2. CASE q > 1
    <3>1. q * node_size = 2 * node_size + (q - 2) * node_size
      BY <1>1, <1>2
    <3>2. (q - 2) * node_size >= 0
      BY <1>1, <1>2, <2>2
    <3>3. QED
      BY <1>1, <1>2, <3>1, <3>2
  <2>3. QED
    BY <1>2, <2>1, <2>2
<1>5. QED
  BY <1>1, <1>3, <1>4

-----------------------------------------------------------------------------
(* What makes the properties inductive.                                    *)

FirstPieces == m_free_list[0]

(* The pool is always used up, so that fill() always asks the system, and  *)
(* only the first list ever has anything.                                  *)
UsedUp ==
  /\ Left = 0
  /\ \A i \in Lists : i # 0 => m_free_list[i] = <<>>

ListsAreOwn ==
  /\ \A k \in 1..Len(FirstPieces) :
       /\ FirstPieces[k].from = 0 /\ FirstPieces[k].region \notin freed
       /\ FirstPieces[k].size >= node_size
  /\ \A k, n \in 1..Len(FirstPieces) : FirstPieces[k].region = FirstPieces[n].region => k = n

ObjectsAreOwn ==
  /\ \A o \in objects :
       /\ o.piece.from = 0 /\ o.piece.region \notin freed
       /\ (o.size <= block_size => o.size <= o.piece.size) /\ node_size <= o.piece.size
       /\ \A k \in 1..Len(FirstPieces) : o.piece.region # FirstPieces[k].region
  /\ \A o, q \in objects : o.piece.region = q.piece.region => o = q

(* m_block has one block at most, and only for the thread that is about to *)
(* take it.                                                                *)
BlockIsOwn ==
  /\ m_freememory = <<>> \/ Len(m_freememory) = 1
  /\ \A k \in 1..Len(m_freememory) :
       LET b == m_freememory[k] IN
       /\ b.from = 0 /\ b.size = block_size /\ b.region \notin freed
       /\ \A o \in objects : o.piece.region # b.region
       /\ \A n \in 1..Len(FirstPieces) : FirstPieces[n].region # b.region

CallsInOrder ==
  \A t \in Threads :
    /\ call[t].at # "idle" => t \in BigUsers /\ call[t].size \in Sizes
    /\ call[t].at \in {"idle", "expand"} /\ t \in BigUsers => m_freememory = <<>>
    /\ call[t].at = "back" => Len(m_freememory) = 1
    /\ call[t].at = "pop" => Len(m_freememory) = 1 /\ call[t].block = m_freememory[1]

(* Without a thread that makes large objects there are no blocks.          *)
NoBlocks == BigUsers = {} => m_freememory = <<>>

PoolInv ==
  TypeOK /\ UsedUp /\ ListsAreOwn /\ ObjectsAreOwn /\ BlockIsOwn /\ CallsInOrder /\ NoBlocks

LEMMA PoolInvInit == Init => PoolInv
<1> SUFFICES ASSUME Init PROVE PoolInv
  OBVIOUS
<1>1. TypeOK
  <2>1. /\ regions \in Seq(Nat \ {0}) /\ Len(regions) = 0
        /\ m_freememory \in Seq(Pieces) /\ <<>> \in Seq(Pieces)
    BY DEF Init
  <2>2. Idle \in [at : {"idle", "expand", "back", "pop"}, size : Sizes \union {0},
                  block : Pieces \union {Nothing}]
    BY DEF Idle
  <2>3. m_free_list \in [0..(list_num - 1) -> Seq(Pieces)]
    BY <2>1 DEF Init
  <2>4. call \in [Threads -> [at : {"idle", "expand", "back", "pop"}, size : Sizes \union {0},
                              block : Pieces \union {Nothing}]]
    BY <2>2 DEF Init
  <2>5. QED
    BY <2>1, <2>3, <2>4 DEF Init, TypeOK, Pieces
<1>2. Len(FirstPieces) = 0
  BY FirstList DEF Init, FirstPieces
<1>3. Len(m_freememory) = 0
  BY DEF Init
<1>4. QED
  BY <1>1, <1>2, <1>3
     DEF Init, PoolInv, UsedUp, Left, Lists, ListsAreOwn, ObjectsAreOwn, BlockIsOwn,
         CallsInOrder, NoBlocks, Idle

(* The types, by the name given to the pieces.                             *)
LEMMA Types ==
  TypeOK <=>
    /\ regions \in Seq(Nat \ {0}) /\ freed \subseteq DOMAIN regions
    /\ m_begin \in [region : 0..Len(regions), from : Nat]
    /\ m_free_list \in [0..(list_num - 1) -> Seq(Pieces)]
    /\ m_freememory \in Seq(Pieces)
    /\ objects \subseteq [piece : Pieces, size : Sizes]
    /\ call \in [Threads -> [at : {"idle", "expand", "back", "pop"}, size : Sizes \union {0},
                             block : Pieces \union {Nothing}]]
BY DEF TypeOK, Pieces

(* malloc: what was a piece still is one, and the new region is nobody's.  *)
LEMMA Malloc ==
  ASSUME TypeOK, NEW n \in Nat \ {0}, regions' = Append(regions, n)
  PROVE  /\ regions' \in Seq(Nat \ {0}) /\ Len(regions') = Len(regions) + 1
         /\ DOMAIN regions = 1..Len(regions) /\ DOMAIN regions' = 1..(Len(regions) + 1)
         /\ Len(regions) \in Nat
         /\ regions'[Len(regions) + 1] = n
         /\ Pieces \subseteq Pieces'
         /\ \A size \in Nat \ {0} : Piece(Len(regions) + 1, 0, size) \in Pieces'
         /\ \A p \in Pieces : p.region # Len(regions) + 1
         /\ Len(regions) + 1 \notin freed
<1>1. regions \in Seq(Nat \ {0}) /\ freed \subseteq DOMAIN regions
  BY DEF TypeOK
<1>2. /\ Len(regions) \in Nat /\ DOMAIN regions = 1..Len(regions)
      /\ regions' \in Seq(Nat \ {0}) /\ Len(regions') = Len(regions) + 1
      /\ DOMAIN regions' = 1..(Len(regions) + 1)
      /\ regions'[Len(regions) + 1] = n
  BY <1>1, AppendProperties
<1>3. \A size \in Nat \ {0} : Piece(Len(regions) + 1, 0, size) \in Pieces'
  BY <1>2 DEF Piece, Pieces
<1>4. Pieces \subseteq Pieces'
  BY <1>2 DEF Pieces
<1>5. \A p \in Pieces : p.region # Len(regions) + 1
  BY <1>2 DEF Pieces
<1>6. QED
  BY <1>1, <1>2, <1>3, <1>4, <1>5

(* fill() gets a region of its own and uses it up.                         *)
LEMMA FillFacts ==
  ASSUME TypeOK, Left = 0, NEW size \in Nat \ {0}, fill(size)
  PROVE  /\ need_size(roundup(size)) \in Nat \ {0}
         /\ regions' = Append(regions, need_size(roundup(size)))
         /\ m_free_list' = m_free_list
         /\ m_begin' = [region |-> Len(regions) + 1, from |-> need_size(roundup(size))]
         /\ objects' = objects \union {Object(Piece(Len(regions) + 1, 0, roundup(size)), size)}
<1> DEFINE up == roundup(size)
           need == need_size(up)
           got == allocate(up)
<1>1. up \in Nat \ {0}
  BY Rounded
<1>2. node_num \in Nat \ {0}
  BY PoolAssumption
<1>3. need \in Nat \ {0} /\ need = up * node_num
  BY <1>1, <1>2, Products DEF need_size
<1>4. ~(Left >= up)
  BY <1>1
<1> HIDE DEF up
<1>5. need_size(up) >= up * node_num /\ 0 + up * node_num = need
  BY <1>3
<1> HIDE DEF need
<1>6. got = [mallocs |-> TRUE, head |-> Piece(Len(regions) + 1, 0, up), number |-> node_num,
             begin |-> [region |-> Len(regions) + 1, from |-> need]]
  BY <1>4, <1>5, Zenon DEF allocate
<1> HIDE DEF got
<1>7. PutAway(m_free_list) = m_free_list
  BY DEF PutAway
<1>8. QED
  BY <1>3, <1>6, <1>7 DEF fill, up, need, got

-----------------------------------------------------------------------------
(* One operation after the other.                                          *)

LEMMA FillStep ==
  ASSUME PoolInv, NEW t \in Threads, NEW size \in Sizes,
         fill(size), UNCHANGED <<freed, m_freememory, call>>
  PROVE  PoolInv'
<1>1. TypeOK /\ Left = 0 /\ size \in Nat \ {0}
  BY PoolAssumption DEF PoolInv, UsedUp
<1> DEFINE r == Len(regions) + 1
           need == need_size(roundup(size))
           new == Object(Piece(r, 0, roundup(size)), size)
<1>2. /\ need \in Nat \ {0} /\ regions' = Append(regions, need)
      /\ m_free_list' = m_free_list /\ m_begin' = [region |-> r, from |-> need]
      /\ objects' = objects \union {new}
  BY <1>1, FillFacts
<1>3. size <= roundup(size) /\ roundup(size) \in Nat \ {0} /\ node_size <= roundup(size)
  <2>1. index(size) \in Nat /\ roundup(size) = (index(size) + 1) * node_size
        /\ size <= roundup(size) /\ roundup(size) \in Nat \ {0}
    BY <1>1, Rounded
  <2>2. \A i \in Nat : node_size <= (i + 1) * node_size
    BY PoolAssumption
  <2>3. QED
    BY <2>1, <2>2
<1> HIDE DEF need
<1>4. /\ regions' \in Seq(Nat \ {0}) /\ Len(regions') = Len(regions) + 1
      /\ DOMAIN regions = 1..Len(regions) /\ DOMAIN regions' = 1..(Len(regions) + 1)
      /\ Len(regions) \in Nat
      /\ regions'[r] = need /\ Pieces \subseteq Pieces'
      /\ Piece(r, 0, roundup(size)) \in Pieces'
      /\ \A p \in Pieces : p.region # r
      /\ r \notin freed
  BY <1>1, <1>2, <1>3, Malloc
<1> DEFINE piece == Piece(r, 0, roundup(size))
<1>5. /\ new.piece = piece /\ new.size = size
      /\ piece.region = r /\ piece.from = 0 /\ piece.size = roundup(size)
  BY DEF Object, Piece
<1>6. new \in [piece : Pieces', size : Sizes]
  BY <1>4 DEF Object
<1> HIDE DEF new, piece, r
<1>7. TypeOK'
  <2>1. objects' \subseteq [piece : Pieces', size : Sizes]
    <3>1. objects \subseteq [piece : Pieces, size : Sizes]
      BY <1>1, Types
    <3>2. [piece : Pieces, size : Sizes] \subseteq [piece : Pieces', size : Sizes]
      BY <1>4
    <3>3. QED
      BY <1>2, <1>6, <3>1, <3>2
  <2>2. m_free_list' \in [0..(list_num - 1) -> Seq(Pieces')] /\ m_freememory' \in Seq(Pieces')
    BY <1>1, <1>2, <1>4, Types
  <2>3. call' \in [Threads -> [at : {"idle", "expand", "back", "pop"}, size : Sizes \union {0},
                               block : Pieces' \union {Nothing}]]
    BY <1>1, <1>4, Types
  <2>4. m_begin' \in [region : 0..Len(regions'), from : Nat]
    BY <1>2, <1>4 DEF r
  <2>5. freed' \subseteq DOMAIN regions'
    BY <1>1, <1>4 DEF TypeOK
  <2>6. QED
    BY <1>4, <2>1, <2>2, <2>3, <2>4, <2>5, Types DEF Pieces, TypeOK
<1>8. UsedUp'
  <2>1. Left' = 0
    BY <1>2, <1>4 DEF Left, r
  <2>2. QED
    BY <1>2, <2>1 DEF PoolInv, UsedUp, Lists
<1>9. FirstPieces' = FirstPieces /\ \A k \in 1..Len(FirstPieces) : FirstPieces[k] \in Pieces
  BY <1>1, <1>2, Types, FirstList DEF FirstPieces
<1>10. ListsAreOwn'
  BY <1>9 DEF PoolInv, ListsAreOwn
<1>11. \A o \in objects : o.piece \in Pieces
  BY <1>1, Types
<1>12. ObjectsAreOwn'
  <2>1. \A o \in objects : o.piece.region # r
    BY <1>4, <1>11
  <2>2. \A k \in 1..Len(FirstPieces) : FirstPieces[k].region # r
    BY <1>4, <1>9
  <2>3. \A o \in objects' :
          /\ o.piece.from = 0 /\ o.piece.region \notin freed'
          /\ (o.size <= block_size => o.size <= o.piece.size) /\ node_size <= o.piece.size
          /\ \A k \in 1..Len(FirstPieces) : o.piece.region # FirstPieces[k].region
    BY <1>2, <1>3, <1>4, <1>5, <2>2 DEF PoolInv, ObjectsAreOwn
  <2>4. \A o, q \in objects' : o.piece.region = q.piece.region => o = q
    BY <1>2, <1>5, <2>1 DEF PoolInv, ObjectsAreOwn
  <2>5. QED
    BY <1>9, <2>3, <2>4 DEF ObjectsAreOwn
<1>13. BlockIsOwn'
  <2>1. \A k \in 1..Len(m_freememory) : m_freememory[k].region # r
    BY <1>1, <1>4, Types
  <2>2. QED
    BY <1>2, <1>5, <1>9, <2>1 DEF PoolInv, BlockIsOwn
<1>14. CallsInOrder' /\ NoBlocks'
  BY DEF PoolInv, CallsInOrder, NoBlocks
<1>15. QED
  BY <1>7, <1>8, <1>10, <1>12, <1>13, <1>14 DEF PoolInv

(* The first piece of a list that is not empty, which is the first list.   *)
LEMMA TakeStep ==
  ASSUME PoolInv, NEW size \in Sizes, ~IsBig(size), m_free_list[index(size)] # <<>>,
         index(size) \in Lists,
         objects' = objects \union {Object(Head(m_free_list[index(size)]), size)},
         m_free_list' = [m_free_list EXCEPT ![index(size)] = Tail(m_free_list[index(size)])],
         UNCHANGED <<regions, m_begin, freed, m_freememory, call>>
  PROVE  PoolInv'
<1>1. TypeOK /\ size \in Nat \ {0}
  BY PoolAssumption DEF PoolInv
<1>2. index(size) = 0
  BY DEF PoolInv, UsedUp
<1>3. size <= node_size
  BY <1>1, <1>2, Rounded, PoolAssumption
<1> DEFINE p == Head(FirstPieces)
           new == Object(p, size)
<1>4. FirstPieces \in Seq(Pieces) /\ FirstPieces # <<>> /\ Pieces' = Pieces
  BY <1>1, <1>2, Types, FirstList DEF FirstPieces, Pieces
<1>5. /\ FirstPieces' = Tail(FirstPieces) /\ objects' = objects \union {new}
      /\ m_free_list' = [m_free_list EXCEPT ![0] = Tail(FirstPieces)]
  BY <1>1, <1>2, Types, FirstList DEF FirstPieces
<1>6. /\ Len(FirstPieces) \in Nat \ {0} /\ p = FirstPieces[1] /\ p \in Pieces
      /\ Len(FirstPieces') = Len(FirstPieces) - 1 /\ FirstPieces' \in Seq(Pieces)
      /\ \A k \in 1..Len(FirstPieces') :
           FirstPieces'[k] = FirstPieces[k + 1] /\ k + 1 \in 1..Len(FirstPieces)
  BY <1>4, <1>5
<1>7. /\ p.from = 0 /\ p.region \notin freed /\ p.size >= node_size
      /\ \A k \in 1..Len(FirstPieces') : p.region # FirstPieces'[k].region
      /\ \A o \in objects : o.piece.region # p.region
  <2>1. ListsAreOwn /\ ObjectsAreOwn /\ 1 \in 1..Len(FirstPieces)
    BY <1>6 DEF PoolInv
  <2>2. p.from = 0 /\ p.region \notin freed /\ p.size >= node_size
    BY <1>6, <2>1 DEF ListsAreOwn
  <2>3. \A k \in 1..Len(FirstPieces') : p.region # FirstPieces'[k].region
    <3>1. SUFFICES ASSUME NEW k \in 1..Len(FirstPieces') PROVE p.region # FirstPieces'[k].region
      OBVIOUS
    <3>2. FirstPieces'[k] = FirstPieces[k + 1] /\ k + 1 \in 1..Len(FirstPieces) /\ k + 1 # 1
      BY <1>6
    <3>3. QED
      BY <1>6, <2>1, <3>2 DEF ListsAreOwn
  <2>4. \A o \in objects : o.piece.region # p.region
    BY <1>6, <2>1 DEF ObjectsAreOwn
  <2>5. QED
    BY <2>2, <2>3, <2>4
<1>8. new.piece = p /\ new.size = size /\ new \in [piece : Pieces, size : Sizes]
  BY <1>6 DEF Object
<1> HIDE DEF p, new
<1>9. TypeOK'
  <2>1. m_free_list' \in [0..(list_num - 1) -> Seq(Pieces)]
    BY <1>1, <1>5, <1>6, Types
  <2>2. objects' \subseteq [piece : Pieces, size : Sizes]
    BY <1>1, <1>5, <1>8, Types
  <2>3. QED
    BY <1>1, <1>4, <2>1, <2>2, Types DEF Pieces, TypeOK
<1>10. UsedUp'
  BY <1>1, <1>5, Types DEF PoolInv, UsedUp, Left, Lists
<1>11. ListsAreOwn'
  <2>1. freed' = freed /\ ListsAreOwn
    BY DEF PoolInv
  <2>2. ASSUME NEW k \in 1..Len(FirstPieces')
        PROVE  /\ FirstPieces'[k].from = 0 /\ FirstPieces'[k].region \notin freed'
               /\ FirstPieces'[k].size >= node_size
    BY <1>6, <2>1, <2>2 DEF ListsAreOwn
  <2>3. ASSUME NEW k \in 1..Len(FirstPieces'), NEW n \in 1..Len(FirstPieces'),
               FirstPieces'[k].region = FirstPieces'[n].region
        PROVE  k = n
    <3>1. k + 1 = n + 1
      BY <1>6, <2>1, <2>3 DEF ListsAreOwn
    <3>2. QED
      BY <3>1
  <2>4. QED
    BY <2>2, <2>3 DEF ListsAreOwn
<1>12. p.size \in Nat /\ node_size \in Nat
  BY <1>6, PoolAssumption DEF Pieces
<1>13. ObjectsAreOwn'
  BY <1>1, <1>3, <1>5, <1>6, <1>7, <1>8, <1>12 DEF PoolInv, ObjectsAreOwn
<1>14. BlockIsOwn'
  BY <1>5, <1>6, <1>8 DEF PoolInv, BlockIsOwn
<1>15. CallsInOrder' /\ NoBlocks'
  BY DEF PoolInv, CallsInOrder, NoBlocks
<1>16. QED
  BY <1>9, <1>10, <1>11, <1>13, <1>14, <1>15 DEF PoolInv

LEMMA SmallStep ==
  ASSUME PoolInv, NEW t \in Threads, NEW size \in Sizes, NewSmall(t, size)
  PROVE  PoolInv'
<1>1. index(size) \in Lists
  <2>1. size \in Nat \ {0} /\ size <= node_size * list_num
    BY PoolAssumption DEF NewSmall, IsBig, max_size
  <2> DEFINE q == (size + node_size - 1) \div node_size
  <2>2. node_size \in Nat \ {0} /\ list_num \in Nat \ {0} /\ size + node_size - 1 \in Nat
    BY <2>1, PoolAssumption
  <2>3. q \in Nat /\ q * node_size <= size + node_size - 1
    BY <2>2, Divided
  <2>4. index(size) = q - 1 /\ index(size) \in Nat
    BY <2>1, Rounded DEF index
  <2> HIDE DEF q
  <2>5. q <= list_num
    <3>1. ASSUME q > list_num PROVE FALSE
      <4>1. q = list_num + (q - list_num) /\ q - list_num \in Nat \ {0}
        BY <2>2, <2>3, <3>1
      <4>2. q * node_size = list_num * node_size + (q - list_num) * node_size
        BY <2>2, <2>3
      <4>3. (q - list_num) * node_size >= node_size
        BY <2>2, <4>1
      <4>4. QED
        BY <2>1, <2>2, <2>3, <4>2, <4>3
    <3>2. QED
      BY <2>2, <2>3, <3>1
  <2>6. index(size) \in 0..(list_num - 1)
    BY <2>2, <2>3, <2>4, <2>5
  <2>7. QED
    BY <2>6, Types DEF PoolInv, Lists
<1>2. CASE m_free_list[index(size)] = <<>>
  BY <1>2, FillStep DEF NewSmall
<1>3. CASE m_free_list[index(size)] # <<>>
  BY <1>1, <1>3, TakeStep DEF NewSmall
<1>4. QED
  BY <1>2, <1>3

(* The large object's thread is the only one in allocate_memory, so the    *)
(* block it saw is still the last one when it takes it.                    *)
LEMMA BigStep ==
  ASSUME PoolInv, OneBigUser, NEW t \in Threads, NEW size \in Sizes, NewBig(t, size)
  PROVE  PoolInv'
<1> USE DEF PoolInv
<1> DEFINE at == IF m_freememory = <<>> THEN "expand" ELSE "back"
<1>1. /\ TypeOK /\ call[t].at = "idle" /\ t \in BigUsers
      /\ call' = [call EXCEPT ![t] = [Idle EXCEPT !.size = size, !.at = at]]
      /\ UNCHANGED <<regions, freed, m_begin, m_free_list, m_freememory, objects>>
  BY DEF NewBig
<1>2. m_freememory = <<>>
  BY <1>1 DEF CallsInOrder
<1>3. at = "expand"
  BY <1>2
<1> HIDE DEF at
<1>4. call \in [Threads -> [at : {"idle", "expand", "back", "pop"}, size : Sizes \union {0},
                            block : Pieces \union {Nothing}]]
  BY <1>1, Types
<1>5. /\ call'[t] = [at |-> "expand", size |-> size, block |-> Nothing]
      /\ \A u \in Threads : u # t => call'[u] = call[u]
      /\ call' \in [Threads -> [at : {"idle", "expand", "back", "pop"}, size : Sizes \union {0},
                                block : Pieces \union {Nothing}]]
  BY <1>1, <1>3, <1>4 DEF Idle
<1>6. TypeOK'
  BY <1>1, <1>5, Types DEF TypeOK, Pieces
<1>7. UsedUp' /\ ListsAreOwn' /\ ObjectsAreOwn' /\ BlockIsOwn' /\ NoBlocks'
  BY <1>1 DEF UsedUp, Left, Lists, ListsAreOwn, ObjectsAreOwn, BlockIsOwn, NoBlocks, FirstPieces
<1>8. CallsInOrder'
  <2>1. \A u \in Threads : u # t => call[u].at = "idle"
    BY <1>1 DEF CallsInOrder, OneBigUser
  <2>2. m_freememory' = <<>>
    BY <1>1, <1>2
  <2>3. call'[t].at = "expand" /\ call'[t].size \in Sizes
    BY <1>5
  <2>4. \A u \in Threads : u # t => call'[u].at = "idle"
    BY <1>5, <2>1
  <2>5. QED
    BY <1>1, <2>2, <2>3, <2>4 DEF CallsInOrder
<1>9. QED
  BY <1>6, <1>7, <1>8

LEMMA ExpandStep ==
  ASSUME PoolInv, OneBigUser, NEW t \in Threads, expand(t)
  PROVE  PoolInv'
<1> USE DEF PoolInv
<1> DEFINE r == Len(regions) + 1
           block == Piece(r, 0, block_size)
<1>1. /\ TypeOK /\ call[t].at = "expand" /\ regions' = Append(regions, block_size)
      /\ m_freememory' = Append(m_freememory, block)
      /\ call' = [call EXCEPT ![t].at = "back"]
      /\ UNCHANGED <<freed, m_begin, m_free_list, objects>>
  BY DEF expand, Go
<1>2. t \in BigUsers /\ m_freememory = <<>> /\ call[t].size \in Sizes
  BY <1>1 DEF CallsInOrder
<1>3. block_size \in Nat \ {0}
  BY PoolAssumption, Products DEF max_size
<1>4. /\ regions' \in Seq(Nat \ {0}) /\ Len(regions') = Len(regions) + 1
      /\ DOMAIN regions = 1..Len(regions) /\ DOMAIN regions' = 1..(Len(regions) + 1)
      /\ Len(regions) \in Nat
      /\ regions'[r] = block_size /\ Pieces \subseteq Pieces'
      /\ block \in Pieces'
      /\ \A p \in Pieces : p.region # r
      /\ r \notin freed
  BY <1>1, <1>3, Malloc
<1>5. block.region = r /\ block.from = 0 /\ block.size = block_size
  BY DEF Piece
<1>6. Len(m_freememory') = 1 /\ m_freememory'[1] = block /\ m_freememory' \in Seq(Pieces')
  BY <1>1, <1>2, <1>4
<1> HIDE DEF block
<1>7. call \in [Threads -> [at : {"idle", "expand", "back", "pop"}, size : Sizes \union {0},
                            block : Pieces \union {Nothing}]]
  BY <1>1, Types
<1>8. /\ call'[t] = [call[t] EXCEPT !.at = "back"] /\ call'[t].at = "back"
      /\ call'[t].size = call[t].size
      /\ \A u \in Threads : u # t => call'[u] = call[u]
      /\ call' \in [Threads -> [at : {"idle", "expand", "back", "pop"}, size : Sizes \union {0},
                                block : Pieces \union {Nothing}]]
  BY <1>1, <1>7
<1>9. TypeOK'
  <2>1. objects' \subseteq [piece : Pieces', size : Sizes]
    <3>1. objects \subseteq [piece : Pieces, size : Sizes]
      BY <1>1, Types
    <3>2. [piece : Pieces, size : Sizes] \subseteq [piece : Pieces', size : Sizes]
      BY <1>4
    <3>3. QED
      BY <1>1, <3>1, <3>2
  <2>2. m_free_list' \in [0..(list_num - 1) -> Seq(Pieces')]
    BY <1>1, <1>4, Types
  <2>3. call' \in [Threads -> [at : {"idle", "expand", "back", "pop"}, size : Sizes \union {0},
                               block : Pieces' \union {Nothing}]]
    BY <1>4, <1>8
  <2>4. m_begin' \in [region : 0..Len(regions'), from : Nat]
    BY <1>1, <1>4 DEF TypeOK
  <2>5. freed' \subseteq DOMAIN regions'
    BY <1>1, <1>4 DEF TypeOK
  <2>6. QED
    BY <1>4, <1>6, <2>1, <2>2, <2>3, <2>4, <2>5, Types DEF Pieces, TypeOK
<1>10. UsedUp'
  <2>1. regions[m_begin.region] = regions'[m_begin.region] \/ m_begin.region = 0
    BY <1>1, <1>4 DEF TypeOK
  <2>2. Left' = 0
    BY <1>1, <2>1 DEF UsedUp, Left
  <2>3. QED
    BY <1>1, <2>2 DEF UsedUp, Lists
<1>11. FirstPieces' = FirstPieces /\ \A k \in 1..Len(FirstPieces) : FirstPieces[k] \in Pieces
  <2>1. m_free_list' = m_free_list /\ m_free_list \in [0..(list_num - 1) -> Seq(Pieces)]
    BY <1>1, Types
  <2>2. QED
    BY <2>1, FirstList DEF FirstPieces
<1>12. ListsAreOwn' /\ ObjectsAreOwn'
  BY <1>1, <1>11 DEF ListsAreOwn, ObjectsAreOwn
<1>13. BlockIsOwn'
  <2>1. \A o \in objects : o.piece.region # r
    BY <1>1, <1>4, Types
  <2>2. \A k \in 1..Len(FirstPieces) : FirstPieces[k].region # r
    BY <1>4, <1>11
  <2>3. QED
    BY <1>1, <1>4, <1>5, <1>6, <1>11, <2>1, <2>2 DEF BlockIsOwn
<1>14. CallsInOrder'
  BY <1>1, <1>2, <1>6, <1>8 DEF CallsInOrder, OneBigUser
<1>15. NoBlocks'
  BY <1>2 DEF NoBlocks
<1>16. QED
  BY <1>9, <1>10, <1>12, <1>13, <1>14, <1>15

LEMMA BackStep ==
  ASSUME PoolInv, OneBigUser, NEW t \in Threads, Back(t)
  PROVE  PoolInv'
<1> USE DEF PoolInv
<1>1. /\ TypeOK /\ call[t].at = "back"
      /\ UNCHANGED <<regions, freed, m_begin, m_free_list, m_freememory, objects>>
  BY DEF Back
<1>2. t \in BigUsers /\ Len(m_freememory) = 1 /\ call[t].size \in Sizes
  BY <1>1 DEF CallsInOrder
<1>3. m_freememory \in Seq(Pieces) /\ m_freememory # <<>> /\ m_freememory[1] \in Pieces
  <2>1. m_freememory \in Seq(Pieces)
    BY <1>1, Types
  <2>2. 1 \in 1..Len(m_freememory)
    BY <1>2
  <2>3. m_freememory[1] \in Pieces
    BY <2>1, <2>2, ElementOfSeq, Zenon
  <2>4. m_freememory # <<>>
    <3>1. m_freememory = <<>> => Len(m_freememory) = 0
      OBVIOUS
    <3>2. QED
      BY <1>2, <3>1
  <2>5. QED
    BY <2>1, <2>3, <2>4
<1>4. call' = [call EXCEPT ![t].at = "pop", ![t].block = m_freememory[1]]
  <2> DEFINE seen == IF m_freememory = <<>> THEN Nothing ELSE m_freememory[Len(m_freememory)]
  <2>1. seen = m_freememory[1]
    BY <1>2, <1>3
  <2>2. call' = [call EXCEPT ![t].at = "pop", ![t].block = seen]
    BY DEF Back
  <2> HIDE DEF seen
  <2>3. QED
    BY <2>1, <2>2
<1>5. call \in [Threads -> [at : {"idle", "expand", "back", "pop"}, size : Sizes \union {0},
                            block : Pieces \union {Nothing}]]
  BY <1>1, Types
<1>6. /\ call'[t].at = "pop" /\ call'[t].size = call[t].size /\ call'[t].block = m_freememory[1]
      /\ \A u \in Threads : u # t => call'[u] = call[u]
      /\ call' \in [Threads -> [at : {"idle", "expand", "back", "pop"}, size : Sizes \union {0},
                                block : Pieces \union {Nothing}]]
  BY <1>3, <1>4, <1>5
<1>7. TypeOK'
  BY <1>1, <1>6, Types DEF TypeOK, Pieces
<1>8. UsedUp' /\ ListsAreOwn' /\ ObjectsAreOwn' /\ BlockIsOwn' /\ NoBlocks'
  BY <1>1 DEF UsedUp, Left, Lists, ListsAreOwn, ObjectsAreOwn, BlockIsOwn, NoBlocks, FirstPieces
<1>9. CallsInOrder'
  BY <1>1, <1>2, <1>6 DEF CallsInOrder, OneBigUser
<1>10. QED
  BY <1>7, <1>8, <1>9

LEMMA PopStep ==
  ASSUME PoolInv, OneBigUser, NEW t \in Threads, PopBack(t)
  PROVE  PoolInv'
<1> USE DEF PoolInv
<1> DEFINE b == m_freememory[1]
           new == Object(b, call[t].size)
<1>1. /\ TypeOK /\ call[t].at = "pop"
      /\ UNCHANGED <<regions, freed, m_begin, m_free_list>>
      /\ m_freememory' = SubSeq(m_freememory, 1, Len(m_freememory) - 1)
      /\ objects' = objects \union {Object(call[t].block, call[t].size)}
      /\ call' = [call EXCEPT ![t] = Idle]
  BY DEF PopBack
<1>2. t \in BigUsers /\ Len(m_freememory) = 1 /\ call[t].size \in Sizes /\ call[t].block = b
  BY <1>1 DEF CallsInOrder
<1>3. m_freememory \in Seq(Pieces) /\ b \in Pieces /\ m_freememory' = <<>>
  <2>1. m_freememory \in Seq(Pieces)
    BY <1>1, Types
  <2>2. b \in Pieces
    <3>1. 1 \in 1..Len(m_freememory)
      BY <1>2
    <3>2. QED
      BY <2>1, <3>1, ElementOfSeq, Zenon
  <2>3. m_freememory' = SubSeq(m_freememory, 1, 0)
    <3>1. Len(m_freememory) - 1 = 0
      BY <1>2
    <3>2. QED
      BY <1>1, <3>1, Zenon
  <2>4. QED
    BY <2>1, <2>2, <2>3
<1>4. objects' = objects \union {new} /\ new.piece = b /\ new.size = call[t].size
      /\ new \in [piece : Pieces, size : Sizes]
  BY <1>1, <1>2, <1>3 DEF Object
<1>5. /\ b.from = 0 /\ b.size = block_size /\ b.region \notin freed
      /\ \A o \in objects : o.piece.region # b.region
      /\ \A n \in 1..Len(FirstPieces) : FirstPieces[n].region # b.region
  BY <1>2 DEF BlockIsOwn
<1>6. node_size <= block_size
  <2>1. list_num \in Nat \ {0} /\ node_size \in Nat \ {0} /\ block_size \in Nat
        /\ node_size * list_num < block_size
    BY PoolAssumption DEF max_size
  <2>2. node_size * list_num = node_size + node_size * (list_num - 1)
    BY <2>1
  <2>3. node_size * (list_num - 1) \in Nat
    BY <2>1
  <2>4. QED
    BY <2>1, <2>2, <2>3
<1> HIDE DEF b, new
<1>7. call \in [Threads -> [at : {"idle", "expand", "back", "pop"}, size : Sizes \union {0},
                            block : Pieces \union {Nothing}]]
  BY <1>1, Types
<1>8. /\ call'[t].at = "idle"
      /\ \A u \in Threads : u # t => call'[u] = call[u]
      /\ call' \in [Threads -> [at : {"idle", "expand", "back", "pop"}, size : Sizes \union {0},
                                block : Pieces \union {Nothing}]]
  BY <1>1, <1>7 DEF Idle
<1>9. TypeOK'
  <2>1. objects' \subseteq [piece : Pieces, size : Sizes]
    BY <1>1, <1>4, Types
  <2>2. m_freememory' \in Seq(Pieces)
    BY <1>3
  <2>3. QED
    BY <1>1, <1>8, <2>1, <2>2, Types DEF TypeOK, Pieces
<1>10. FirstPieces' = FirstPieces /\ freed' = freed
  BY <1>1 DEF FirstPieces
<1>11. UsedUp' /\ ListsAreOwn'
  BY <1>1, <1>10 DEF UsedUp, Left, Lists, ListsAreOwn
<1>12. ObjectsAreOwn'
  BY <1>4, <1>5, <1>6, <1>10 DEF ObjectsAreOwn
<1>13. BlockIsOwn' /\ NoBlocks'
  BY <1>3 DEF BlockIsOwn, NoBlocks
<1>14. CallsInOrder'
  BY <1>2, <1>3, <1>8 DEF CallsInOrder, OneBigUser
<1>15. QED
  BY <1>9, <1>11, <1>12, <1>13, <1>14

(* delete_object() puts the piece before the others of the first list.     *)
LEMMA ReturnStep ==
  ASSUME PoolInv, NEW t \in Threads, NEW o \in objects, delete_object(t, o)
  PROVE  PoolInv'
<1>1. /\ TypeOK /\ UsedUp /\ ListsAreOwn /\ ObjectsAreOwn /\ BlockIsOwn /\ CallsInOrder /\ NoBlocks
      /\ regions' = regions /\ m_begin' = m_begin /\ freed' = freed
      /\ m_freememory' = m_freememory /\ call' = call
      /\ objects' = objects \ {o}
      /\ m_free_list' = [m_free_list EXCEPT ![0] = <<o.piece>> \o m_free_list[0]]
  BY FirstList DEF PoolInv, delete_object
<1> DEFINE p == o.piece
<1>2. /\ objects \subseteq [piece : Pieces, size : Sizes]
      /\ m_free_list \in [0..(list_num - 1) -> Seq(Pieces)]
  BY <1>1, Types
<1>3. FirstPieces \in Seq(Pieces) /\ p \in Pieces
  BY <1>2, FirstList DEF FirstPieces
<1>4. FirstPieces' = <<p>> \o FirstPieces
  BY <1>1, <1>2, FirstList DEF FirstPieces
<1>5. /\ p.from = 0 /\ p.region \notin freed /\ node_size <= p.size
      /\ \A k \in 1..Len(FirstPieces) : p.region # FirstPieces[k].region
      /\ \A q \in objects \ {o} : q.piece.region # p.region
  BY <1>1 DEF ObjectsAreOwn
<1>6. p.size \in Nat /\ node_size \in Nat
  BY <1>3, PoolAssumption DEF Pieces
<1> HIDE DEF p
<1>7. /\ <<p>> \in Seq(Pieces) /\ FirstPieces' \in Seq(Pieces)
      /\ Len(FirstPieces) \in Nat /\ Len(FirstPieces') = Len(FirstPieces) + 1
      /\ FirstPieces'[1] = p
      /\ \A k \in 2..Len(FirstPieces') :
           FirstPieces'[k] = FirstPieces[k - 1] /\ k - 1 \in 1..Len(FirstPieces)
  BY <1>3, <1>4
<1>8. TypeOK'
  <2>1. m_free_list' \in [0..(list_num - 1) -> Seq(Pieces)]
    <3>1. m_free_list' = [m_free_list EXCEPT ![0] = FirstPieces']
      BY <1>1, <1>4 DEF FirstPieces, p
    <3>2. QED
      BY <1>2, <1>7, <3>1
  <2>2. objects' \subseteq [piece : Pieces, size : Sizes]
    BY <1>1, <1>2
  <2>3. QED
    BY <1>1, <2>1, <2>2, Types DEF Pieces, TypeOK
<1>9. UsedUp'
  BY <1>1, <1>2 DEF UsedUp, Left, Lists
<1>10. ListsAreOwn'
  <2>1. ASSUME NEW k \in 1..Len(FirstPieces')
        PROVE  /\ FirstPieces'[k].from = 0 /\ FirstPieces'[k].region \notin freed'
               /\ FirstPieces'[k].size >= node_size
    <3>1. CASE k = 1
      BY <1>1, <1>5, <1>6, <1>7, <3>1
    <3>2. CASE k # 1
      <4>1. k \in 2..Len(FirstPieces')
        BY <1>7, <3>2
      <4>2. QED
        BY <1>1, <1>7, <4>1 DEF ListsAreOwn
    <3>3. QED
      BY <3>1, <3>2
  <2>2. ASSUME NEW k \in 1..Len(FirstPieces'), NEW n \in 1..Len(FirstPieces'),
               FirstPieces'[k].region = FirstPieces'[n].region
        PROVE  k = n
    <3>1. \A m \in 2..Len(FirstPieces') : FirstPieces'[m].region # p.region
      BY <1>5, <1>7
    <3>2. CASE k = 1 \/ n = 1
      <4>1. k \notin 2..Len(FirstPieces') /\ n \notin 2..Len(FirstPieces')
        BY <1>7, <2>2, <3>1, <3>2
      <4>2. QED
        BY <1>7, <4>1
    <3>3. CASE k # 1 /\ n # 1
      <4>1. k \in 2..Len(FirstPieces') /\ n \in 2..Len(FirstPieces')
        BY <1>7, <3>3
      <4>2. k - 1 = n - 1
        BY <1>1, <1>7, <2>2, <4>1 DEF ListsAreOwn
      <4>3. QED
        BY <4>2
    <3>4. QED
      BY <3>2, <3>3
  <2>3. QED
    BY <2>1, <2>2 DEF ListsAreOwn
<1>11. ObjectsAreOwn'
  <2>1. ASSUME NEW q \in objects'
        PROVE  \A k \in 1..Len(FirstPieces') : q.piece.region # FirstPieces'[k].region
    <3>1. SUFFICES ASSUME NEW k \in 1..Len(FirstPieces')
                   PROVE  q.piece.region # FirstPieces'[k].region
      OBVIOUS
    <3>2. CASE k = 1
      BY <1>1, <1>5, <1>7, <3>2
    <3>3. CASE k # 1
      <4>1. k \in 2..Len(FirstPieces')
        BY <1>7, <3>3
      <4>2. QED
        BY <1>1, <1>7, <4>1 DEF ObjectsAreOwn
    <3>4. QED
      BY <3>2, <3>3
  <2>2. QED
    BY <1>1, <2>1 DEF ObjectsAreOwn
<1>12. BlockIsOwn'
  <2>1. ASSUME NEW k \in 1..Len(m_freememory), NEW n \in 1..Len(FirstPieces')
        PROVE  FirstPieces'[n].region # m_freememory[k].region
    <3>1. CASE n = 1
      BY <1>1, <1>7, <3>1 DEF BlockIsOwn, p
    <3>2. CASE n # 1
      <4>1. n \in 2..Len(FirstPieces')
        BY <1>7, <3>2
      <4>2. QED
        BY <1>1, <1>7, <4>1 DEF BlockIsOwn
    <3>3. QED
      BY <3>1, <3>2
  <2>2. QED
    BY <1>1, <2>1 DEF BlockIsOwn
<1>13. CallsInOrder' /\ NoBlocks'
  BY <1>1 DEF CallsInOrder, NoBlocks
<1>14. QED
  BY <1>8, <1>9, <1>10, <1>11, <1>12, <1>13 DEF PoolInv

(* The other two ways only take the object, and its region, out of use.    *)
LEMMA DropStep ==
  ASSUME PoolInv, NEW t \in Threads, NEW o \in objects, recycle_memory(t, o) \/ Delete(t, o)
  PROVE  PoolInv'
<1>1. /\ TypeOK /\ UsedUp /\ ListsAreOwn /\ ObjectsAreOwn /\ BlockIsOwn /\ CallsInOrder /\ NoBlocks
      /\ regions' = regions /\ m_begin' = m_begin /\ m_free_list' = m_free_list
      /\ m_freememory' = m_freememory /\ call' = call
      /\ objects' = objects \ {o}
      /\ freed' = freed \/ freed' = freed \union {o.piece.region}
  BY DEF PoolInv, recycle_memory, Delete
<1>2. /\ objects \subseteq [piece : Pieces, size : Sizes]
      /\ o.piece.region \in DOMAIN regions
      /\ freed' \subseteq freed \union {o.piece.region}
  BY <1>1, Types DEF Pieces
<1>3. /\ \A q \in objects' : q.piece.region # o.piece.region
      /\ \A k \in 1..Len(FirstPieces) : FirstPieces[k].region # o.piece.region
      /\ \A k \in 1..Len(m_freememory) : m_freememory[k].region # o.piece.region
  BY <1>1 DEF ObjectsAreOwn, BlockIsOwn
<1>4. FirstPieces' = FirstPieces
  BY <1>1 DEF FirstPieces
<1>5. TypeOK'
  <2>1. freed' \subseteq DOMAIN regions'
    BY <1>1, <1>2 DEF TypeOK
  <2>2. objects' \subseteq [piece : Pieces, size : Sizes]
    BY <1>1, <1>2
  <2>3. QED
    BY <1>1, <2>1, <2>2, Types DEF Pieces, TypeOK
<1>6. UsedUp'
  BY <1>1 DEF UsedUp, Left, Lists
<1>7. ListsAreOwn' /\ ObjectsAreOwn'
  BY <1>1, <1>2, <1>3, <1>4 DEF ListsAreOwn, ObjectsAreOwn
<1>8. BlockIsOwn'
  BY <1>1, <1>2, <1>3, <1>4 DEF BlockIsOwn
<1>9. CallsInOrder' /\ NoBlocks'
  BY <1>1 DEF CallsInOrder, NoBlocks
<1>10. QED
  BY <1>5, <1>6, <1>7, <1>8, <1>9 DEF PoolInv

LEMMA PoolInvStep == OneBigUser /\ PoolInv /\ [Next]_vars => PoolInv'
<1> SUFFICES ASSUME OneBigUser, PoolInv, [Next]_vars PROVE PoolInv'
  OBVIOUS
<1>1. CASE UNCHANGED vars
  <2>1. /\ regions' = regions /\ freed' = freed /\ m_begin' = m_begin
        /\ m_free_list' = m_free_list /\ m_freememory' = m_freememory
        /\ objects' = objects /\ call' = call
    BY <1>1 DEF vars
  <2>2. QED
    BY <2>1 DEF PoolInv, TypeOK, UsedUp, Left, Lists, ListsAreOwn, ObjectsAreOwn, BlockIsOwn,
                CallsInOrder, NoBlocks, FirstPieces
<1>2. ASSUME NEW t \in Threads, New(t) PROVE PoolInv'
  BY <1>2, SmallStep, BigStep DEF New
<1>3. ASSUME NEW t \in Threads, expand(t) \/ Back(t) \/ PopBack(t) PROVE PoolInv'
  BY <1>3, ExpandStep, BackStep, PopStep
<1>4. ASSUME NEW t \in Threads, Release(t) PROVE PoolInv'
  BY <1>4, ReturnStep, DropStep DEF Release
<1>5. QED
  BY <1>1, <1>2, <1>3, <1>4 DEF Next

-----------------------------------------------------------------------------
(* The theorems.                                                           *)

(* Every live object is alone in a region of its own that the system has   *)
(* not got back, whatever the sizes, as long as one thread makes the large *)
(* objects: allocate_memory (memory_pool.cpp:30) takes no lock.            *)
THEOREM ObjectsOwnTheirRegions == ASSUME OneBigUser PROVE Spec => []OwnRegion
<1>1. PoolInv => OwnRegion
  <2> SUFFICES ASSUME PoolInv PROVE OwnRegion
    OBVIOUS
  <2>1. TypeOK /\ UsedUp /\ ListsAreOwn /\ ObjectsAreOwn /\ BlockIsOwn
    BY DEF PoolInv
  <2>2. m_free_list \in [0..(list_num - 1) -> Seq(Pieces)] /\ m_freememory \in Seq(Pieces)
        /\ objects \subseteq [piece : Pieces, size : Sizes]
    BY <2>1, Types
  <2>3. /\ Lists = 0..(list_num - 1) /\ DOMAIN m_freememory = 1..Len(m_freememory)
        /\ \A i \in Lists : DOMAIN m_free_list[i] = 1..Len(m_free_list[i])
    BY <2>2 DEF Lists
  <2>4. \A i \in Lists : i = 0 \/ Len(m_free_list[i]) = 0
    BY <2>1 DEF UsedUp
  <2>5. \A o \in objects : o.piece.from = 0 /\ o.piece.region \in DOMAIN regions \ freed
    BY <2>1, <2>2 DEF ObjectsAreOwn, Pieces
  <2>6. \A o, q \in objects : o.piece.region = q.piece.region => o = q
    BY <2>1 DEF ObjectsAreOwn
  <2>7. ASSUME NEW p \in Kept
        PROVE  p.region \notin freed /\ \A o \in objects : o.piece.region # p.region
    <3>1. CASE p \in Blocks
      BY <2>1, <2>3, <3>1 DEF Blocks, BlockIsOwn
    <3>2. CASE \E i \in Lists : p \in Listed(i)
      <4>1. PICK i \in Lists : \E k \in 1..Len(m_free_list[i]) : p = m_free_list[i][k]
        BY <2>3, <3>2 DEF Listed
      <4>2. i = 0
        BY <2>4, <4>1
      <4>3. \E k \in 1..Len(FirstPieces) : p = FirstPieces[k]
        BY <4>1, <4>2 DEF FirstPieces
      <4>4. QED
        BY <2>1, <4>3 DEF ListsAreOwn, ObjectsAreOwn
    <3>3. QED
      BY <2>7, <3>1, <3>2 DEF Kept
  <2>8. ASSUME NEW i \in Lists, NEW k \in DOMAIN m_free_list[i], NEW n \in DOMAIN m_free_list[i],
               m_free_list[i][k].region = m_free_list[i][n].region
        PROVE  k = n
    <3>1. i = 0 /\ k \in 1..Len(FirstPieces) /\ n \in 1..Len(FirstPieces)
      BY <2>3, <2>4 DEF FirstPieces
    <3>2. QED
      BY <2>1, <2>8, <3>1 DEF ListsAreOwn, FirstPieces
  <2>9. QED
    BY <2>1, <2>5, <2>6, <2>7, <2>8 DEF OwnRegion
<1>2. QED
  BY <1>1, PoolInvInit, PoolInvStep, PTL DEF Spec

(* Every object fits into its piece, and no list serves a size from a      *)
(* smaller piece, although delete_object() puts every piece into the first *)
(* list: provided no object is larger than a block, of which the code does *)
(* not make sure: every large request gets one block (memory_pool.cpp:26).   *)
THEOREM ObjectsFit ==
  ASSUME OneBigUser, \A size \in Sizes : size <= block_size
  PROVE  Spec => []FitsItsPiece
<1>1. PoolInv => FitsItsPiece
  <2> SUFFICES ASSUME PoolInv PROVE FitsItsPiece
    OBVIOUS
  <2>1. TypeOK /\ UsedUp /\ ListsAreOwn /\ ObjectsAreOwn
    BY DEF PoolInv
  <2>2. m_free_list \in [0..(list_num - 1) -> Seq(Pieces)]
        /\ objects \subseteq [piece : Pieces, size : Sizes]
    BY <2>1, Types
  <2>3. \A o \in objects : o.size <= o.piece.size
    BY <2>1, <2>2 DEF ObjectsAreOwn
  <2>4. ASSUME NEW i \in Lists, NEW p \in Listed(i)
        PROVE  p.size >= (i + 1) * node_size
    <3>1. PICK k \in 1..Len(m_free_list[i]) : p = m_free_list[i][k]
      BY <2>2 DEF Listed, Lists
    <3>2. i = 0
      <4>1. i # 0 => Len(m_free_list[i]) = 0
        BY <2>1 DEF UsedUp
      <4>2. QED
        BY <3>1, <4>1
    <3>3. p.size >= node_size
      BY <2>1, <3>1, <3>2 DEF ListsAreOwn, FirstPieces
    <3>4. (i + 1) * node_size = node_size
      BY <3>2, PoolAssumption
    <3>5. QED
      BY <3>3, <3>4
  <2>5. QED
    BY <2>3, <2>4 DEF FitsItsPiece
<1>2. QED
  BY <1>1, PoolInvInit, PoolInvStep, PTL DEF Spec

=============================================================================
