----------------------------- MODULE MemoryPool -----------------------------
(***************************************************************************)
(* Classes memory_manager and memory_block (src/include/memory_pool.h,     *)
(* src/src/manager/memory_pool.cpp): small objects from free lists that    *)
(* fill() feeds from a pool of malloc'd chunks, large ones from a vector   *)
(* of blocks.  Small requests hold m_mutex; large ones hold nothing, so    *)
(* allocate_memory is a step per access to the vector.                     *)
(*                                                                         *)
(* A piece of memory is the record of the region malloc returned, where in *)
(* it the piece begins, and its size.  m_end is always the end of the      *)
(* region of m_begin.  Bytes written are not modelled, so that it does not  *)
(* show that fill() writes its terminator behind the last node.            *)
(* malloc_memory is left out: no instance of that template compiles.       *)
(***************************************************************************)
EXTENDS Integers, Sequences, FiniteSets

CONSTANTS
  Threads,
  BigUsers,    (* the threads that make objects larger than max_size       *)
  Sizes,       (* the sizes of the objects clients make                    *)
  node_size, node_num, list_num,
  block_size,  (* memory_block::m_size                                     *)
  pointer,     (* the size of a pointer                                    *)
  Releases,    (* how clients release: "delete_object", "recycle_memory",
                  or "delete", which is what shared_ptr does               *)
  MaxRegions   (* bound: how often malloc is called                        *)

max_size == node_size * list_num

ASSUME PoolAssumption ==
  /\ BigUsers \subseteq Threads
  /\ Sizes \subseteq Nat \ {0}
  /\ node_size \in Nat \ {0} /\ node_num \in Nat \ {0, 1} /\ list_num \in Nat \ {0}
  /\ block_size \in Nat /\ max_size < block_size
  /\ pointer \in 1..node_size
  /\ Releases \subseteq {"delete_object", "recycle_memory", "delete"}
  /\ MaxRegions \in Nat

VARIABLES
  regions,       (* the sizes of the regions malloc has returned           *)
  freed,         (* the regions that went back to the system               *)
  m_begin,       (* where the unused part of the pool begins               *)
  m_free_list,   (* the small pieces returned, per list                    *)
  m_freememory,  (* the blocks of m_block                                  *)
  objects,       (* the live objects: their piece and their size           *)
  call           (* where each thread is in allocate_memory                *)

vars == <<regions, freed, m_begin, m_free_list, m_freememory, objects, call>>

Piece(region, from, size) == [region |-> region, from |-> from, size |-> size]

Object(piece, size) == [piece |-> piece, size |-> size]

(* No memory: the null pointer, and what back() reads of an empty vector.  *)
Nothing == Piece(0, 0, 0)

Idle == [at |-> "idle", size |-> 0, block |-> Nothing]

Init ==
  /\ regions = <<>> /\ freed = {}
  /\ m_begin = [region |-> 0, from |-> 0]
  /\ m_free_list = [i \in 0..(list_num - 1) |-> <<>>]
  /\ m_freememory = <<>>
  /\ objects = {}
  /\ call = [t \in Threads |-> Idle]

-----------------------------------------------------------------------------
(* Small objects.                                                          *)

roundup(size) == ((size + node_size - 1) \div node_size) * node_size

index(size) == (size + node_size - 1) \div node_size - 1

IsBig(size) == size > max_size

(* What is left of the pool: m_end - m_begin.                              *)
Left == IF m_begin.region = 0 THEN 0 ELSE regions[m_begin.region] - m_begin.from

(* Mutant: allocate() asks for twice as much as it hands out.              *)
NeedTwice(size) == 2 * size * node_num

(* How much allocate() asks the system for.                                *)
need_size(size) == size * node_num

(* allocate(size, node_num): all the nodes asked for, or as many as the    *)
(* pool has, or, after a malloc, all of them.                              *)
allocate(size) ==
  LET serves == Left >= size
      region == IF serves THEN m_begin.region ELSE Len(regions) + 1
      from == IF serves THEN m_begin.from ELSE 0
      left == IF serves THEN Left ELSE need_size(size)
      number == IF left >= size * node_num THEN node_num ELSE left \div size
  IN [mallocs |-> ~serves, head |-> Piece(region, from, size), number |-> number,
      begin |-> [region |-> region, from |-> from + size * number]]

(* The rest of a pool that cannot serve a single node goes to a list.      *)
PutAway(lists) ==
  IF Left = 0 THEN lists
  ELSE [lists EXCEPT ![index(Left)] = <<Piece(m_begin.region, m_begin.from, Left)>> \o @]

(* fill(): the nodes are linked up, a null behind the last of them, and    *)
(* the first is returned.  The others are in no list.                      *)
fill(size) ==
  LET got == allocate(roundup(size)) IN
  /\ got.mallocs => Len(regions) < MaxRegions
  /\ regions' = IF got.mallocs THEN Append(regions, need_size(roundup(size))) ELSE regions
  /\ m_free_list' = IF got.mallocs THEN PutAway(m_free_list) ELSE m_free_list
  /\ m_begin' = got.begin
  /\ objects' = objects \union {Object(got.head, size)}

NewSmall(t, size) ==
  /\ call[t].at = "idle" /\ ~IsBig(size)
  /\ LET list == m_free_list[index(size)] IN
     \/ /\ list = <<>>
        /\ fill(size)
     \/ /\ list # <<>>
        /\ objects' = objects \union {Object(Head(list), size)}
        /\ m_free_list' = [m_free_list EXCEPT ![index(size)] = Tail(list)]
        /\ UNCHANGED <<regions, m_begin>>
  /\ UNCHANGED <<freed, m_freememory, call>>

-----------------------------------------------------------------------------
(* Large objects: memory_block::allocate_memory, without a lock.           *)

Go(t, at) == call' = [call EXCEPT ![t].at = at]

NewBig(t, size) ==
  /\ call[t].at = "idle" /\ t \in BigUsers /\ IsBig(size)
  /\ call' = [call EXCEPT ![t] =
       [Idle EXCEPT !.size = size, !.at = IF m_freememory = <<>> THEN "expand" ELSE "back"]]
  /\ UNCHANGED <<regions, freed, m_begin, m_free_list, m_freememory, objects>>

(* expand(0): m_num blocks, which is one.                                  *)
expand(t) ==
  /\ call[t].at = "expand" /\ Len(regions) < MaxRegions
  /\ regions' = Append(regions, block_size)
  /\ m_freememory' = Append(m_freememory, Piece(Len(regions) + 1, 0, block_size))
  /\ Go(t, "back")
  /\ UNCHANGED <<freed, m_begin, m_free_list, objects>>

Back(t) ==
  /\ call[t].at = "back"
  /\ call' = [call EXCEPT ![t].at = "pop", ![t].block =
       IF m_freememory = <<>> THEN Nothing ELSE m_freememory[Len(m_freememory)]]
  /\ UNCHANGED <<regions, freed, m_begin, m_free_list, m_freememory, objects>>

PopBack(t) ==
  /\ call[t].at = "pop"
  /\ m_freememory' = SubSeq(m_freememory, 1, Len(m_freememory) - 1)
  /\ objects' = objects \union {Object(call[t].block, call[t].size)}
  /\ call' = [call EXCEPT ![t] = Idle]
  /\ UNCHANGED <<regions, freed, m_begin, m_free_list>>

-----------------------------------------------------------------------------
(* Release.                                                                *)

(* Mutant: the size of a memory_node instead of that of a pointer to it.   *)
ReturnedAsNode == index(2 * pointer)

(* The list delete_object puts everything into: sizeof(garbage) and        *)
(* sizeof(object) are those of pointers, whatever the object was.          *)
Returned == index(pointer)

delete_object(t, o) ==
  /\ call[t].at = "idle" /\ "delete_object" \in Releases
  /\ m_free_list' = [m_free_list EXCEPT ![Returned] = <<o.piece>> \o @]
  /\ objects' = objects \ {o}
  /\ UNCHANGED <<regions, freed, m_begin, m_freememory, call>>

(* recory_memory keeps null pointers only, and recycle_memory has none.    *)
recycle_memory(t, o) ==
  /\ call[t].at = "idle" /\ "recycle_memory" \in Releases
  /\ objects' = objects \ {o}
  /\ UNCHANGED <<regions, freed, m_begin, m_free_list, m_freememory, call>>

(* The logger's shared_ptr: operator delete on a pointer from new_object.  *)
Delete(t, o) ==
  /\ call[t].at = "idle" /\ "delete" \in Releases
  /\ freed' = freed \union {o.piece.region}
  /\ objects' = objects \ {o}
  /\ UNCHANGED <<regions, m_begin, m_free_list, m_freememory, call>>

-----------------------------------------------------------------------------
New(t) == \E size \in Sizes : NewSmall(t, size) \/ NewBig(t, size)

Release(t) == \E o \in objects : delete_object(t, o) \/ recycle_memory(t, o) \/ Delete(t, o)

Next == \E t \in Threads : New(t) \/ expand(t) \/ Back(t) \/ PopBack(t) \/ Release(t)

Spec == Init /\ [][Next]_vars

-----------------------------------------------------------------------------
(* Properties                                                              *)

Listed(i) == {m_free_list[i][k] : k \in DOMAIN m_free_list[i]}

Lists == DOMAIN m_free_list

Blocks == {m_freememory[k] : k \in DOMAIN m_freememory}

Kept == (UNION {Listed(i) : i \in Lists}) \union Blocks

TypeOK ==
  LET Pieces == [region : DOMAIN regions, from : Nat, size : Nat \ {0}] IN
  /\ regions \in Seq(Nat \ {0}) /\ freed \subseteq DOMAIN regions
  /\ m_begin \in [region : 0..Len(regions), from : Nat]
  /\ m_free_list \in [0..(list_num - 1) -> Seq(Pieces)]
  /\ m_freememory \in Seq(Pieces)
  /\ objects \subseteq [piece : Pieces, size : Sizes]
  /\ call \in [Threads -> [at : {"idle", "expand", "back", "pop"}, size : Sizes \union {0},
                              block : Pieces \union {Nothing}]]

(* Every live object has a malloc'd region of its own and sits at its      *)
(* start, and what is kept for later use is in regions of which nobody     *)
(* uses anything.  allocate() is written to carve regions up; that it      *)
(* never does, because it asks for exactly what it hands out, is what      *)
(* makes the operator delete of the logger's shared_ptrs hit the start of  *)
(* a region, and one that nobody else is in.                               *)
OwnRegion ==
  /\ TypeOK
  /\ \A o \in objects : o.piece.from = 0 /\ o.piece.region \in DOMAIN regions \ freed
  /\ \A o, q \in objects : o.piece.region = q.piece.region => o = q
  /\ \A p \in Kept : p.region \notin freed /\ \A o \in objects : o.piece.region # p.region
  /\ \A i \in Lists : \A k, n \in DOMAIN m_free_list[i] :
       m_free_list[i][k].region = m_free_list[i][n].region => k = n

(* An object fits into its piece, and a list has only pieces that are      *)
(* large enough for what is taken from it.                                 *)
FitsItsPiece ==
  /\ \A o \in objects : o.size <= o.piece.size
  /\ \A i \in Lists : \A p \in Listed(i) : p.size >= (i + 1) * node_size

=============================================================================
