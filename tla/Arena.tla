------------------------------- MODULE Arena --------------------------------
(***************************************************************************)
(* The memtable's bump allocator (src/src/memtable/arena.h) and the nodes  *)
(* and value cells that threads create in it (Node::create, makeSlot in    *)
(* skip_list.h), until ~Arena destroys the objects and frees the blocks.   *)
(*                                                                         *)
(* allocate() and registerDestructor() hold the arena's mutex, so each is  *)
(* one action.  Where operator new puts a block is external: anywhere that *)
(* is free.                                                                *)
(***************************************************************************)
EXTENDS Integers, Sequences, FiniteSets

CONSTANTS
  Threads,
  block_size_,
  NodeSizes,        \* bytes of a node and its links, by height
  SlotSize,         \* sizeof(ValueSlot)
  Alignment,        \* alignof(Node), alignof(ValueSlot)
  Bases, Space,     \* where blocks may begin, and the end of memory
  SizeMax,          \* numeric_limits<size_t>::max()
  MaxAllocs         \* bound: regions handed out

ASSUME ArenaAssumption ==
  /\ block_size_ \in Nat \ {0} /\ Alignment \in Nat \ {0}
  /\ NodeSizes \subseteq Nat /\ SlotSize \in Nat
  /\ Bases \subseteq Nat /\ Space \in Nat /\ SizeMax \in Nat
  /\ Space <= SizeMax /\ Alignment <= SizeMax
  /\ MaxAllocs \in Nat

VARIABLES
  block,        \* current_block_ and current_block_size_
  offset,       \* offset_
  blocks,       \* blocks_
  regions,      \* what allocate() returned, in order; each with its block
  destructors,  \* destructors_: positions in regions
  live,         \* constructed objects: positions in regions
  pc, node, slot,     \* each thread's place and the regions it has
  abandoned,    \* auxiliary: objects whose registration a throw cut short
  life          \* "alive", or how far ~Arena is

bumpVars == <<block, offset, blocks, regions>>
vars == <<bumpVars, destructors, live, pc, node, slot, abandoned, life>>

Apart(a, m, b, n) == a + m <= b \/ b + n <= a

(* operator new can put a block of n bytes at base.                        *)
Free(base, n) ==
  base + n <= Space /\ \A b \in blocks : Apart(base, n, b.base, b.size)

Init ==
  /\ \E base \in Bases : base + block_size_ <= Space /\ block = [base |-> base, size |-> block_size_]
  /\ offset = 0 /\ blocks = {block}
  /\ regions = <<>> /\ destructors = <<>> /\ live = {}
  /\ pc = [t \in Threads |-> "idle"]
  /\ node = [t \in Threads |-> 0] /\ slot = [t \in Threads |-> 0]
  /\ abandoned = {} /\ life = "alive"

-----------------------------------------------------------------------------
(* Arena::allocate().                                                      *)

(* Mutant: the address is returned as it is.                               *)
PadNone(p) == 0

padFor(p) == IF p % Alignment = 0 THEN 0 ELSE Alignment - (p % Alignment)

(* Mutant: the end is computed first, and may wrap around.                 *)
FitsSum(bytes) ==
  (offset + padFor(block.base + offset) + bytes) % (SizeMax + 1) <= block.size

(* The request fits behind what the current block has handed out.          *)
Fits(bytes) ==
  LET pad == padFor(block.base + offset)
      remaining == block.size - offset
  IN  pad <= remaining /\ bytes <= remaining - pad

(* Mutant: the padding is not counted.                                     *)
HandOutUnpadded(b, from, bytes) ==
  LET pad == padFor(b.base + from)
  IN  /\ block' = b
      /\ offset' = from + bytes
      /\ regions' = Append(regions, [at |-> b.base + from + pad, bytes |-> bytes, block |-> b])

(* bytes are taken from block b, whose first `from` bytes are handed out.  *)
HandOut(b, from, bytes) ==
  LET pad == padFor(b.base + from)
  IN  /\ block' = b
      /\ offset' = from + pad + bytes
      /\ regions' = Append(regions, [at |-> b.base + from + pad, bytes |-> bytes, block |-> b])

Larger(m, n) == IF m >= n THEN m ELSE n

(* A fresh block has room for the request and the worst padding.           *)
next_size(bytes) == Larger(block_size_, bytes + Alignment)

(* Position Len(regions) + 1 is the new region.                            *)
allocate(bytes) ==
  /\ Len(regions) < MaxAllocs
  /\ bytes <= SizeMax - Alignment
  /\ \/ Fits(bytes) /\ HandOut(block, offset, bytes) /\ UNCHANGED blocks
     \/ /\ ~Fits(bytes)
        /\ \E base \in Bases :
             LET fresh == [base |-> base, size |-> next_size(bytes)]
             IN  /\ Free(base, next_size(bytes))
                 /\ blocks' = blocks \cup {fresh}
                 /\ HandOut(fresh, 0, bytes)

New == Len(regions) + 1
Goto(t, label) == pc' = [pc EXCEPT ![t] = label]

-----------------------------------------------------------------------------
(* Node::create() and makeSlot().                                          *)

(* Node() is constructed in its region; then it needs a value cell.        *)
AllocateNode(t, bytes) ==
  /\ life = "alive" /\ pc[t] = "idle"
  /\ allocate(bytes)
  /\ node' = [node EXCEPT ![t] = New]
  /\ live' = live \cup {New}
  /\ Goto(t, "slot")
  /\ UNCHANGED <<destructors, slot, abandoned, life>>

(* An update of an existing node begins here.                              *)
AllocateSlot(t) ==
  /\ life = "alive" /\ pc[t] \in {"idle", "slot"}
  /\ allocate(SlotSize)
  /\ slot' = [slot EXCEPT ![t] = New]
  /\ live' = live \cup {New}
  /\ Goto(t, "register")
  /\ UNCHANGED <<destructors, node, abandoned, life>>

(* An allocation fails: of the key's bytes, the value cell or a slot of    *)
(* destructors_.  What is constructed and not registered stays behind.     *)
Throw(t) ==
  /\ pc[t] # "idle"
  /\ abandoned' = abandoned \cup ({node[t], slot[t]} \ {0})
  /\ node' = [node EXCEPT ![t] = 0] /\ slot' = [slot EXCEPT ![t] = 0]
  /\ Goto(t, "idle")
  /\ UNCHANGED <<bumpVars, destructors, live, life>>

RegisterSlot(t) ==
  /\ pc[t] = "register"
  /\ destructors' = Append(destructors, slot[t])
  /\ slot' = [slot EXCEPT ![t] = 0]
  /\ Goto(t, IF node[t] = 0 THEN "idle" ELSE "publish")
  /\ UNCHANGED <<bumpVars, live, node, abandoned, life>>

RegisterNode(t) ==
  /\ pc[t] = "publish"
  /\ destructors' = Append(destructors, node[t])
  /\ node' = [node EXCEPT ![t] = 0]
  /\ Goto(t, "idle")
  /\ UNCHANGED <<bumpVars, live, slot, abandoned, life>>

-----------------------------------------------------------------------------
(* ~Arena(), when no thread uses the memtable any more.                    *)

DestroyArena ==
  /\ life = "alive" /\ \A t \in Threads : pc[t] = "idle"
  /\ life' = "destroying"
  /\ UNCHANGED <<bumpVars, destructors, live, pc, node, slot, abandoned>>

Last == destructors[Len(destructors)]

RunDestructor ==
  /\ life = "destroying" /\ destructors # <<>>
  /\ live' = live \ {Last}
  /\ destructors' = SubSeq(destructors, 1, Len(destructors) - 1)
  /\ UNCHANGED <<bumpVars, pc, node, slot, abandoned, life>>

(* Mutant: the blocks are freed first.                                     *)
FreeBlocksFirst ==
  /\ life = "destroying"
  /\ blocks' = {} /\ life' = "freed"
  /\ UNCHANGED <<block, offset, regions, destructors, live, pc, node, slot, abandoned>>

FreeBlocks ==
  /\ life = "destroying" /\ destructors = <<>>
  /\ blocks' = {} /\ life' = "freed"
  /\ UNCHANGED <<block, offset, regions, destructors, live, pc, node, slot, abandoned>>

Next ==
  \/ \E t \in Threads :
       \/ \E bytes \in NodeSizes : AllocateNode(t, bytes)
       \/ AllocateSlot(t) \/ Throw(t) \/ RegisterSlot(t) \/ RegisterNode(t)
  \/ DestroyArena \/ RunDestructor \/ FreeBlocks

Spec == Init /\ [][Next]_vars

-----------------------------------------------------------------------------
(* Properties.                                                             *)

(* Every variable has its type, and offset_ stays within the block.        *)
TypeOK ==
  /\ block \in [base : Nat, size : Nat] /\ offset \in 0 .. block.size
  /\ life # "freed" => block \in blocks
  /\ \A b \in blocks : b \in [base : Nat, size : Nat]
  /\ \A i \in DOMAIN regions : regions[i].at \in Nat /\ regions[i].bytes \in Nat
  /\ live \subseteq DOMAIN regions /\ abandoned \subseteq live
  /\ pc \in [Threads -> {"idle", "slot", "register", "publish"}]
  /\ \A t \in Threads : node[t] \in {0} \cup live /\ slot[t] \in {0} \cup live
  /\ life \in {"alive", "destroying", "freed"}

(* What allocate() returned lies in a block of the arena, and no two       *)
(* allocations overlap: of any sizes, through any number of blocks.        *)
RegionsDisjoint ==
  /\ \A i \in DOMAIN regions :
       LET r == regions[i]
       IN  /\ life # "freed" => r.block \in blocks
           /\ r.block.base <= r.at /\ r.at + r.bytes <= r.block.base + r.block.size
  /\ \A i, j \in DOMAIN regions :
       i # j => Apart(regions[i].at, regions[i].bytes, regions[j].at, regions[j].bytes)

(* Every region is aligned as its type needs.                              *)
RegionsAligned == \A i \in DOMAIN regions : regions[i].at % Alignment = 0

(* ~Arena destroys every object once, linked into the list or not, while   *)
(* its block is still there, and leaves none undestroyed; but for those    *)
(* whose registration a throw cut short.                                   *)
DestroyedOnce ==
  /\ \A i \in DOMAIN destructors :
       destructors[i] \in live /\ regions[destructors[i]].block \in blocks
  /\ \A i, j \in DOMAIN destructors : i # j => destructors[i] # destructors[j]
  /\ life = "freed" => live = abandoned

=============================================================================
