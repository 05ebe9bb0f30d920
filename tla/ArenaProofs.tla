----------------------------- MODULE ArenaProofs ----------------------------
(***************************************************************************)
(* What allocate() returns is in a block of the arena, overlaps nothing    *)
(* returned before and is aligned: for every block size, request size,     *)
(* alignment and place where operator new puts the blocks.  ~Arena         *)
(* destroys every object that was registered, once.                        *)
(***************************************************************************)
EXTENDS Arena, TLAPS

Block == [base : Nat, size : Nat]
Region == [at : Nat, bytes : Nat, block : Block]

(* The types of what allocate() touches.                                   *)
BumpTypes ==
  /\ block \in Block /\ offset \in Nat /\ offset <= block.size
  /\ blocks \subseteq Block /\ regions \in Seq(Region)

Overlap(r, s) == ~Apart(r.at, r.bytes, s.at, s.bytes)

InBlock(r) == r.block.base <= r.at /\ r.at + r.bytes <= r.block.base + r.block.size

(* Inductive: the blocks do not overlap, every region is in its block, and *)
(* those of the current block end before offset_.                          *)
ArenaInv ==
  /\ BumpTypes
  /\ life # "freed" =>
       /\ block \in blocks
       /\ \A b, c \in blocks : b # c => Apart(b.base, b.size, c.base, c.size)
       /\ \A i \in DOMAIN regions : regions[i].block \in blocks
  /\ \A i \in DOMAIN regions :
       /\ InBlock(regions[i])
       /\ regions[i].at % Alignment = 0
       /\ regions[i].block = block => regions[i].at + regions[i].bytes <= block.base + offset
  /\ \A i, j \in DOMAIN regions : i # j => ~Overlap(regions[i], regions[j])

(* padFor() is at most the alignment, and brings an address to a multiple  *)
(* of it.                                                                  *)
LEMMA PadAligns ==
  ASSUME NEW p \in Nat
  PROVE  padFor(p) \in Nat /\ padFor(p) <= Alignment /\ (p + padFor(p)) % Alignment = 0
<1>1. padFor(p) \in 0 .. Alignment
  BY ArenaAssumption DEF padFor
<1>2. (p + padFor(p)) % Alignment = 0
  BY ArenaAssumption DEF padFor
<1> QED
  BY <1>1, <1>2, ArenaAssumption

(* A constructed arena satisfies the invariant.                            *)
LEMMA InitArena == Init => ArenaInv
<1> SUFFICES ASSUME Init PROVE ArenaInv
  OBVIOUS
<1>1. PICK base \in Bases : block = [base |-> base, size |-> block_size_]
  BY DEF Init
<1>2. offset = 0 /\ blocks = {block} /\ regions = <<>>
  BY DEF Init
<1>3. BumpTypes
  BY <1>1, <1>2, ArenaAssumption DEF BumpTypes, Block
<1> QED
  BY <1>2, <1>3 DEF ArenaInv

(* Handing out bytes behind the first `from` of a block of the arena keeps *)
(* the invariant when they fit and nothing behind `from` was handed out.   *)
LEMMA HandOutKeeps ==
  ASSUME ArenaInv, life = "alive", life' = "alive",
         NEW b \in Block, NEW from \in Nat, NEW bytes \in Nat,
         HandOut(b, from, bytes), blocks' = blocks \cup {b},
         from + padFor(b.base + from) + bytes <= b.size,
         \A c \in blocks : b # c => Apart(b.base, b.size, c.base, c.size),
         \A i \in DOMAIN regions :
           regions[i].block = b => regions[i].at + regions[i].bytes <= b.base + from
  PROVE  ArenaInv'
<1> DEFINE pad == padFor(b.base + from)
           new == [at |-> b.base + from + pad, bytes |-> bytes, block |-> b]
<1>1. b.base \in Nat /\ b.size \in Nat
  BY DEF Block
<1>2. pad \in Nat /\ (b.base + from + pad) % Alignment = 0
  BY <1>1, PadAligns
<1>3. block' = b /\ offset' = from + pad + bytes /\ regions' = Append(regions, new)
  BY DEF HandOut
<1> HIDE DEF pad
<1>4. new \in Region /\ InBlock(new) /\ new.at % Alignment = 0
      /\ new.block = b /\ new.at + new.bytes = b.base + from + pad + bytes
      /\ new.at >= b.base + from
  <2>1. new.at = b.base + from + pad /\ new.bytes = bytes /\ new.block = b
    OBVIOUS
  <2>2. new.at + new.bytes <= b.base + b.size
    BY <1>1, <1>2, <2>1 DEF pad
  <2> QED
    BY <1>1, <1>2, <2>1, <2>2 DEF Region, InBlock
<1> HIDE DEF new
<1>5. regions \in Seq(Region) /\ Len(regions) \in Nat /\ blocks \subseteq Block
  BY DEF ArenaInv, BumpTypes
<1>6. /\ regions' \in Seq(Region)
      /\ DOMAIN regions' = DOMAIN regions \cup {Len(regions) + 1}
      /\ \A i \in DOMAIN regions : regions'[i] = regions[i] /\ i # Len(regions) + 1
      /\ regions'[Len(regions) + 1] = new
  BY <1>3, <1>4, <1>5
<1>7. BumpTypes'
  <2>1. offset' \in Nat /\ offset' <= b.size
    BY <1>1, <1>2, <1>3 DEF pad
  <2> QED
    BY <1>3, <1>5, <1>6, <2>1 DEF BumpTypes
<1>8. /\ \A c \in blocks : \A d \in blocks : c # d => Apart(c.base, c.size, d.base, d.size)
      /\ \A i \in DOMAIN regions :
           regions[i].block \in blocks /\ InBlock(regions[i]) /\ regions[i].at % Alignment = 0
  BY DEF ArenaInv
<1>9. /\ b \in blocks'
      /\ \A c, d \in blocks' : c # d => Apart(c.base, c.size, d.base, d.size)
  BY <1>8 DEF Apart
<1>10. \A i \in DOMAIN regions' : regions'[i].block \in blocks'
  BY <1>4, <1>6, <1>8
<1>11. ASSUME NEW i \in DOMAIN regions
       PROVE  ~Overlap(regions[i], new) /\ ~Overlap(new, regions[i])
  <2> DEFINE r == regions[i]
  <2>1. r \in Region /\ r.block \in blocks /\ InBlock(r)
    BY <1>5, <1>8
  <2>2. r.at \in Nat /\ r.bytes \in Nat /\ r.block \in Block
    BY <2>1 DEF Region
  <2>3. r.block.base \in Nat /\ r.block.size \in Nat
    BY <2>2 DEF Block
  <2>4. new.at \in Nat /\ new.bytes \in Nat
    BY <1>4 DEF Region
  <2>5. r.block = b => r.at + r.bytes <= b.base + from
    OBVIOUS
  <2>6. r.block # b => Apart(b.base, b.size, r.block.base, r.block.size)
    BY <2>1
  <2> HIDE DEF r
  <2>7. CASE r.block = b
    BY <1>1, <1>4, <2>2, <2>4, <2>5, <2>7 DEF Overlap, Apart, r
  <2>8. CASE r.block # b
    BY <1>1, <1>4, <2>1, <2>2, <2>3, <2>4, <2>6, <2>8 DEF Overlap, Apart, InBlock, r
  <2> QED
    BY <2>7, <2>8
<1>12. \A i \in DOMAIN regions' :
         InBlock(regions'[i]) /\ regions'[i].at % Alignment = 0
  BY <1>4, <1>6, <1>8
<1>13. ASSUME NEW i \in DOMAIN regions', regions'[i].block = b
       PROVE  regions'[i].at + regions'[i].bytes <= b.base + offset'
  <2>1. CASE i = Len(regions) + 1
    BY <1>1, <1>2, <1>3, <1>4, <1>6, <2>1
  <2>2. CASE i \in DOMAIN regions
    <3>1. regions'[i] = regions[i] /\ regions[i] \in Region
      BY <1>5, <1>6, <2>2
    <3>2. regions[i].at + regions[i].bytes <= b.base + from
      BY <1>13, <2>2, <3>1
    <3>3. regions[i].at \in Nat /\ regions[i].bytes \in Nat
      BY <3>1 DEF Region
    <3>4. regions[i].at + regions[i].bytes \in Nat
      BY <3>3
    <3>5. b.base + offset' \in Nat /\ b.base + from <= b.base + offset'
      <4>1. PICK x \in Nat, y \in Nat, z \in Nat, w \in Nat :
              x = b.base /\ y = from /\ z = pad /\ w = bytes
        BY <1>1, <1>2, Zenon
      <4>2. offset' = y + z + w
        BY <1>3, <4>1, Zenon
      <4>3. x + (y + z + w) \in Nat /\ x + y <= x + (y + z + w)
        OBVIOUS
      <4> QED
        BY <4>1, <4>2, <4>3, Zenon
    <3> QED
      BY <1>1, <3>1, <3>2, <3>4, <3>5
  <2> QED
    BY <1>6, <2>1, <2>2
<1>14. \A i, j \in DOMAIN regions' : i # j => ~Overlap(regions'[i], regions'[j])
  <2>1. \A i, j \in DOMAIN regions : i # j => ~Overlap(regions[i], regions[j])
    BY DEF ArenaInv
  <2> QED
    BY <1>6, <1>11, <2>1
<1>15. \A i \in DOMAIN regions' :
         regions'[i].block = block' => regions'[i].at + regions'[i].bytes <= block'.base + offset'
  BY <1>3, <1>13
<1>16. block' \in blocks'
  BY <1>3, <1>9
<1> QED
  BY <1>7, <1>9, <1>10, <1>12, <1>14, <1>15, <1>16 DEF ArenaInv, InBlock, Overlap, Apart

(* allocate() keeps the invariant, whether the request fits the current    *)
(* block or a fresh one is taken.                                          *)
LEMMA AllocateKeeps ==
  ASSUME ArenaInv, life = "alive", life' = "alive", NEW bytes \in Nat, allocate(bytes)
  PROVE  ArenaInv'
<1>1. block \in Block /\ offset \in Nat /\ offset <= block.size /\ blocks \subseteq Block
  BY DEF ArenaInv, BumpTypes
<1>2. block.base \in Nat /\ block.size \in Nat
  BY <1>1 DEF Block
<1>3. CASE Fits(bytes) /\ HandOut(block, offset, bytes) /\ UNCHANGED blocks
  <2>1. padFor(block.base + offset) \in Nat
    BY <1>1, <1>2, PadAligns
  <2>2. offset + padFor(block.base + offset) + bytes <= block.size
    BY <1>1, <1>2, <1>3, <2>1 DEF Fits
  <2>3. /\ block \in blocks
        /\ \A c \in blocks : block # c => Apart(block.base, block.size, c.base, c.size)
        /\ \A i \in DOMAIN regions :
             regions[i].block = block => regions[i].at + regions[i].bytes <= block.base + offset
    BY DEF ArenaInv
  <2>4. blocks' = blocks \cup {block}
    BY <1>3, <2>3
  <2> QED
    BY <1>1, <1>3, <2>2, <2>3, <2>4, HandOutKeeps
<1>4. ASSUME NEW base \in Bases,
             Free(base, next_size(bytes)),
             blocks' = blocks \cup {[base |-> base, size |-> next_size(bytes)]},
             HandOut([base |-> base, size |-> next_size(bytes)], 0, bytes)
      PROVE  ArenaInv'
  <2> DEFINE fresh == [base |-> base, size |-> next_size(bytes)]
  <2>1. next_size(bytes) \in Nat \ {0} /\ next_size(bytes) >= bytes + Alignment
    BY ArenaAssumption DEF next_size, Larger
  <2>2. base \in Nat
    BY ArenaAssumption
  <2>3. fresh \in Block /\ fresh.base = base /\ fresh.size = next_size(bytes)
    BY <2>1, <2>2 DEF Block
  <2>4. \A c \in blocks : Apart(fresh.base, fresh.size, c.base, c.size)
    BY <1>4, <2>3 DEF Free
  <2>5. ~(fresh \in blocks)
    BY <2>1, <2>2, <2>3, <2>4 DEF Apart
  <2>6. \A i \in DOMAIN regions : regions[i].block # fresh
    BY <2>5 DEF ArenaInv
  <2>7. 0 + padFor(fresh.base + 0) + bytes <= fresh.size
    <3>1. padFor(fresh.base + 0) \in Nat /\ padFor(fresh.base + 0) <= Alignment
      BY <2>2, <2>3, PadAligns
    <3> QED
      BY <2>1, <2>3, <3>1, ArenaAssumption
  <2> HIDE DEF fresh
  <2>8. blocks' = blocks \cup {fresh} /\ HandOut(fresh, 0, bytes)
    BY <1>4 DEF fresh
  <2> QED
    BY <2>3, <2>4, <2>6, <2>7, <2>8, HandOutKeeps
<1> QED
  BY <1>3, <1>4, Zenon DEF allocate

(* Every step keeps the invariant.                                         *)
LEMMA NextArena == ArenaInv /\ [Next]_vars => ArenaInv'
<1> SUFFICES ASSUME ArenaInv, [Next]_vars PROVE ArenaInv'
  OBVIOUS
<1>1. ASSUME NEW t \in Threads, NEW bytes \in NodeSizes, AllocateNode(t, bytes) PROVE ArenaInv'
  <2>1. bytes \in Nat
    BY ArenaAssumption
  <2> QED
    BY <1>1, <2>1, AllocateKeeps DEF AllocateNode
<1>2. ASSUME NEW t \in Threads, AllocateSlot(t) PROVE ArenaInv'
  BY <1>2, AllocateKeeps, ArenaAssumption DEF AllocateSlot
<1>3. ASSUME UNCHANGED bumpVars, life' = "freed" => life = "freed", life = "freed" => life' = "freed"
      PROVE  ArenaInv'
  BY <1>3 DEF ArenaInv, BumpTypes, bumpVars, InBlock, Overlap, Apart
<1>4. CASE \E t \in Threads : Throw(t) \/ RegisterSlot(t) \/ RegisterNode(t)
  BY <1>3, <1>4 DEF Throw, RegisterSlot, RegisterNode
<1>5. CASE DestroyArena \/ RunDestructor \/ UNCHANGED vars
  BY <1>3, <1>5 DEF DestroyArena, RunDestructor, vars
<1>6. CASE FreeBlocks
  BY <1>6 DEF FreeBlocks, ArenaInv, BumpTypes, InBlock, Overlap, Apart
<1> QED
  BY <1>1, <1>2, <1>4, <1>5, <1>6 DEF Next

(* The invariant holds of every reachable state.                           *)
THEOREM ArenaInvariant == Spec => []ArenaInv
  BY InitArena, NextArena, PTL DEF Spec

(* Regions handed out by Arena::allocate() never overlap and stay in their *)
(* blocks, through any sequence of fresh blocks.                           *)
THEOREM Disjoint == Spec => []RegionsDisjoint
<1>1. ArenaInv => RegionsDisjoint
  BY DEF ArenaInv, RegionsDisjoint, InBlock, Overlap
<1> QED
  BY <1>1, ArenaInvariant, PTL

(* Every region handed out by Arena::allocate() is aligned, wherever the   *)
(* blocks begin.                                                           *)
THEOREM Aligned == Spec => []RegionsAligned
<1>1. ArenaInv => RegionsAligned
  BY DEF ArenaInv, RegionsAligned
<1> QED
  BY <1>1, ArenaInvariant, PTL

-----------------------------------------------------------------------------
(* Who owns an object: the thread that creates it, destructors_, or nobody *)
(* once a throw has cut its registration short.                            *)

Held(t) == {node[t], slot[t]} \ {0}
Registered == {destructors[i] : i \in DOMAIN destructors}

(* Where a thread is and what it holds.                                    *)
Holding(t) ==
  /\ pc[t] = "idle" => node[t] = 0 /\ slot[t] = 0
  /\ pc[t] = "slot" => node[t] # 0 /\ slot[t] = 0
  /\ pc[t] = "register" => slot[t] # 0 /\ slot[t] # node[t]
  /\ pc[t] = "publish" => node[t] # 0 /\ slot[t] = 0
  /\ Held(t) \subseteq live /\ Held(t) \cap (Registered \cup abandoned) = {}

ObjectTypes ==
  /\ pc \in [Threads -> {"idle", "slot", "register", "publish"}]
  /\ node \in [Threads -> Nat] /\ slot \in [Threads -> Nat]
  /\ destructors \in Seq(Nat) /\ live \subseteq DOMAIN regions
  /\ life \in {"alive", "destroying", "freed"}

(* Inductive: every constructed object has exactly one owner.              *)
ObjectInv ==
  /\ ObjectTypes
  /\ \A t \in Threads : Holding(t)
  /\ \A t, u \in Threads : t # u => Held(t) \cap Held(u) = {}
  /\ Registered \subseteq live /\ abandoned \subseteq live
  /\ Registered \cap abandoned = {}
  /\ \A o \in live : o \in Registered \cup abandoned \/ \E t \in Threads : o \in Held(t)
  /\ \A i, j \in DOMAIN destructors : i # j => destructors[i] # destructors[j]
  /\ life # "alive" => \A t \in Threads : pc[t] = "idle"
  /\ life = "freed" => destructors = <<>>

(* A constructed arena has no objects.                                     *)
LEMMA InitObjects == Init => ObjectInv
<1> SUFFICES ASSUME Init PROVE ObjectInv
  OBVIOUS
<1>1. destructors \in Seq(Nat) /\ Registered = {}
  BY DEF Init, Registered
<1>2. ObjectTypes
  BY <1>1 DEF Init, ObjectTypes
<1>3. \A t \in Threads : Held(t) = {} /\ pc[t] = "idle" /\ node[t] = 0 /\ slot[t] = 0
  BY DEF Init, Held
<1>4. DOMAIN destructors = {} /\ live = {} /\ abandoned = {} /\ life = "alive"
  BY DEF Init
<1> QED
  BY <1>1, <1>2, <1>3, <1>4, Zenon DEF ObjectInv, Holding

(* A new region is no object yet.                                          *)
LEMMA NewRegion ==
  ASSUME ArenaInv, ObjectInv, NEW bytes, allocate(bytes)
  PROVE  /\ New \in Nat \ {0} /\ New \notin live /\ New \in DOMAIN regions'
         /\ live \subseteq DOMAIN regions'
<1>1. regions \in Seq(Region)
  BY DEF ArenaInv, BumpTypes
<1>2. PICK r : regions' = Append(regions, r)
  BY Zenon DEF allocate, HandOut
<1>3. DOMAIN regions' = DOMAIN regions \cup {New} /\ New \in Nat \ {0} /\ New \notin DOMAIN regions
  BY <1>1, <1>2 DEF New
<1> QED
  BY <1>3, Zenon DEF ObjectInv, ObjectTypes

(* Node::create() constructs a node that only its thread has.              *)
LEMMA NodeOwned ==
  ASSUME ArenaInv, ObjectInv, NEW t \in Threads, NEW bytes, AllocateNode(t, bytes)
  PROVE  ObjectInv'
<1>1. /\ New \in Nat \ {0} /\ New \notin live /\ New \in DOMAIN regions'
      /\ live \subseteq DOMAIN regions'
  BY NewRegion DEF AllocateNode
<1>2. /\ pc[t] = "idle" /\ pc' = [pc EXCEPT ![t] = "slot"]
      /\ node' = [node EXCEPT ![t] = New] /\ live' = live \cup {New}
      /\ slot' = slot /\ destructors' = destructors /\ abandoned' = abandoned
      /\ life = "alive" /\ life' = "alive"
  BY DEF AllocateNode, Goto
<1>3. ObjectTypes'
  BY <1>1, <1>2 DEF ObjectInv, ObjectTypes
<1>4. /\ Registered' = Registered /\ Held(t)' = {New}
      /\ \A u \in Threads \ {t} : Held(u)' = Held(u)
  BY <1>1, <1>2 DEF Registered, Held, ObjectInv, ObjectTypes, Holding
<1>5. Held(t) = {}
  BY <1>2 DEF ObjectInv, Holding, Held
<1>6. \A u \in Threads : Holding(u)'
  BY <1>1, <1>2, <1>4 DEF ObjectInv, ObjectTypes, Holding
<1> QED
  BY <1>1, <1>2, <1>3, <1>4, <1>5, <1>6 DEF ObjectInv, Holding

(* makeSlot() constructs a value cell that only its thread has.            *)
LEMMA SlotOwned ==
  ASSUME ArenaInv, ObjectInv, NEW t \in Threads, AllocateSlot(t)
  PROVE  ObjectInv'
<1>1. /\ New \in Nat \ {0} /\ New \notin live /\ New \in DOMAIN regions'
      /\ live \subseteq DOMAIN regions'
  BY NewRegion DEF AllocateSlot
<1>2. /\ pc[t] \in {"idle", "slot"} /\ pc' = [pc EXCEPT ![t] = "register"]
      /\ slot' = [slot EXCEPT ![t] = New] /\ live' = live \cup {New}
      /\ node' = node /\ destructors' = destructors /\ abandoned' = abandoned
      /\ life = "alive" /\ life' = "alive"
  BY DEF AllocateSlot, Goto
<1>3. ObjectTypes'
  BY <1>1, <1>2 DEF ObjectInv, ObjectTypes
<1>4. /\ Registered' = Registered /\ Held(t)' = Held(t) \cup {New} /\ New # node[t]
      /\ \A u \in Threads \ {t} : Held(u)' = Held(u)
  BY <1>1, <1>2 DEF Registered, Held, ObjectInv, ObjectTypes, Holding
<1>5. \A u \in Threads : Holding(u)'
  BY <1>1, <1>2, <1>4 DEF ObjectInv, ObjectTypes, Holding
<1> QED
  BY <1>1, <1>2, <1>3, <1>4, <1>5 DEF ObjectInv, Holding

(* registerDestructor() takes an object over from its thread.              *)
LEMMA RegisteredOnce ==
  ASSUME ObjectInv, NEW t \in Threads, NEW o \in Held(t),
         destructors' = Append(destructors, o),
         \A u \in Threads \ {t} : Held(u)' = Held(u), Held(t)' = Held(t) \ {o},
         UNCHANGED <<live, abandoned, life>>, ObjectTypes',
         \A u \in Threads \ {t} : pc'[u] = pc[u] /\ node'[u] = node[u] /\ slot'[u] = slot[u],
         /\ pc'[t] = "idle" => node'[t] = 0 /\ slot'[t] = 0
         /\ pc'[t] = "publish" => node'[t] # 0 /\ slot'[t] = 0
         /\ pc'[t] \in {"idle", "publish"} /\ pc[t] # "idle"
  PROVE  ObjectInv'
<1>1. o \in live /\ o \notin Registered /\ o \notin abandoned
  BY Zenon DEF ObjectInv, Holding
<1>2. destructors \in Seq(Nat) /\ o \in Nat
  BY DEF ObjectInv, ObjectTypes, Held
<1>3. /\ DOMAIN destructors' = DOMAIN destructors \cup {Len(destructors) + 1}
      /\ \A i \in DOMAIN destructors :
           destructors'[i] = destructors[i] /\ i # Len(destructors) + 1
      /\ destructors'[Len(destructors) + 1] = o
  BY <1>2
<1>4. Registered' = Registered \cup {o}
  BY <1>3 DEF Registered
<1>5. \A i \in DOMAIN destructors : destructors[i] # o
  BY <1>1, Zenon DEF Registered
<1>6. \A i, j \in DOMAIN destructors' : i # j => destructors'[i] # destructors'[j]
  <2>1. \A i, j \in DOMAIN destructors : i # j => destructors[i] # destructors[j]
    BY Zenon DEF ObjectInv
  <2> QED
    BY <1>3, <1>5, <2>1
<1>7. \A u \in Threads \ {t} : o \notin Held(u)
  BY Zenon DEF ObjectInv
<1>8. \A u \in Threads : Holding(u)'
  BY <1>1, <1>4, <1>7 DEF ObjectInv, Holding
<1>9. \A u, v \in Threads : u # v => Held(u)' \cap Held(v)' = {}
  BY DEF ObjectInv
<1>10. \A p \in live' : p \in Registered' \cup abandoned' \/ \E u \in Threads : p \in Held(u)'
  BY <1>4 DEF ObjectInv
<1>11. life' = "alive"
  BY DEF ObjectInv, ObjectTypes
<1> QED
  BY <1>1, <1>4, <1>6, <1>8, <1>9, <1>10, <1>11 DEF ObjectInv

(* Every step leaves every object with one owner.                          *)
LEMMA NextObjects == ArenaInv /\ ObjectInv /\ [Next]_vars => ObjectInv'
<1> SUFFICES ASSUME ArenaInv, ObjectInv, [Next]_vars PROVE ObjectInv'
  OBVIOUS
<1> USE DEF ObjectTypes
<1>1. ASSUME NEW t \in Threads, Throw(t) PROVE ObjectInv'
  <2>1. /\ pc[t] # "idle" /\ pc' = [pc EXCEPT ![t] = "idle"]
        /\ node' = [node EXCEPT ![t] = 0] /\ slot' = [slot EXCEPT ![t] = 0]
        /\ abandoned' = abandoned \cup Held(t)
        /\ destructors' = destructors /\ live' = live /\ life' = life /\ regions' = regions
    BY <1>1, Zenon DEF Throw, Goto, Held, bumpVars
  <2>2. ObjectTypes'
    BY <2>1 DEF ObjectInv
  <2>3. /\ Registered' = Registered /\ Held(t)' = {}
        /\ \A u \in Threads \ {t} : Held(u)' = Held(u)
    BY <2>1 DEF Registered, Held, ObjectInv
  <2>4. \A u \in Threads : Holding(u)'
    BY <2>1, <2>3 DEF ObjectInv, Holding
  <2>5. life = "alive"
    BY <2>1, Zenon DEF ObjectInv
  <2>6. \A o \in live : o \in Registered' \cup abandoned' \/ \E u \in Threads : o \in Held(u)'
    <3> SUFFICES ASSUME NEW o \in live
                 PROVE  o \in Registered' \cup abandoned' \/ \E u \in Threads : o \in Held(u)'
      BY Zenon
    <3>1. CASE o \in Registered \cup abandoned
      BY <2>1, <2>3, <3>1, Zenon
    <3>2. ASSUME NEW u \in Threads, o \in Held(u)
          PROVE  o \in Registered' \cup abandoned' \/ \E v \in Threads : o \in Held(v)'
      BY <2>1, <2>3, <3>2, Zenon
    <3> QED
      BY <3>1, <3>2, Zenon DEF ObjectInv
  <2>7. abandoned' \subseteq live /\ Registered \cap abandoned' = {}
    BY <2>1 DEF ObjectInv, Holding
  <2>8. \A u, v \in Threads : u # v => Held(u)' \cap Held(v)' = {}
    BY <2>3, Zenon DEF ObjectInv
  <2> QED
    BY <2>1, <2>2, <2>3, <2>4, <2>5, <2>6, <2>7, <2>8, Zenon DEF ObjectInv
<1>2. ASSUME NEW t \in Threads, RegisterSlot(t) PROVE ObjectInv'
  <2>1. /\ pc[t] = "register" /\ destructors' = Append(destructors, slot[t])
        /\ pc' = [pc EXCEPT ![t] = IF node[t] = 0 THEN "idle" ELSE "publish"]
        /\ slot' = [slot EXCEPT ![t] = 0] /\ node' = node
        /\ UNCHANGED <<live, abandoned, life>> /\ regions' = regions
    BY <1>2, Zenon DEF RegisterSlot, Goto, bumpVars
  <2>2. /\ slot[t] \in Held(t) /\ Held(t)' = Held(t) \ {slot[t]}
        /\ \A u \in Threads \ {t} : Held(u)' = Held(u)
    BY <2>1 DEF ObjectInv, Holding, Held
  <2>3. ObjectTypes'
    BY <2>1 DEF ObjectInv
  <2>4. /\ pc'[t] = "idle" => node'[t] = 0 /\ slot'[t] = 0
        /\ pc'[t] = "publish" => node'[t] # 0 /\ slot'[t] = 0
        /\ pc'[t] \in {"idle", "publish"} /\ pc[t] # "idle"
        /\ \A u \in Threads \ {t} : pc'[u] = pc[u] /\ node'[u] = node[u] /\ slot'[u] = slot[u]
    BY <2>1 DEF ObjectInv
  <2> QED
    BY <2>1, <2>2, <2>3, <2>4, RegisteredOnce, Zenon
<1>3. ASSUME NEW t \in Threads, RegisterNode(t) PROVE ObjectInv'
  <2>1. /\ pc[t] = "publish" /\ destructors' = Append(destructors, node[t])
        /\ pc' = [pc EXCEPT ![t] = "idle"]
        /\ node' = [node EXCEPT ![t] = 0] /\ slot' = slot
        /\ UNCHANGED <<live, abandoned, life>> /\ regions' = regions
    BY <1>3, Zenon DEF RegisterNode, Goto, bumpVars
  <2>2. /\ node[t] \in Held(t) /\ Held(t)' = Held(t) \ {node[t]}
        /\ \A u \in Threads \ {t} : Held(u)' = Held(u)
    BY <2>1 DEF ObjectInv, Holding, Held
  <2>3. ObjectTypes'
    BY <2>1 DEF ObjectInv
  <2>4. /\ pc'[t] = "idle" => node'[t] = 0 /\ slot'[t] = 0
        /\ pc'[t] = "publish" => node'[t] # 0 /\ slot'[t] = 0
        /\ pc'[t] \in {"idle", "publish"} /\ pc[t] # "idle"
        /\ \A u \in Threads \ {t} : pc'[u] = pc[u] /\ node'[u] = node[u] /\ slot'[u] = slot[u]
    BY <2>1 DEF ObjectInv, Holding
  <2> QED
    BY <2>1, <2>2, <2>3, <2>4, RegisteredOnce, Zenon
<1>4. ASSUME RunDestructor PROVE ObjectInv'
  <2>1. /\ life = "destroying" /\ destructors # <<>> /\ live' = live \ {Last}
        /\ destructors' = SubSeq(destructors, 1, Len(destructors) - 1)
        /\ UNCHANGED <<pc, node, slot, abandoned, life>> /\ regions' = regions
    BY <1>4, Zenon DEF RunDestructor, bumpVars
  <2> DEFINE n == Len(destructors)
  <2>2. destructors \in Seq(Nat) /\ n \in Nat \ {0} /\ n \in DOMAIN destructors
    BY <2>1 DEF ObjectInv
  <2>3. /\ DOMAIN destructors' = DOMAIN destructors \ {n} /\ destructors' \in Seq(Nat)
        /\ \A i \in DOMAIN destructors' : destructors'[i] = destructors[i]
    BY <2>1, <2>2, SMTT(30)
  <2>4. \A i, j \in DOMAIN destructors : i # j => destructors[i] # destructors[j]
    BY Zenon DEF ObjectInv
  <2>5. Last = destructors[n] /\ Last \in Registered
    BY <2>2, Zenon DEF Last, Registered
  <2> HIDE DEF n
  <2>6. Registered' = Registered \ {Last}
    <3>1. ASSUME NEW o \in Registered' PROVE o \in Registered \ {Last}
      BY <2>2, <2>3, <2>4, <2>5, Zenon DEF Registered
    <3>2. ASSUME NEW o \in Registered \ {Last} PROVE o \in Registered'
      BY <2>3, <2>5, Zenon DEF Registered
    <3> QED
      BY <3>1, <3>2, Zenon
  <2>7. \A u \in Threads : Held(u)' = Held(u) /\ Held(u) = {}
    BY <2>1 DEF ObjectInv, Holding, Held
  <2>8. ObjectTypes'
    BY <2>1, <2>3 DEF ObjectInv
  <2>9. \A u \in Threads : Holding(u)'
    BY <2>1, <2>7 DEF ObjectInv, Holding
  <2> QED
    BY <2>1, <2>3, <2>4, <2>5, <2>6, <2>7, <2>8, <2>9 DEF ObjectInv
<1>5. ASSUME UNCHANGED <<destructors, live, pc, node, slot, abandoned, regions>>,
             life' \in {"alive", "destroying", "freed"},
             life' # "alive" => \A t \in Threads : pc[t] = "idle",
             life' = "freed" => destructors = <<>>
      PROVE  ObjectInv'
  <2>1. Registered' = Registered /\ \A u \in Threads : Held(u)' = Held(u)
    BY <1>5 DEF Registered, Held
  <2>2. ObjectTypes' /\ \A u \in Threads : Holding(u)'
    BY <1>5, <2>1 DEF ObjectInv, Holding
  <2> QED
    BY <1>5, <2>1, <2>2 DEF ObjectInv
<1>6. CASE DestroyArena \/ FreeBlocks \/ UNCHANGED vars
  <2>1. UNCHANGED <<destructors, live, pc, node, slot, abandoned, regions>>
    BY <1>6, Zenon DEF DestroyArena, FreeBlocks, vars, bumpVars
  <2>2. /\ life' \in {"alive", "destroying", "freed"}
        /\ life' # "alive" => \A t \in Threads : pc[t] = "idle"
        /\ life' = "freed" => destructors = <<>>
    BY <1>6 DEF DestroyArena, FreeBlocks, vars, ObjectInv
  <2> QED
    BY <1>5, <2>1, <2>2, Zenon
<1> QED
  BY <1>1, <1>2, <1>3, <1>4, <1>6, NodeOwned, SlotOwned, Zenon DEF Next

(* Every object has one owner in every reachable state.                    *)
THEOREM ObjectsOwned == Spec => [](ArenaInv /\ ObjectInv)
  BY InitArena, NextArena, InitObjects, NextObjects, PTL DEF Spec

(* Every variable of the arena keeps its type, for any threads and sizes.  *)
THEOREM ArenaTyped == Spec => []TypeOK
<1>1. ArenaInv /\ ObjectInv => TypeOK
  <2> SUFFICES ASSUME ArenaInv, ObjectInv PROVE TypeOK
    OBVIOUS
  <2>1. ASSUME NEW i \in DOMAIN regions PROVE regions[i].at \in Nat /\ regions[i].bytes \in Nat
    <3>1. regions[i] \in Region
      BY DEF ArenaInv, BumpTypes
    <3> QED
      BY <3>1 DEF Region
  <2>2. block \in Block /\ block.size \in Nat /\ offset \in 0 .. block.size
    BY DEF ArenaInv, BumpTypes, Block
  <2>3. \A t \in Threads : node[t] \in {0} \cup live /\ slot[t] \in {0} \cup live
    BY Zenon DEF ObjectInv, Holding, Held
  <2> QED
    BY <2>1, <2>2, <2>3, Zenon DEF TypeOK, ArenaInv, BumpTypes, Block, ObjectInv, ObjectTypes
<1> QED
  BY <1>1, ObjectsOwned, PTL

(* ~Arena destroys every registered object once, while its block is still  *)
(* there, and leaves only those whose registration a throw cut short.      *)
THEOREM DestroysOnce == Spec => []DestroyedOnce
<1>1. ArenaInv /\ ObjectInv => DestroyedOnce
  <2> SUFFICES ASSUME ArenaInv, ObjectInv PROVE DestroyedOnce
    OBVIOUS
  <2>1. \A i \in DOMAIN destructors : destructors[i] \in live /\ destructors[i] \in DOMAIN regions
    BY Zenon DEF ObjectInv, ObjectTypes, Registered
  <2>2. life = "freed" => DOMAIN destructors = {} /\ Registered = {}
    BY DEF ObjectInv, Registered
  <2>3. life = "freed" => live = abandoned
    <3>1. ASSUME life = "freed", NEW t \in Threads PROVE Held(t) = {}
      BY <3>1 DEF ObjectInv, Holding, Held
    <3> QED
      BY <2>2, <3>1, Zenon DEF ObjectInv
  <2> QED
    BY <2>1, <2>2, <2>3, Zenon DEF DestroyedOnce, ArenaInv, ObjectInv
<1> QED
  BY <1>1, ObjectsOwned, PTL

=============================================================================
