------------------------------ MODULE SkipList ------------------------------
(***************************************************************************)
(* The lock-free skip list and the memtable around it                      *)
(* (src/src/memtable/skip_list.h): concurrent inserts, lookups and         *)
(* iterators, one action per atomic load, store, CAS or fetch_add.         *)
(*                                                                         *)
(* A new node is private until the CAS that links it at level 0, so        *)
(* creating it and that CAS are one action; a node whose CAS fails is      *)
(* abandoned in the arena and is not seen again.  Memory is sequentially   *)
(* consistent.                                                             *)
(***************************************************************************)
EXTENDS Integers, FiniteSets, Sequences, FiniteSetsExt

CONSTANTS
  Threads,
  Nodes,        \* addresses the arena hands out
  Keys,         \* positive numbers, in key order
  Values,       \* a value is known by its length
  MAX_HEIGHT,
  EntryBytes,   \* key.size() + 8, the same for all keys
  SizeModulus,  \* size_t wraps around here
  MaxCalls      \* bound: calls

head == 0       \* the head node, whose key is below every other
Nil  == -1
Tomb == -1      \* std::nullopt as a value
Miss == -2      \* no entry for the key

ASSUME ListAssumption ==
  /\ IsFiniteSet(Threads)
  /\ Nodes \subseteq Nat \ {0} /\ IsFiniteSet(Nodes)
  /\ Keys \subseteq Nat \ {0}
  /\ Values \subseteq Nat
  /\ MAX_HEIGHT \in Nat \ {0}
  /\ EntryBytes \in Nat /\ SizeModulus \in Nat \ {0}
  /\ MaxCalls \in Nat

Levels == 0 .. MAX_HEIGHT - 1
Cells  == Values \cup {Tomb}
Links  == Nodes \cup {head, Nil}
Calls  == [kind : {"insert"}, key : Keys, val : Cells]
            \cup [kind : {"get", "scan"}, key : Keys]

VARIABLES
  key, height, value, next,   \* the nodes' fields
  links,      \* auxiliary: the number of levels at which a node is linked
  bytes,      \* Memtable::current_bytes_
  count,      \* Memtable::count_
  pc, op,     \* each thread's place and call
  x, lvl,     \* find(): the node it is at and the level
  preds, succs,
  node,       \* insert(): newNode, once it is linked at level 0
  replaced,   \* insert(): bytes of the displaced value
  out,        \* what get() returned; the keys an iterator has yielded
  seen,       \* auxiliary: get(): what the key has held since the call
              \* began; iterator: the keys in range when it began
  raced,      \* auxiliary: two inserts of one key have overlapped
  calls

listVars == <<key, height, value, next, links>>
sumVars  == <<bytes, count>>
findVars == <<x, lvl, preds, succs>>
vars == <<listVars, sumVars, pc, op, findVars, node, replaced, out, seen, raced, calls>>

Size(c) == IF c = Tomb THEN 0 ELSE c

Linked(n, l) == l < links[n]
Present == {n \in Nodes : Linked(n, 0)}

(* What the list holds for k.                                              *)
Current(k) ==
  IF \E n \in Present : key[n] = k THEN value[CHOOSE n \in Present : key[n] = k] ELSE Miss

Init ==
  /\ key = [n \in Nodes \cup {head} |-> 0]
  /\ height = [n \in Nodes \cup {head} |-> IF n = head THEN MAX_HEIGHT ELSE 0]
  /\ value = [n \in Nodes \cup {head} |-> Tomb]
  /\ next = [n \in Nodes \cup {head} |-> [l \in Levels |-> Nil]]
  /\ links = [n \in Nodes \cup {head} |-> IF n = head THEN MAX_HEIGHT ELSE 0]
  /\ bytes = 0 /\ count = 0
  /\ pc = [t \in Threads |-> "idle"]
  /\ op = [t \in Threads |-> [kind |-> "none"]]
  /\ x = [t \in Threads |-> head] /\ lvl = [t \in Threads |-> 0]
  /\ preds = [t \in Threads |-> [l \in Levels |-> head]]
  /\ succs = [t \in Threads |-> [l \in Levels |-> Nil]]
  /\ node = [t \in Threads |-> Nil]
  /\ replaced = [t \in Threads |-> 0]
  /\ out = [t \in Threads |-> <<>>]
  /\ seen = [t \in Threads |-> {}]
  /\ raced = FALSE /\ calls = 0

-----------------------------------------------------------------------------
(* Calls.  An insert is Memtable::put() or del().                          *)

Inserting(t, k) == pc[t] # "idle" /\ op[t].kind = "insert" /\ op[t].key = k

Call(t, o) ==
  /\ pc[t] = "idle" /\ calls < MaxCalls
  /\ op' = [op EXCEPT ![t] = o]
  /\ pc' = [pc EXCEPT ![t] = "find"]
  /\ x' = [x EXCEPT ![t] = head] /\ lvl' = [lvl EXCEPT ![t] = MAX_HEIGHT - 1]
  /\ node' = [node EXCEPT ![t] = Nil]
  /\ out' = [out EXCEPT ![t] = <<>>]
  /\ seen' = [seen EXCEPT ![t] =
                CASE o.kind = "get" -> {Current(o.key)}
                  [] o.kind = "scan" -> {key[n] : n \in {m \in Present : key[m] >= o.key}}
                  [] OTHER -> {}]
  /\ raced' = (raced \/ (o.kind = "insert" /\ \E u \in Threads : Inserting(u, o.key)))
  /\ calls' = calls + 1
  /\ UNCHANGED <<listVars, sumVars, preds, succs, replaced>>

(* The list now holds v for k: for the lookups of k under way.             *)
Seen(k, v) ==
  [u \in Threads |-> IF pc[u] # "idle" /\ op[u].kind = "get" /\ op[u].key = k
                       THEN seen[u] \cup {v} ELSE seen[u]]

-----------------------------------------------------------------------------
(* find().                                                                 *)

Ahead(t) == next[x[t]][lvl[t]]

(* Mutant: the search goes past an equal key.                              *)
BeforePastEqual(n, k) == n # Nil /\ key[n] <= k

Before(n, k) == n # Nil /\ key[n] < k

FindForward(t) ==
  /\ pc[t] = "find" /\ Before(Ahead(t), op[t].key)
  /\ x' = [x EXCEPT ![t] = Ahead(t)]
  /\ UNCHANGED <<listVars, sumVars, pc, op, lvl, preds, succs, node, replaced, out,
                 seen, raced, calls>>

(* Mutant: the loop goes one level too far.                                *)
FindDownPastZero(t) ==
  /\ pc[t] = "find" /\ lvl[t] >= 0 /\ ~Before(Ahead(t), op[t].key)
  /\ preds' = [preds EXCEPT ![t][lvl[t]] = x[t]]
  /\ succs' = [succs EXCEPT ![t][lvl[t]] = Ahead(t)]
  /\ lvl' = [lvl EXCEPT ![t] = @ - 1]
  /\ UNCHANGED <<listVars, sumVars, pc, op, x, node, replaced, out, seen, raced, calls>>

FindDown(t) ==
  /\ pc[t] = "find" /\ lvl[t] > 0 /\ ~Before(Ahead(t), op[t].key)
  /\ preds' = [preds EXCEPT ![t][lvl[t]] = x[t]]
  /\ succs' = [succs EXCEPT ![t][lvl[t]] = Ahead(t)]
  /\ lvl' = [lvl EXCEPT ![t] = @ - 1]
  /\ UNCHANGED <<listVars, sumVars, pc, op, x, node, replaced, out, seen, raced, calls>>

(* Mutant: a key that exists is inserted once more.                        *)
AfterFindMiss(t, n) ==
  LET hit == n # Nil /\ key[n] = op[t].key
  IN  CASE op[t].kind = "insert" -> IF node[t] # Nil THEN "raise" ELSE "link"
        [] op[t].kind = "get" -> IF hit THEN "load" ELSE "idle"
        [] op[t].kind = "scan" -> IF n # Nil THEN "yield" ELSE "idle"

(* Mutant: get() takes the node it lands on for a match.                   *)
AfterFindNear(t, n) ==
  LET hit == n # Nil /\ key[n] = op[t].key
  IN  CASE op[t].kind = "insert" -> IF node[t] # Nil THEN "raise"
                                    ELSE IF hit THEN "update" ELSE "link"
        [] op[t].kind = "get" -> IF n # Nil THEN "load" ELSE "idle"
        [] op[t].kind = "scan" -> IF n # Nil THEN "yield" ELSE "idle"

(* Where find() returns to: insert(), its retry at a higher level, get()   *)
(* or seek().                                                              *)
AfterFind(t, n) ==
  LET hit == n # Nil /\ key[n] = op[t].key
  IN  CASE op[t].kind = "insert" -> IF node[t] # Nil THEN "raise"
                                    ELSE IF hit THEN "update" ELSE "link"
        [] op[t].kind = "get" -> IF hit THEN "load" ELSE "idle"
        [] op[t].kind = "scan" -> IF n # Nil THEN "yield" ELSE "idle"

FindEnds(t) ==
  /\ pc[t] = "find" /\ lvl[t] = 0 /\ ~Before(Ahead(t), op[t].key)
  /\ preds' = [preds EXCEPT ![t][0] = x[t]]
  /\ succs' = [succs EXCEPT ![t][0] = Ahead(t)]
  /\ pc' = [pc EXCEPT ![t] = AfterFind(t, Ahead(t))]
  /\ out' = IF op[t].kind = "get" /\ AfterFind(t, Ahead(t)) = "idle"
              THEN [out EXCEPT ![t] = <<Miss>>] ELSE out
  /\ UNCHANGED <<listVars, sumVars, op, x, lvl, node, replaced, seen, raced, calls>>

FindAgain(t) ==
  /\ pc' = [pc EXCEPT ![t] = "find"]
  /\ x' = [x EXCEPT ![t] = head] /\ lvl' = [lvl EXCEPT ![t] = MAX_HEIGHT - 1]
  /\ UNCHANGED <<listVars, sumVars, op, preds, succs, node, replaced, out, seen, raced,
                 calls>>

-----------------------------------------------------------------------------
(* insert().                                                               *)

(* The key exists: load the old cell, publish the new one.                 *)
Update(t) ==
  /\ pc[t] = "update"
  /\ replaced' = [replaced EXCEPT ![t] = Size(value[succs[t][0]])]
  /\ pc' = [pc EXCEPT ![t] = "store"]
  /\ UNCHANGED <<listVars, sumVars, op, findVars, node, out, seen, raced, calls>>

Store(t) ==
  /\ pc[t] = "store"
  /\ value' = [value EXCEPT ![succs[t][0]] = op[t].val]
  /\ seen' = Seen(op[t].key, op[t].val)
  /\ pc' = [pc EXCEPT ![t] = "adjust"]
  /\ UNCHANGED <<key, height, next, links, sumVars, op, findVars, node, replaced, out,
                 raced, calls>>

newNode == CHOOSE n \in Nodes : links[n] = 0

(* Mutant: the CAS at level 0 compares, the ones above it only store.      *)
CasBlindAbove(t, l) == l > 0 \/ next[preds[t][l]][l] = succs[t][l]

(* compare_exchange_strong on pred's link at level l.                      *)
Cas(t, l) == next[preds[t][l]][l] = succs[t][l]

Link(t, h) ==
  LET n == newNode
  IN  /\ pc[t] = "link" /\ Cas(t, 0)
      /\ \E m \in Nodes : links[m] = 0
      /\ key' = [key EXCEPT ![n] = op[t].key]
      /\ height' = [height EXCEPT ![n] = h]
      /\ value' = [value EXCEPT ![n] = op[t].val]
      /\ next' = [next EXCEPT ![n] = [l \in Levels |-> IF l < h THEN succs[t][l] ELSE Nil],
                              ![preds[t][0]][0] = n]
      /\ links' = [links EXCEPT ![n] = 1]
      /\ node' = [node EXCEPT ![t] = n]
      /\ seen' = Seen(op[t].key, op[t].val)
      /\ pc' = [pc EXCEPT ![t] = IF h = 1 THEN "charge" ELSE "raise"]
      /\ UNCHANGED <<sumVars, op, findVars, replaced, out, raced, calls>>

LinkFails(t) == pc[t] = "link" /\ ~Cas(t, 0) /\ FindAgain(t)

Raise(t) ==
  LET n == node[t]
      i == links[n]
  IN  /\ pc[t] = "raise" /\ Cas(t, i)
      /\ next' = [next EXCEPT ![n][i] = succs[t][i], ![preds[t][i]][i] = n]
      /\ links' = [links EXCEPT ![n] = i + 1]
      /\ pc' = [pc EXCEPT ![t] = IF i + 1 = height[n] THEN "charge" ELSE "raise"]
      /\ UNCHANGED <<key, height, value, sumVars, op, findVars, node, replaced, out, seen,
                     raced, calls>>

(* Mutant: the failed CAS is retried with the same neighbours.             *)
RaiseFailsInPlace(t) == pc[t] = "raise" /\ ~Cas(t, links[node[t]]) /\ UNCHANGED vars

RaiseFails(t) == pc[t] = "raise" /\ ~Cas(t, links[node[t]]) /\ FindAgain(t)

(* Memtable::put() and del(): a new entry, or an overwritten one.          *)
Charge(t) ==
  /\ pc[t] = "charge"
  /\ bytes' = (bytes + EntryBytes + Size(op[t].val)) % SizeModulus
  /\ pc' = [pc EXCEPT ![t] = "count"]
  /\ UNCHANGED <<listVars, count, op, findVars, node, replaced, out, seen, raced, calls>>

Count(t) ==
  /\ pc[t] = "count"
  /\ count' = count + 1
  /\ pc' = [pc EXCEPT ![t] = "idle"]
  /\ UNCHANGED <<listVars, bytes, op, findVars, node, replaced, out, seen, raced, calls>>

(* Mutant: an overwrite is charged as a new entry.                         *)
AdjustInFull(t) ==
  /\ pc[t] = "adjust"
  /\ bytes' = (bytes + EntryBytes + Size(op[t].val)) % SizeModulus
  /\ count' = count + 1
  /\ pc' = [pc EXCEPT ![t] = "idle"]
  /\ UNCHANGED <<listVars, op, findVars, node, replaced, out, seen, raced, calls>>

adjustValueBytes(t) ==
  /\ pc[t] = "adjust"
  /\ bytes' = (bytes + Size(op[t].val) - replaced[t]) % SizeModulus
  /\ pc' = [pc EXCEPT ![t] = "idle"]
  /\ UNCHANGED <<listVars, count, op, findVars, node, replaced, out, seen, raced, calls>>

-----------------------------------------------------------------------------
(* Memtable::get() and Iterator.                                           *)

get(t) ==
  /\ pc[t] = "load"
  /\ out' = [out EXCEPT ![t] = <<value[succs[t][0]]>>]
  /\ pc' = [pc EXCEPT ![t] = "idle"]
  /\ UNCHANGED <<listVars, sumVars, op, findVars, node, replaced, seen, raced, calls>>

(* updateCache(): the iterator is at succs[t][0].                          *)
updateCache(t) ==
  /\ pc[t] = "yield"
  /\ out' = [out EXCEPT ![t] = Append(@, key[succs[t][0]])]
  /\ pc' = [pc EXCEPT ![t] = "advance"]
  /\ UNCHANGED <<listVars, sumVars, op, findVars, node, replaced, seen, raced, calls>>

(* Mutant: the iterator follows a node's highest link.                     *)
AdvanceAtTop(t) ==
  LET s == succs[t][0]
      n == next[s][height[s] - 1]
  IN  /\ pc[t] = "advance"
      /\ succs' = [succs EXCEPT ![t][0] = n]
      /\ pc' = [pc EXCEPT ![t] = IF n = Nil THEN "idle" ELSE "yield"]
      /\ UNCHANGED <<listVars, sumVars, op, x, lvl, preds, node, replaced, out, seen,
                     raced, calls>>

Advance(t) ==
  LET n == next[succs[t][0]][0]
  IN  /\ pc[t] = "advance"
      /\ succs' = [succs EXCEPT ![t][0] = n]
      /\ pc' = [pc EXCEPT ![t] = IF n = Nil THEN "idle" ELSE "yield"]
      /\ UNCHANGED <<listVars, sumVars, op, x, lvl, preds, node, replaced, out, seen,
                     raced, calls>>

Step(t) ==
  \/ FindForward(t) \/ FindDown(t) \/ FindEnds(t)
  \/ Update(t) \/ Store(t) \/ LinkFails(t) \/ Raise(t) \/ RaiseFails(t)
  \/ \E h \in 1 .. MAX_HEIGHT : Link(t, h)
  \/ Charge(t) \/ Count(t) \/ adjustValueBytes(t)
  \/ get(t) \/ updateCache(t) \/ Advance(t)

Quiet == \A t \in Threads : pc[t] = "idle"

Next ==
  \/ \E t \in Threads : Step(t) \/ \E o \in Calls : Call(t, o)
  \/ Quiet /\ calls = MaxCalls /\ UNCHANGED vars

Spec == Init /\ [][Next]_vars

(* Each thread is scheduled.                                               *)
FairSpec == Spec /\ \A t \in Threads : WF_vars(Step(t))

-----------------------------------------------------------------------------
(* Properties.                                                             *)

Pcs == {"idle", "find", "update", "store", "link", "raise", "charge", "count",
        "adjust", "load", "yield", "advance"}

(* The types of the nodes and of each thread's place in the list.          *)
ListTypes ==
  /\ key \in [Nodes \cup {head} -> Nat]
  /\ height \in [Nodes \cup {head} -> 0 .. MAX_HEIGHT]
  /\ value \in [Nodes \cup {head} -> Cells]
  /\ next \in [Nodes \cup {head} -> [Levels -> Links]]
  /\ links \in [Nodes \cup {head} -> 0 .. MAX_HEIGHT]
  /\ pc \in [Threads -> Pcs]
  /\ op \in [Threads -> Calls \cup {[kind |-> "none"]}]
  /\ \A t \in Threads : pc[t] = "idle" \/ op[t] \in Calls
  /\ x \in [Threads -> Nodes \cup {head}] /\ lvl \in [Threads -> Levels]
  /\ preds \in [Threads -> [Levels -> Nodes \cup {head}]]
  /\ succs \in [Threads -> [Levels -> Links]]
  /\ node \in [Threads -> Nodes \cup {Nil}]

(* Every variable has its type.                                            *)
TypeOK ==
  /\ ListTypes
  /\ bytes \in 0 .. SizeModulus - 1 /\ count \in Nat
  /\ replaced \in [Threads -> Nat]
  /\ out \in [Threads -> Seq(Int)] /\ seen \in [Threads -> SUBSET Int]
  /\ raced \in BOOLEAN /\ calls \in 0 .. MaxCalls

(* On every level the links lead, in strictly ascending key order, through *)
(* exactly the nodes linked there: no cycle, no node skipped, and no link  *)
(* to a node that is not on the level.  This is what find() relies on and  *)
(* what racing CASes, and the retry that searches again while the new node *)
(* is half linked, could break.                                            *)
LevelsSound ==
  \A l \in Levels, n \in Nodes \cup {head} :
    Linked(n, l) =>
      LET s == next[n][l]
          above == {m \in Nodes : Linked(m, l) /\ key[m] > key[n]}
      IN  IF s = Nil THEN above = {}
          ELSE s \in above /\ \A m \in above : key[s] <= key[m]

(* No key has two nodes, although racing inserts of one key all find it    *)
(* missing.                                                                *)
KeysUnique == \A m, n \in Present : key[m] = key[n] => m = n

(* find() is exact at its last load, however stale the higher levels it    *)
(* descended through: its successor has the key if and only if the list    *)
(* holds the key at that moment.                                           *)
FindExact ==
  \A t \in Threads :
    FindEnds(t) =>
      (succs'[t][0] # Nil /\ key[succs'[t][0]] = op[t].key
         <=> \E n \in Present : key[n] = op[t].key)

SearchExact == [][FindExact]_vars

(* A lookup returns what the key held at some moment of the call.          *)
GetsLinearize ==
  \A t \in Threads :
    pc[t] = "idle" /\ op[t].kind = "get" => out[t][1] \in seen[t]

(* An iterator yields keys in ascending order and misses none that was     *)
(* there, in its range, when it was made, whatever is inserted meanwhile.  *)
IteratorComplete ==
  \A t \in Threads :
    op[t].kind = "scan" =>
      /\ \A i, j \in DOMAIN out[t] : i < j => out[t][i] < out[t][j]
      /\ pc[t] = "idle" => seen[t] \subseteq {out[t][i] : i \in DOMAIN out[t]}

(* size() counts the list's nodes, except those whose insert has not yet   *)
(* counted them.                                                           *)
Counting == {t \in Threads : node[t] # Nil /\ pc[t] \in {"raise", "find", "charge", "count"}}
CountExact == count + Cardinality(Counting) = Cardinality(Present)

(* So the count is exact, and between calls byteSize() is what the list    *)
(* holds, if no two writers have overlapped on one key: isFull() and so    *)
(* the flush depend on it, and it must not wrap.                           *)
TotalsExact ==
  /\ CountExact
  /\ Quiet /\ ~raced =>
       bytes = MapThenSumSet(LAMBDA n : EntryBytes + Size(value[n]), Present)

(* Every call ends: a CAS fails only because another insert went ahead.    *)
CallsEnd == \A t \in Threads : (pc[t] # "idle") ~> (pc[t] = "idle")

=============================================================================
