--------------------------- MODULE SkipListProofs ---------------------------
(***************************************************************************)
(* The structure of the skip list under any number of racing inserts,      *)
(* lookups and iterators, for every set of keys and nodes and every        *)
(* height: LevelsSound, KeysUnique, and the exactness of a search.  First  *)
(* the inductive invariant and the lemma about linking a node at one       *)
(* level, then the steps that link no node, then the ones that do.  On     *)
(* that structure rest the results of calls (GetsLinearize and             *)
(* IteratorComplete) and the count of entries (CountExact).                *)
(***************************************************************************)
EXTENDS SkipList, TLAPS

Node0 == Nodes \cup {head}

-----------------------------------------------------------------------------
(* The inductive invariant.                                                *)

(* The head is on every level, below every node.                           *)
HeadInv ==
  /\ links[head] = MAX_HEIGHT /\ key[head] = 0
  /\ \A n \in Nodes : links[n] > 0 => key[n] > 0

(* A link leads to a node of the same level with a larger key ...          *)
Ascending ==
  \A n \in Node0, l \in Levels :
    Linked(n, l) /\ next[n][l] # Nil =>
      /\ next[n][l] \in Nodes /\ Linked(next[n][l], l)
      /\ key[n] < key[next[n][l]]

(* ... and skips none.                                                     *)
NoGap ==
  \A n \in Node0, m \in Nodes, l \in Levels :
    Linked(n, l) /\ Linked(m, l) /\ key[n] < key[m] =>
      next[n][l] # Nil /\ key[next[n][l]] <= key[m]

List == HeadInv /\ Ascending /\ NoGap /\ KeysUnique

(* p and s are neighbours, possibly of the past, of k at level l.          *)
Around(p, s, l, k) ==
  /\ Linked(p, l) /\ key[p] < k
  /\ s # Nil => s \in Nodes /\ Linked(s, l) /\ k <= key[s]

Holding == {"update", "store", "link", "raise"}

(* What a thread's search has established.                                 *)
Search(t) ==
  /\ pc[t] = "find" => Linked(x[t], lvl[t]) /\ key[x[t]] < op[t].key
  /\ \A l \in Levels :
       pc[t] \in Holding \/ (pc[t] = "find" /\ lvl[t] < l) =>
         Around(preds[t][l], succs[t][l], l, op[t].key)
  /\ pc[t] \in {"update", "store", "load", "yield", "advance"} =>
       succs[t][0] \in Nodes /\ Linked(succs[t][0], 0)
  /\ pc[t] \in Holding => op[t].kind = "insert"
  /\ pc[t] = "link" =>
       /\ node[t] = Nil
       /\ succs[t][0] # Nil => key[succs[t][0]] # op[t].key

(* An insert whose node is linked at some of its levels.                   *)
HalfLinked(t) == pc[t] = "raise" \/ (pc[t] = "find" /\ node[t] # Nil)

Owner(t) ==
  HalfLinked(t) =>
    /\ node[t] \in Nodes /\ op[t].kind = "insert"
    /\ key[node[t]] = op[t].key
    /\ 0 < links[node[t]] /\ links[node[t]] < height[node[t]]

Owners ==
  /\ \A t \in Threads : Owner(t)
  /\ \A t, u \in Threads : HalfLinked(t) /\ HalfLinked(u) /\ node[t] = node[u] => t = u

ListInv == ListTypes /\ List /\ (\A t \in Threads : Search(t)) /\ Owners

-----------------------------------------------------------------------------
(* Nil, the head and the nodes are distinct; levels are numbers.           *)
LEMMA Constants ==
  /\ Nil \notin Node0 /\ head \notin Nodes /\ Nil # head
  /\ Nodes \subseteq Node0 /\ head \in Node0 /\ Links = Node0 \cup {Nil}
  /\ MAX_HEIGHT \in Nat /\ 0 \in Levels /\ MAX_HEIGHT - 1 \in Levels
  /\ \A l \in Levels : l \in Nat /\ l < MAX_HEIGHT
BY ListAssumption DEF Nil, head, Node0, Links, Levels

(* A call's fields.                                                        *)
LEMMA CallFields ==
  ASSUME NEW o \in Calls
  PROVE  /\ o.key \in Nat /\ 0 < o.key
         /\ o.kind \in {"insert", "get", "scan"}
         /\ o.kind = "insert" => o.val \in Cells
<1>1. /\ o.key \in Keys /\ o.kind \in {"insert", "get", "scan"}
      /\ o.kind = "insert" => o.val \in Cells
  BY Zenon DEF Calls
<1>2. \A k \in Keys : k \in Nat /\ 0 < k
  BY ListAssumption
<1> QED BY <1>1, <1>2, Zenon

(* Node n, with key k, is linked after p at level l, the one above those   *)
(* where it is linked already.                                             *)
SpliceAt(l, p, n, k) ==
  /\ Linked(p, l) /\ links[n] = l /\ key[p] < k
  /\ next[p][l] # Nil => k < key[next[p][l]]
  /\ l > 0 => key[n] = k
  /\ links' = [links EXCEPT ![n] = l + 1]
  /\ key' = [key EXCEPT ![n] = k]
  /\ next'[p][l] = n /\ next'[n][l] = next[p][l]
  /\ \A a \in Node0, b \in Levels :
       Linked(a, b) /\ ~(a = p /\ b = l) => next'[a][b] = next[a][b]

(* It keeps the levels sound and the keys unique.                          *)
LEMMA Splice ==
  ASSUME ListTypes, ListTypes', List,
         NEW l \in Levels, NEW p \in Node0, NEW n \in Nodes, NEW k \in Nat,
         SpliceAt(l, p, n, k)
  PROVE  List'
<1> USE Constants DEF SpliceAt
<1>0. \A a \in Node0 : key[a] \in Nat /\ key'[a] \in Nat /\ links[a] \in Nat
  BY DEF ListTypes, Node0
<1>1. \A a \in Node0, b \in Levels :
        b < links'[a] <=> Linked(a, b) \/ (a = n /\ b = l)
  BY DEF Linked, ListTypes
<1>2. p # n /\ key'[p] = key[p] /\ key'[n] = k
  BY DEF Linked, ListTypes
<1>3. \A a \in Node0, b \in Levels : Linked(a, b) => key'[a] = key[a]
  BY DEF Linked, ListTypes
<1>4. next[p][l] # Nil => next[p][l] \in Nodes /\ Linked(next[p][l], l) /\ next[p][l] # n
  BY DEF List, Ascending, Linked
<1>5. HeadInv'
  <2>1. links'[head] = MAX_HEIGHT /\ key'[head] = 0
    BY Zenon DEF List, HeadInv, ListTypes
  <2>2. ASSUME NEW a \in Nodes, links'[a] > 0 PROVE key'[a] > 0
    <3>1. CASE a = n
      BY <1>0, <1>2, <3>1
    <3>2. CASE a # n
      BY <2>2, <3>2, Zenon DEF List, HeadInv, ListTypes
    <3> QED BY <3>1, <3>2, Zenon
  <2> QED BY <2>1, <2>2, Zenon DEF HeadInv
<1>6. Ascending'
  <2> SUFFICES ASSUME NEW a \in Node0, NEW b \in Levels, b < links'[a], next'[a][b] # Nil
               PROVE  /\ next'[a][b] \in Nodes /\ b < links'[next'[a][b]]
                      /\ key'[a] < key'[next'[a][b]]
    BY Zenon DEF Ascending, Linked
  <2>1. CASE a = n /\ b = l
    BY <1>1, <1>2, <1>3, <1>4, <2>1
  <2>2. CASE a = p /\ b = l
    BY <1>1, <1>2, <2>2
  <2>3. CASE Linked(a, b) /\ ~(a = p /\ b = l)
    <3>1. next'[a][b] = next[a][b]
      BY <2>3, Zenon
    <3>2. next[a][b] \in Nodes /\ Linked(next[a][b], b) /\ key[a] < key[next[a][b]]
      BY <2>3, <3>1, Zenon DEF List, Ascending
    <3> QED BY <1>1, <1>3, <2>3, <3>1, <3>2
  <2> QED BY <1>1, <2>1, <2>2, <2>3, Zenon
<1>7. \A m \in Nodes : Linked(m, l) /\ key[p] < key[m] =>
        next[p][l] # Nil /\ k < key[m]
  <2> SUFFICES ASSUME NEW m \in Nodes, Linked(m, l), key[p] < key[m]
               PROVE  next[p][l] # Nil /\ k < key[m]
    BY Zenon
  <2>1. next[p][l] # Nil /\ key[next[p][l]] <= key[m]
    BY Zenon DEF List, NoGap
  <2>2. next[p][l] \in Nodes /\ k < key[next[p][l]]
    BY <1>4, <2>1, Zenon
  <2> QED BY <1>0, <2>1, <2>2
<1>8. \A m \in Node0 : Linked(m, l) /\ m # p /\ key[m] < k => key[m] < key[p]
  <2> SUFFICES ASSUME NEW m \in Node0, Linked(m, l), m # p, key[m] < k, ~(key[m] < key[p])
               PROVE  FALSE
    BY Zenon
  <2>1. \A q \in Nodes : Linked(q, l) => q \in Present /\ key[q] > 0
    BY <1>0 DEF List, HeadInv, Present, Linked
  <2>2. key[m] = key[p]
    <3>1. CASE m = head
      BY <1>0, <3>1 DEF List, HeadInv, Node0
    <3>2. CASE m \in Nodes
      BY <1>0, <3>2, <1>7
    <3> QED BY <3>1, <3>2, Zenon DEF Node0
  <2>3. ~(m \in Nodes /\ p \in Nodes)
    BY <2>1, <2>2, Zenon DEF List, KeysUnique
  <2> QED BY <2>1, <2>2, <2>3, Zenon DEF List, HeadInv, Node0
<1>9. NoGap'
  <2> SUFFICES ASSUME NEW a \in Node0, NEW m \in Nodes, NEW b \in Levels,
                      b < links'[a], b < links'[m], key'[a] < key'[m]
               PROVE  next'[a][b] # Nil /\ key'[next'[a][b]] <= key'[m]
    BY Zenon DEF NoGap, Linked
  <2>1. CASE a = n /\ b = l
    <3>1. Linked(m, l) /\ k < key[m] /\ key'[m] = key[m]
      BY <1>0, <1>1, <1>2, <1>3, <2>1
    <3>2. next[p][l] # Nil /\ key[next[p][l]] <= key[m]
      BY <1>0, <3>1 DEF List, NoGap, Node0
    <3> QED BY <1>3, <1>4, <2>1, <3>1, <3>2
  <2>2. CASE a = p /\ b = l
    <3>1. k <= key'[m]
      BY <1>0, <1>1, <1>2, <1>3, <1>7, <2>2
    <3> QED BY <1>2, <2>2, <3>1, Zenon
  <2>3. CASE Linked(a, b) /\ ~(a = p /\ b = l) /\ Linked(m, b)
    <3>1. next'[a][b] = next[a][b] /\ key'[a] = key[a] /\ key'[m] = key[m]
      BY <1>3, <2>3, Zenon
    <3>2. next[a][b] # Nil /\ key[next[a][b]] <= key[m]
      BY <2>3, <3>1, Zenon DEF List, NoGap
    <3>3. next[a][b] \in Nodes /\ Linked(next[a][b], b)
      BY <2>3, <3>2, Zenon DEF List, Ascending
    <3> QED BY <1>3, <3>1, <3>2, <3>3
  <2>4. CASE Linked(a, b) /\ ~(a = p /\ b = l) /\ m = n /\ b = l
    <3>1. key[a] < key[p] /\ next'[a][b] = next[a][b]
      BY <1>2, <1>3, <1>8, <2>4
    <3>2. p \in Nodes
      BY <1>0, <3>1 DEF List, HeadInv, Node0
    <3>3. next[a][l] # Nil /\ key[next[a][l]] <= key[p]
      BY <2>4, <3>1, <3>2, Zenon DEF List, NoGap
    <3>4. next[a][l] \in Nodes /\ Linked(next[a][l], l)
      BY <2>4, <3>3, Zenon DEF List, Ascending
    <3>5. key'[next[a][l]] = key[next[a][l]]
      BY <1>3, <3>4, Zenon
    <3>6. key[next[a][l]] <= k
      BY <1>0, <3>3, <3>4
    <3> QED BY <1>2, <2>4, <3>1, <3>3, <3>5, <3>6
  <2> QED BY <1>1, <2>1, <2>2, <2>3, <2>4, Zenon
<1>10. KeysUnique'
  <2> SUFFICES ASSUME NEW a \in Nodes, NEW b \in Nodes, 0 < links'[a], 0 < links'[b],
                      key'[a] = key'[b], a # b
               PROVE  FALSE
    BY Zenon DEF KeysUnique, Present, Linked
  <2>1. CASE Linked(a, 0) /\ Linked(b, 0)
    BY <1>3, <2>1, Zenon DEF List, KeysUnique, Present
  <2>2. CASE l = 0 /\ (a = n \/ b = n)
    <3>1. PICK m \in Nodes : Linked(m, l) /\ key[m] = k
      BY <1>1, <1>2, <1>3, <2>2
    <3> QED BY <1>0, <1>7, <3>1
  <2> QED BY <1>1, <2>1, <2>2, Zenon
<1> QED BY <1>5, <1>6, <1>9, <1>10, Zenon DEF List

-----------------------------------------------------------------------------
(* The steps that link no node.                                            *)

(* Thread u is where it was.                                               *)
Same(u) ==
  /\ pc'[u] = pc[u] /\ op'[u] = op[u] /\ node'[u] = node[u]
  /\ x'[u] = x[u] /\ lvl'[u] = lvl[u]
  /\ preds'[u] = preds[u] /\ succs'[u] = succs[u]

(* Nodes only gain levels, and one that is linked keeps its key.           *)
Growth ==
  \A a \in Node0 : links[a] <= links'[a] /\ (links[a] > 0 => key'[a] = key[a])

(* Neighbours stay neighbours while other threads insert.                  *)
LEMMA AroundStable ==
  ASSUME ListTypes, ListTypes', Growth, NEW p \in Node0, NEW s \in Links,
         NEW l \in Levels, NEW k, Around(p, s, l, k)
  PROVE  /\ l < links'[p] /\ key'[p] < k
         /\ s # Nil => s \in Nodes /\ l < links'[s] /\ k <= key'[s]
<1> USE Constants
<1>1. \A a \in Node0 : links[a] \in Nat /\ links'[a] \in Nat
  BY DEF ListTypes, Node0
<1>2. \A a \in Node0 : Linked(a, l) => l < links'[a] /\ key'[a] = key[a]
  BY <1>1 DEF Linked, Growth
<1> QED BY <1>2, Zenon DEF Around

(* What a search established survives the inserts of other threads.        *)
LEMMA SearchStable ==
  ASSUME ListTypes, ListTypes', Growth, NEW u \in Threads, Search(u), Same(u)
  PROVE  Search(u)'
<1> USE Constants
<1>1. \A a \in Node0 : links[a] \in Nat /\ links'[a] \in Nat
  BY DEF ListTypes, Node0
<1>2. \A a \in Node0, l \in Levels : Linked(a, l) => l < links'[a] /\ key'[a] = key[a]
  BY <1>1 DEF Linked, Growth
<1>3. /\ x[u] \in Node0 /\ lvl[u] \in Levels
      /\ \A l \in Levels : preds[u][l] \in Node0 /\ succs[u][l] \in Links
  BY DEF ListTypes, Node0
<1>4. pc'[u] = "find" => lvl'[u] < links'[x'[u]] /\ key'[x'[u]] < op'[u].key
  BY <1>2, <1>3, Zenon DEF Search, Same
<1>5. ASSUME NEW l \in Levels,
             pc'[u] \in Holding \/ (pc'[u] = "find" /\ lvl'[u] < l)
      PROVE  Around(preds[u][l], succs[u][l], l, op[u].key)'
  <2>1. Around(preds[u][l], succs[u][l], l, op[u].key)
    BY <1>5, Zenon DEF Search, Same
  <2>2. /\ l < links'[preds[u][l]] /\ key'[preds[u][l]] < op[u].key
        /\ succs[u][l] # Nil => /\ succs[u][l] \in Nodes /\ l < links'[succs[u][l]]
                                /\ op[u].key <= key'[succs[u][l]]
    BY <1>3, <2>1, AroundStable, Zenon
  <2> QED BY <2>2, Zenon DEF Around, Linked, Same
<1>6. pc'[u] \in {"update", "store", "load", "yield", "advance"} =>
        succs'[u][0] \in Nodes /\ 0 < links'[succs'[u][0]]
  BY <1>2, <1>3, Zenon DEF Search, Same
<1>7. pc'[u] \in Holding => op'[u].kind = "insert"
  BY Zenon DEF Search, Same
<1>8. pc'[u] = "link" => node'[u] = Nil
  BY Zenon DEF Search, Same
<1>9. pc'[u] = "link" /\ succs'[u][0] # Nil => key'[succs'[u][0]] # op'[u].key
  <2> HAVE pc'[u] = "link" /\ succs'[u][0] # Nil
  <2>1. succs[u][0] \in Nodes /\ Linked(succs[u][0], 0) /\ key[succs[u][0]] # op[u].key
    BY Zenon DEF Search, Same, Around, Holding
  <2> QED BY <1>2, <2>1, Zenon DEF Same
<1> QED BY <1>4, <1>5, <1>6, <1>7, <1>8, <1>9, Zenon DEF Search, Linked

(* A step of thread t that touches at most its own node n.                 *)
LEMMA OwnStep ==
  ASSUME ListInv, ListTypes', Growth, List',
         NEW t \in Threads, NEW n \in Node0 \cup {Nil},
         Search(t)', Owner(t)',
         \A a \in Node0 \ {n} : links'[a] = links[a] /\ height'[a] = height[a],
         \A u \in Threads \ {t} :
           /\ Same(u)
           /\ HalfLinked(u) => node[u] # n /\ (HalfLinked(t)' => node'[t] # node[u])
  PROVE  ListInv'
<1> USE Constants
<1>1. \A u \in Threads : Search(u)'
  BY SearchStable, Zenon DEF ListInv
<1>2. ASSUME NEW u \in Threads \ {t} PROVE Owner(u)' /\ (HalfLinked(u)' <=> HalfLinked(u))
  <2>1. HalfLinked(u)' <=> HalfLinked(u)
    BY <1>2, Zenon DEF HalfLinked, Same
  <2>2. Owner(u) /\ Same(u)
    BY <1>2, Zenon DEF ListInv, Owners
  <2>3. HalfLinked(u) => links'[node[u]] = links[node[u]] /\ height'[node[u]] = height[node[u]]
    BY <1>2, <2>2, Zenon DEF Owner
  <2>4. HalfLinked(u) => key'[node[u]] = key[node[u]]
    BY <2>2, Zenon DEF Owner, Growth
  <2> QED BY <2>1, <2>2, <2>3, <2>4, Zenon DEF Owner, Same
<1>3. \A u \in Threads : Owner(u)'
  BY <1>2, Zenon
<1>4. ASSUME NEW u \in Threads, NEW v \in Threads, HalfLinked(u)', HalfLinked(v)',
             node'[u] = node'[v]
      PROVE  u = v
  <2>1. CASE u # t /\ v # t
    BY <1>2, <1>4, <2>1, ZenonT(30) DEF ListInv, Owners, Same
  <2>2. CASE u = t /\ v # t
    BY <1>2, <1>4, <2>2, Zenon DEF Same
  <2>3. CASE u # t /\ v = t
    BY <1>2, <1>4, <2>3, Zenon DEF Same
  <2> QED BY <2>1, <2>2, <2>3, Zenon
<1>5. Owners'
  BY <1>3, <1>4, Zenon DEF Owners
<1> QED BY <1>1, <1>5, Zenon DEF ListInv

(* A step that changes no link.                                            *)
LEMMA ReadStep ==
  ASSUME ListInv, ListTypes', NEW t \in Threads,
         UNCHANGED <<key, height, next, links>>,
         \A u \in Threads \ {t} : Same(u),
         Search(t)',
         HalfLinked(t)' => HalfLinked(t) /\ node'[t] = node[t] /\ op'[t] = op[t]
  PROVE  ListInv'
<1> USE Constants
<1>1. Growth
  BY DEF Growth, ListInv, ListTypes, Node0
<1>2. List'
  BY DEF ListInv, List, HeadInv, Ascending, NoGap, KeysUnique, Present, Linked
<1>3. Owner(t)'
  BY Zenon DEF ListInv, Owners, Owner
<1>4. \A u \in Threads \ {t} :
        HalfLinked(u) => node[u] # Nil /\ (HalfLinked(t)' => node'[t] # node[u])
  BY Zenon DEF ListInv, Owners, Owner
<1> QED BY <1>1, <1>2, <1>3, <1>4, OwnStep, Zenon

-----------------------------------------------------------------------------
(* The actions.                                                            *)

(* A call begins at the head, which is before every key.                   *)
LEMMA CallStep ==
  ASSUME ListInv, NEW t \in Threads, NEW o \in Calls, Call(t, o)
  PROVE  ListInv'
<1> USE Constants
<1>1. /\ pc'[t] = "find" /\ op'[t] = o /\ x'[t] = head /\ lvl'[t] = MAX_HEIGHT - 1
      /\ node'[t] = Nil
  BY Zenon DEF Call, ListInv, ListTypes
<1>2. \A u \in Threads \ {t} : Same(u)
  BY Zenon DEF Call, ListInv, ListTypes, Same
<1>3. ListTypes'
  BY Zenon DEF Call, ListInv, ListTypes, Pcs, listVars, sumVars
<1>4. UNCHANGED <<key, height, next, links>>
  BY Zenon DEF Call, listVars
<1>5. Search(t)'
  <2>1. 0 < o.key /\ links[head] = MAX_HEIGHT /\ key[head] = 0
    BY CallFields, Zenon DEF ListInv, List, HeadInv
  <2> QED BY <1>1, <1>4, <2>1 DEF Search, Linked, Holding
<1>6. ~HalfLinked(t)'
  BY <1>1, Zenon DEF HalfLinked
<1> QED BY <1>2, <1>3, <1>4, <1>5, <1>6, ReadStep, Zenon

(* find() moves to a node that is linked on its level, before the key.     *)
LEMMA FindForwardStep ==
  ASSUME ListInv, NEW t \in Threads, FindForward(t)
  PROVE  ListInv'
<1> USE Constants
<1>1. /\ pc[t] = "find" /\ x[t] \in Node0 /\ lvl[t] \in Levels
      /\ Linked(x[t], lvl[t]) /\ next[x[t]][lvl[t]] # Nil
      /\ key[next[x[t]][lvl[t]]] < op[t].key
  BY Zenon DEF FindForward, Before, Ahead, ListInv, ListTypes, Search, Node0
<1>2. next[x[t]][lvl[t]] \in Nodes /\ Linked(next[x[t]][lvl[t]], lvl[t])
  BY <1>1, Zenon DEF ListInv, List, Ascending
<1>3. x'[t] = next[x[t]][lvl[t]] /\ pc' = pc /\ op' = op /\ lvl' = lvl /\ node' = node
      /\ preds' = preds /\ succs' = succs
  BY Zenon DEF FindForward, Ahead, ListInv, ListTypes
<1>4. \A u \in Threads \ {t} : Same(u)
  BY Zenon DEF FindForward, ListInv, ListTypes, Same
<1>5. ListTypes'
  BY <1>2, Zenon DEF FindForward, Ahead, ListInv, ListTypes, listVars, sumVars
<1>6. UNCHANGED <<key, height, next, links>>
  BY Zenon DEF FindForward, listVars
<1>7. Search(t)'
  BY <1>1, <1>2, <1>3, <1>6, Zenon DEF ListInv, Search, Linked, Around, Holding
<1>8. HalfLinked(t)' => HalfLinked(t)
  BY <1>3, Zenon DEF HalfLinked
<1> QED BY <1>3, <1>4, <1>5, <1>6, <1>7, <1>8, ReadStep, Zenon

(* Where a search stops, it has the neighbours of its key on its level.    *)
LEMMA StopAround ==
  ASSUME ListInv, NEW t \in Threads, pc[t] = "find", ~Before(Ahead(t), op[t].key)
  PROVE  /\ Around(x[t], Ahead(t), lvl[t], op[t].key)
         /\ x[t] \in Node0 /\ lvl[t] \in Levels /\ Ahead(t) \in Links
         /\ Ahead(t) # Nil => Ahead(t) \in Nodes /\ Linked(Ahead(t), lvl[t])
<1> USE Constants
<1>1. /\ x[t] \in Node0 /\ lvl[t] \in Levels /\ Linked(x[t], lvl[t])
      /\ key[x[t]] < op[t].key /\ Ahead(t) \in Links
  BY DEF ListInv, ListTypes, Search, Ahead, Node0
<1>2. Ahead(t) # Nil => Ahead(t) \in Nodes /\ Linked(Ahead(t), lvl[t])
  BY <1>1, Zenon DEF ListInv, List, Ascending, Ahead
<1>3. op[t].key \in Nat
  BY CallFields, Zenon DEF ListInv, ListTypes
<1>4. \A a \in Node0 : key[a] \in Nat
  BY Zenon DEF ListInv, ListTypes, Node0
<1>5. Ahead(t) # Nil => op[t].key <= key[Ahead(t)]
  BY <1>2, <1>3, <1>4 DEF Before
<1> QED BY <1>1, <1>2, <1>5, Zenon DEF Around

(* find() goes down a level: the node it is at is linked there too.        *)
LEMMA FindDownStep ==
  ASSUME ListInv, NEW t \in Threads, FindDown(t)
  PROVE  ListInv'
<1> USE Constants
<1>1. /\ Around(x[t], Ahead(t), lvl[t], op[t].key)
      /\ x[t] \in Node0 /\ lvl[t] \in Levels /\ Ahead(t) \in Links
  BY StopAround, Zenon DEF FindDown
<1>2. lvl[t] - 1 \in Levels
  BY <1>1 DEF FindDown, Levels
<1>3. /\ pc[t] = "find" /\ pc' = pc /\ op' = op /\ x' = x /\ node' = node
      /\ lvl'[t] = lvl[t] - 1
      /\ preds'[t] = [preds[t] EXCEPT ![lvl[t]] = x[t]]
      /\ succs'[t] = [succs[t] EXCEPT ![lvl[t]] = Ahead(t)]
  BY Zenon DEF FindDown, ListInv, ListTypes
<1>4. \A u \in Threads \ {t} : Same(u)
  BY Zenon DEF FindDown, ListInv, ListTypes, Same
<1>5. ListTypes'
  BY <1>1, <1>2, Zenon DEF FindDown, ListInv, ListTypes, listVars, sumVars, Node0
<1>6. UNCHANGED <<key, height, next, links>>
  BY Zenon DEF FindDown, listVars
<1>7. Search(t)'
  <2>1. Linked(x[t], lvl[t] - 1) /\ key[x[t]] < op[t].key
    <3>1. links[x[t]] \in Nat /\ Linked(x[t], lvl[t]) /\ key[x[t]] < op[t].key
      BY <1>1, <1>3 DEF ListInv, ListTypes, Search, Node0
    <3> QED BY <1>1, <1>2, <3>1 DEF Linked
  <2>2. ASSUME NEW l \in Levels, lvl[t] - 1 < l
        PROVE  Around(preds'[t][l], succs'[t][l], l, op[t].key)
    <3>1. CASE l = lvl[t]
      BY <1>1, <1>3, <3>1 DEF ListInv, ListTypes
    <3>2. CASE lvl[t] < l
      BY <1>3, <3>2 DEF ListInv, ListTypes, Search
    <3> QED BY <1>1, <2>2, <3>1, <3>2
  <2> QED BY <1>3, <1>6, <2>1, <2>2, Zenon DEF Search, Linked, Around, Holding
<1>8. HalfLinked(t)' => HalfLinked(t)
  BY <1>3, Zenon DEF HalfLinked
<1> QED BY <1>3, <1>4, <1>5, <1>6, <1>7, <1>8, ReadStep, Zenon

(* find() returns with neighbours of the key on every level.               *)
LEMMA FindEndsStep ==
  ASSUME ListInv, NEW t \in Threads, FindEnds(t)
  PROVE  ListInv'
<1> USE Constants
<1>1. /\ Around(x[t], Ahead(t), 0, op[t].key)
      /\ x[t] \in Node0 /\ Ahead(t) \in Links
      /\ Ahead(t) # Nil => Ahead(t) \in Nodes /\ Linked(Ahead(t), 0)
  BY StopAround, Zenon DEF FindEnds
<1>2. /\ pc[t] = "find" /\ lvl[t] = 0 /\ pc'[t] = AfterFind(t, Ahead(t))
      /\ op' = op /\ x' = x /\ node' = node /\ lvl' = lvl
      /\ preds'[t] = [preds[t] EXCEPT ![0] = x[t]]
      /\ succs'[t] = [succs[t] EXCEPT ![0] = Ahead(t)]
      /\ succs'[t][0] = Ahead(t)
  BY Zenon DEF FindEnds, ListInv, ListTypes
<1>3. /\ op[t] \in Calls /\ op[t].kind \in {"insert", "get", "scan"}
  BY <1>2, CallFields, Zenon DEF ListInv, ListTypes
<1>4. /\ pc'[t] \in {"raise", "update", "link", "load", "yield", "idle"}
      /\ pc'[t] = "raise" => op[t].kind = "insert" /\ node[t] # Nil
      /\ pc'[t] \in {"update", "link"} => op[t].kind = "insert"
      /\ pc'[t] \in {"update", "load", "yield"} => Ahead(t) # Nil
      /\ pc'[t] = "link" => node[t] = Nil
      /\ pc'[t] = "link" => Ahead(t) = Nil \/ key[Ahead(t)] # op[t].key
  BY <1>2, <1>3, Zenon DEF AfterFind
<1>5. \A u \in Threads \ {t} : Same(u)
  BY Zenon DEF FindEnds, ListInv, ListTypes, Same
<1>6. ListTypes'
  <2>1. pc' \in [Threads -> Pcs] /\ \A u \in Threads : pc'[u] = "idle" \/ op'[u] \in Calls
    <3>1. pc' = [pc EXCEPT ![t] = AfterFind(t, Ahead(t))] /\ AfterFind(t, Ahead(t)) \in Pcs
      BY <1>2, <1>4, Zenon DEF FindEnds, Pcs
    <3> QED BY <1>2, <1>3, <3>1 DEF ListInv, ListTypes
  <2>2. /\ preds' \in [Threads -> [Levels -> Nodes \cup {head}]]
        /\ succs' \in [Threads -> [Levels -> Links]]
    BY <1>1, Zenon DEF FindEnds, ListInv, ListTypes, Node0
  <2> QED BY <1>2, <2>1, <2>2, Zenon DEF FindEnds, ListInv, ListTypes, listVars
<1>7. UNCHANGED <<key, height, next, links>>
  BY Zenon DEF FindEnds, listVars
<1>8. Search(t)'
  <2>1. ASSUME NEW l \in Levels
        PROVE  Around(preds'[t][l], succs'[t][l], l, op[t].key)
    <3>1. CASE l = 0
      BY <1>1, <1>2, <3>1, SMTT(30) DEF ListInv, ListTypes
    <3>2. CASE 0 < l
      BY <1>2, <3>2 DEF ListInv, ListTypes, Search
    <3> QED BY <3>1, <3>2, SMTT(30)
  <2> QED BY <1>1, <1>2, <1>4, <1>7, <2>1, Zenon DEF Search, Linked, Around, Holding
<1>9. HalfLinked(t)' => HalfLinked(t)
  BY <1>2, <1>4, Zenon DEF HalfLinked
<1> QED BY <1>2, <1>5, <1>6, <1>7, <1>8, <1>9, ReadStep, Zenon

(* A failed CAS: the whole search again.                                   *)
LEMMA FindAgainStep ==
  ASSUME ListInv, NEW t \in Threads, pc[t] \in {"link", "raise"}, FindAgain(t)
  PROVE  ListInv'
<1> USE Constants
<1>1. /\ pc'[t] = "find" /\ x'[t] = head /\ lvl'[t] = MAX_HEIGHT - 1
      /\ op' = op /\ node' = node
  BY Zenon DEF FindAgain, ListInv, ListTypes
<1>2. \A u \in Threads \ {t} : Same(u)
  BY Zenon DEF FindAgain, ListInv, ListTypes, Same
<1>3. ListTypes'
  BY Zenon DEF FindAgain, ListInv, ListTypes, Pcs, listVars, sumVars
<1>4. UNCHANGED <<key, height, next, links>>
  BY Zenon DEF FindAgain, listVars
<1>5. Search(t)'
  <2>1. 0 < op[t].key /\ links[head] = MAX_HEIGHT /\ key[head] = 0
    BY CallFields, Zenon DEF ListInv, ListTypes, List, HeadInv
  <2> QED BY <1>1, <1>4, <2>1 DEF Search, Linked, Holding
<1>6. HalfLinked(t)' => HalfLinked(t)
  BY <1>1, Zenon DEF HalfLinked, ListInv, Search
<1> QED BY <1>1, <1>2, <1>3, <1>4, <1>5, <1>6, ReadStep, Zenon

(* Steps that only move a thread on, or store a value.                     *)
LEMMA PcStep ==
  ASSUME ListInv, NEW t \in Threads, NEW q,
         UNCHANGED <<key, height, next, links, op, findVars, node>>,
         value' \in [Nodes \cup {head} -> Cells],
         pc' = [pc EXCEPT ![t] = q],
         <<pc[t], q>> \in {<<"update", "store">>, <<"store", "adjust">>,
                           <<"charge", "count">>, <<"count", "idle">>,
                           <<"adjust", "idle">>, <<"load", "idle">>,
                           <<"yield", "advance">>}
  PROVE  ListInv'
<1> USE Constants
<1>1. /\ q \in {"store", "adjust", "count", "idle", "advance"} /\ pc'[t] = q
      /\ pc[t] # "idle"
  BY Zenon DEF ListInv, ListTypes
<1>2. \A u \in Threads \ {t} : Same(u)
  BY Zenon DEF ListInv, ListTypes, Same, findVars
<1>3. ListTypes'
  BY <1>1, Zenon DEF ListInv, ListTypes, Pcs, findVars
<1>4. /\ q = "store" => pc[t] = "update"
      /\ q = "advance" => pc[t] = "yield"
  BY Zenon
<1>5. Search(t)'
  BY <1>1, <1>4, Zenon DEF ListInv, Search, Linked, Around, Holding, findVars
<1>6. ~HalfLinked(t)'
  BY <1>1, Zenon DEF HalfLinked
<1> QED BY <1>2, <1>3, <1>5, <1>6, ReadStep, Zenon

(* An iterator moves to a node linked at level 0, or ends.                 *)
LEMMA AdvanceStep ==
  ASSUME ListInv, NEW t \in Threads, Advance(t)
  PROVE  ListInv'
<1> USE Constants
<1>1. pc[t] = "advance" /\ succs[t][0] \in Nodes /\ Linked(succs[t][0], 0)
  BY Zenon DEF Advance, ListInv, Search
<1>2. next[succs[t][0]][0] \in Links
  BY <1>1 DEF ListInv, ListTypes, Node0
<1>3. next[succs[t][0]][0] # Nil =>
        next[succs[t][0]][0] \in Nodes /\ Linked(next[succs[t][0]][0], 0)
  BY <1>1, Zenon DEF ListInv, List, Ascending
<1>4. /\ pc'[t] = IF next[succs[t][0]][0] = Nil THEN "idle" ELSE "yield"
      /\ succs'[t][0] = next[succs[t][0]][0] /\ op' = op
  BY Zenon DEF Advance, ListInv, ListTypes
<1>5. \A u \in Threads \ {t} : Same(u)
  BY Zenon DEF Advance, ListInv, ListTypes, Same
<1>6. ListTypes'
  BY <1>1, <1>2, Zenon DEF Advance, ListInv, ListTypes, Pcs, listVars, sumVars
<1>7. UNCHANGED <<key, height, next, links>>
  BY Zenon DEF Advance, listVars
<1>8. Search(t)'
  BY <1>3, <1>4, <1>7, Zenon DEF Search, Linked, Holding
<1>9. ~HalfLinked(t)'
  BY <1>4, Zenon DEF HalfLinked
<1> QED BY <1>5, <1>6, <1>7, <1>8, <1>9, ReadStep, Zenon

-----------------------------------------------------------------------------
(* The steps of insert() that link a node.                                 *)

(* The CAS at level 0 links a node whose key is not in the list.           *)
LEMMA LinkStep ==
  ASSUME ListInv, NEW t \in Threads, NEW h \in 1 .. MAX_HEIGHT, Link(t, h)
  PROVE  ListInv'
<1> USE Constants
<1> DEFINE n == newNode
           p == preds[t][0]
           k == op[t].key
<1>1. n \in Nodes /\ links[n] = 0
  BY Zenon DEF Link, newNode
<1>2. /\ pc[t] = "link" /\ op[t].kind = "insert" /\ k \in Nat /\ op[t].val \in Cells
      /\ p \in Node0 /\ \A l \in Levels : succs[t][l] \in Links
  BY CallFields DEF Link, ListInv, ListTypes, Search, Holding, Node0
<1>3. /\ Linked(p, 0) /\ key[p] < k /\ next[p][0] = succs[t][0]
      /\ next[p][0] # Nil => next[p][0] \in Nodes /\ Linked(next[p][0], 0) /\ k < key[next[p][0]]
  <2>1. Around(p, succs[t][0], 0, k) /\ next[p][0] = succs[t][0]
        /\ (succs[t][0] # Nil => key[succs[t][0]] # k)
    BY <1>2, Zenon DEF ListInv, Search, Holding, Link, Cas
  <2>2. \A a \in Nodes : key[a] \in Nat
    BY Zenon DEF ListInv, ListTypes
  <2> QED BY <1>2, <2>1, <2>2 DEF Around
<1>4. p # n
  BY <1>1, <1>3 DEF Linked
<1>5. /\ key' = [key EXCEPT ![n] = k] /\ links' = [links EXCEPT ![n] = 1]
      /\ height' = [height EXCEPT ![n] = h]
      /\ node'[t] = n /\ pc'[t] = (IF h = 1 THEN "charge" ELSE "raise")
      /\ op' = op /\ preds' = preds /\ succs' = succs
  BY Zenon DEF Link, ListInv, ListTypes, findVars
<1>6. ListTypes'
  <2>1. next' \in [Nodes \cup {head} -> [Levels -> Links]]
    <3>1. [l \in Levels |-> IF l < h THEN succs[t][l] ELSE Nil] \in [Levels -> Links]
      BY <1>2, Zenon
    <3> QED BY <1>1, <1>2, <1>4, <3>1, Zenon DEF Link, ListInv, ListTypes, Node0
  <2>2. /\ key' \in [Nodes \cup {head} -> Nat]
        /\ height' \in [Nodes \cup {head} -> 0 .. MAX_HEIGHT]
        /\ links' \in [Nodes \cup {head} -> 0 .. MAX_HEIGHT]
    <3>1. h \in 0 .. MAX_HEIGHT /\ 1 \in 0 .. MAX_HEIGHT
      OBVIOUS
    <3> QED BY <1>1, <1>2, <1>5, <3>1, Zenon DEF ListInv, ListTypes
  <2>3. /\ value' \in [Nodes \cup {head} -> Cells] /\ node' \in [Threads -> Nodes \cup {Nil}]
        /\ pc' \in [Threads -> Pcs]
    BY <1>1, <1>2, Zenon DEF Link, ListInv, ListTypes, Pcs
  <2>4. \A u \in Threads : pc'[u] = "idle" \/ op'[u] \in Calls
    BY <1>2, <1>5, ZenonT(30) DEF Link, ListInv, ListTypes
  <2> QED BY <1>5, <2>1, <2>2, <2>3, <2>4, ZenonT(30) DEF Link, ListInv, ListTypes, findVars
<1>7. /\ next'[p][0] = n /\ next'[n][0] = next[p][0]
      /\ \A a \in Node0, b \in Levels :
           Linked(a, b) /\ ~(a = p /\ b = 0) => next'[a][b] = next[a][b]
  <2>1. next'[n] = [l \in Levels |-> IF l < h THEN succs[t][l] ELSE Nil]
        /\ next'[p] = [next[p] EXCEPT ![0] = n]
        /\ \A a \in Node0 : a # n /\ a # p => next'[a] = next[a]
    BY <1>1, <1>2, <1>4, Zenon DEF Link, ListInv, ListTypes, Node0
  <2>2. \A b \in Levels : ~Linked(n, b)
    BY <1>1 DEF Linked
  <2>3. next[p] \in [Levels -> Links]
    BY <1>2, Zenon DEF ListInv, ListTypes, Node0
  <2> QED BY <1>2, <1>3, <2>1, <2>2, <2>3
<1>8. List'
  <2>1. SpliceAt(0, p, n, k)
    BY <1>1, <1>3, <1>5, <1>7 DEF SpliceAt
  <2>2. ListTypes /\ List /\ k \in Nat /\ p \in Node0 /\ 0 \in Levels
    BY <1>2, Zenon DEF ListInv
  <2> HIDE DEF n, p, k
  <2> QED BY <1>1, <1>6, <2>1, <2>2, Splice, Zenon
<1>9. Growth
  BY <1>1, <1>5 DEF Growth, ListInv, ListTypes, Node0
<1>10. \A u \in Threads \ {t} : Same(u)
  BY Zenon DEF Link, ListInv, ListTypes, Same, findVars
<1>11. Search(t)'
  <2>1. \A l \in Levels : Around(preds[t][l], succs[t][l], l, k)
    BY <1>2, Zenon DEF ListInv, Search, Holding
  <2>2. \A l \in Levels : preds[t][l] \in Node0 /\ succs[t][l] \in Links
    BY DEF ListInv, ListTypes, Node0
  <2>3. ASSUME NEW l \in Levels PROVE Around(preds[t][l], succs[t][l], l, op[t].key)'
    <3>1. /\ l < links'[preds[t][l]] /\ key'[preds[t][l]] < k
          /\ succs[t][l] # Nil => /\ succs[t][l] \in Nodes /\ l < links'[succs[t][l]]
                                  /\ k <= key'[succs[t][l]]
      BY <1>6, <1>9, <2>1, <2>2, AroundStable, Zenon DEF ListInv
    <3> QED BY <1>5, <3>1, Zenon DEF Around, Linked
  <2> QED BY <1>2, <1>5, <2>3, Zenon DEF Search, Holding
<1>12. Owner(t)'
  <2>1. key'[n] = k /\ links'[n] = 1 /\ height'[n] = h
    BY <1>1, <1>5, Zenon DEF ListInv, ListTypes
  <2>2. HalfLinked(t)' => h # 1
    BY <1>5, Zenon DEF HalfLinked
  <2>3. 0 < 1 /\ (h # 1 => 1 < h)
    OBVIOUS
  <2> QED BY <1>1, <1>2, <1>5, <2>1, <2>2, <2>3, Zenon DEF Owner
<1>13. \A a \in Node0 \ {n} : links'[a] = links[a] /\ height'[a] = height[a]
  BY <1>5, Zenon DEF ListInv, ListTypes, Node0
<1>14. \A u \in Threads \ {t} : HalfLinked(u) => node[u] # n /\ node'[t] # node[u]
  BY <1>1, <1>5 DEF ListInv, Owners, Owner
<1> QED BY <1>1, <1>6, <1>8, <1>9, <1>10, <1>11, <1>12, <1>13, <1>14, OwnStep, Zenon

(* The neighbours found for a half-linked node still fit it: its successor *)
(* at the next level is not the node itself, nor another with its key.     *)
LEMMA RaiseFits ==
  ASSUME ListTypes, List, NEW n \in Nodes, NEW i \in Levels, NEW p \in Node0,
         NEW s \in Links, NEW k \in Nat,
         links[n] = i, 0 < i, key[n] = k, Around(p, s, i, k)
  PROVE  /\ p # n /\ Linked(p, i) /\ key[p] < k /\ ~Linked(n, i)
         /\ s # Nil => k < key[s]
<1> USE Constants
<1>1. p # n /\ Linked(p, i) /\ key[p] < k /\ ~Linked(n, i)
  BY DEF Around, Linked
<1>2. ASSUME s # Nil PROVE k < key[s]
  <2>1. s \in Nodes /\ Linked(s, i) /\ k <= key[s] /\ s # n
    BY <1>1, <1>2, Zenon DEF Around
  <2>2. links[s] \in Nat /\ key[s] \in Nat
    BY <2>1 DEF ListTypes
  <2>3. n \in Present /\ s \in Present
    BY <2>1, <2>2 DEF Present, Linked
  <2>4. key[s] # k
    BY <2>1, <2>3, Zenon DEF List, KeysUnique
  <2> QED BY <2>1, <2>2, <2>4
<1> QED BY <1>1, <1>2, Zenon

(* The CAS at a higher level links the node there.                         *)
LEMMA RaiseStep ==
  ASSUME ListInv, NEW t \in Threads, Raise(t)
  PROVE  ListInv'
<1> USE Constants
<1> DEFINE n == node[t]
           i == links[n]
           p == preds[t][i]
           k == op[t].key
<1>1. /\ pc[t] = "raise" /\ n \in Nodes /\ op[t].kind = "insert" /\ k \in Nat
      /\ key[n] = k /\ 0 < i /\ i < height[n]
  BY CallFields, Zenon DEF Raise, ListInv, ListTypes, Owners, Owner, HalfLinked
<1>2. i \in Levels /\ i + 1 \in 0 .. MAX_HEIGHT /\ height[n] \in 0 .. MAX_HEIGHT
  BY <1>1 DEF ListInv, ListTypes, Levels
<1>3. p \in Node0 /\ \A l \in Levels : preds[t][l] \in Node0 /\ succs[t][l] \in Links
  BY <1>2 DEF ListInv, ListTypes, Node0
<1>4. Around(p, succs[t][i], i, k) /\ next[p][i] = succs[t][i]
  BY <1>1, <1>2, ZenonT(30) DEF ListInv, Search, Holding, Raise, Cas
<1>5. /\ p # n /\ Linked(p, i) /\ key[p] < k /\ ~Linked(n, i)
      /\ next[p][i] # Nil => k < key[next[p][i]]
  <2>1. ListTypes /\ List /\ succs[t][i] \in Links
    BY <1>2, <1>3, Zenon DEF ListInv
  <2> HIDE DEF n, i, p, k
  <2> QED BY <1>1, <1>2, <1>3, <1>4, <2>1, RaiseFits DEF i
<1>7. /\ key' = key /\ height' = height /\ value' = value /\ links' = [links EXCEPT ![n] = i + 1]
      /\ node' = node /\ pc'[t] = (IF i + 1 = height[n] THEN "charge" ELSE "raise")
      /\ op' = op /\ x' = x /\ lvl' = lvl /\ preds' = preds /\ succs' = succs
  BY Zenon DEF Raise, ListInv, ListTypes, findVars
<1>8. /\ next'[n] = [next[n] EXCEPT ![i] = succs[t][i]]
      /\ next'[p] = [next[p] EXCEPT ![i] = n]
      /\ \A a \in Node0 : a # n /\ a # p => next'[a] = next[a]
      /\ next' \in [Nodes \cup {head} -> [Levels -> Links]]
  BY <1>1, <1>2, <1>3, <1>5, Zenon DEF Raise, ListInv, ListTypes, Node0
<1>9. ListTypes'
  <2>1. links' \in [Nodes \cup {head} -> 0 .. MAX_HEIGHT]
    BY <1>1, <1>2, <1>7, Zenon DEF ListInv, ListTypes
  <2>2. pc' \in [Threads -> Pcs] /\ \A u \in Threads : pc'[u] = "idle" \/ op'[u] \in Calls
    BY <1>1, <1>7, Zenon DEF Raise, ListInv, ListTypes, Pcs
  <2> QED BY <1>7, <1>8, <2>1, <2>2, Zenon DEF ListInv, ListTypes
<1>10. List'
  <2>1. key' = [key EXCEPT ![n] = k]
    BY <1>1, <1>7, Zenon DEF ListInv, ListTypes
  <2>2. /\ next'[p][i] = n /\ next'[n][i] = next[p][i]
        /\ \A a \in Node0, b \in Levels :
             Linked(a, b) /\ ~(a = p /\ b = i) => next'[a][b] = next[a][b]
    <3>1. next[p] \in [Levels -> Links] /\ next[n] \in [Levels -> Links]
      BY <1>1, <1>3, Zenon DEF ListInv, ListTypes, Node0
    <3> HIDE DEF n, i, p, k
    <3> QED BY <1>2, <1>3, <1>4, <1>5, <1>8, <3>1
  <2>3. SpliceAt(i, p, n, k)
    BY <1>1, <1>5, <1>7, <2>1, <2>2, Zenon DEF SpliceAt
  <2>4. ListTypes /\ List
    BY Zenon DEF ListInv
  <2> HIDE DEF n, i, p, k
  <2> QED BY <1>1, <1>2, <1>3, <1>9, <2>3, <2>4, Splice, Zenon
<1>11. Growth
  BY <1>1, <1>2, <1>7 DEF Growth, ListInv, ListTypes, Node0
<1>12. \A u \in Threads \ {t} : Same(u)
  BY Zenon DEF Raise, ListInv, ListTypes, Same, findVars
<1>13. Search(t)'
  <2>1. \A l \in Levels : Around(preds[t][l], succs[t][l], l, k)
    BY <1>1, Zenon DEF ListInv, Search, Holding
  <2>2. ASSUME NEW l \in Levels PROVE Around(preds[t][l], succs[t][l], l, op[t].key)'
    <3>1. /\ l < links'[preds[t][l]] /\ key'[preds[t][l]] < k
          /\ succs[t][l] # Nil => /\ succs[t][l] \in Nodes /\ l < links'[succs[t][l]]
                                  /\ k <= key'[succs[t][l]]
      BY <1>3, <1>9, <1>11, <2>1, AroundStable, Zenon DEF ListInv
    <3> QED BY <1>7, <3>1, Zenon DEF Around, Linked
  <2> QED BY <1>1, <1>7, <2>2, Zenon DEF Search, Holding
<1>14. Owner(t)'
  <2>1. links'[n] = i + 1
    BY <1>1, <1>7, Zenon DEF ListInv, ListTypes
  <2>2. HalfLinked(t)' => i + 1 # height[n]
    BY <1>7, Zenon DEF HalfLinked
  <2>3. 0 < i + 1 /\ (i + 1 # height[n] => i + 1 < height[n])
    BY <1>1, <1>2
  <2> QED BY <1>1, <1>7, <2>1, <2>2, <2>3, Zenon DEF Owner
<1>15. \A a \in Node0 \ {n} : links'[a] = links[a] /\ height'[a] = height[a]
  BY <1>7, Zenon DEF ListInv, ListTypes, Node0
<1>16. \A u \in Threads \ {t} : HalfLinked(u) => node[u] # n /\ node'[t] # node[u]
  BY <1>1, <1>7, Zenon DEF ListInv, Owners, HalfLinked
<1> QED BY <1>1, <1>9, <1>10, <1>11, <1>12, <1>13, <1>14, <1>15, <1>16, OwnStep, Zenon

-----------------------------------------------------------------------------
(* The theorems.                                                           *)

(* The inductive invariant: it holds of the empty list ...                 *)
LEMMA InitInv == Init => ListInv
<1> USE Constants
<1> SUFFICES ASSUME Init PROVE ListInv
  BY Zenon
<1>1. ListTypes
  BY DEF Init, ListTypes, Pcs, Cells, Links
<1>2. /\ links[head] = MAX_HEIGHT /\ key[head] = 0
      /\ \A n \in Nodes : links[n] = 0
      /\ \A l \in Levels : next[head][l] = Nil
      /\ \A t \in Threads : pc[t] = "idle"
  BY Zenon DEF Init
<1>3. List
  BY <1>2 DEF List, HeadInv, Ascending, NoGap, KeysUnique, Present, Linked, Node0
<1>4. \A t \in Threads : Search(t)
  BY <1>2, Zenon DEF Search, Holding
<1>5. Owners
  BY <1>2, Zenon DEF Owners, Owner, HalfLinked
<1> QED BY <1>1, <1>3, <1>4, <1>5, Zenon DEF ListInv

(* ... and every step keeps it.                                            *)
LEMMA NextInv == ListInv /\ [Next]_vars => ListInv'
<1> SUFFICES ASSUME ListInv, [Next]_vars PROVE ListInv'
  BY Zenon
<1>1. CASE UNCHANGED vars
  <2> USE <1>1 DEF vars, listVars, findVars
  <2>1. ListTypes'
    BY Zenon DEF ListInv, ListTypes
  <2>2. List'
    BY Zenon DEF ListInv, List, HeadInv, Ascending, NoGap, KeysUnique, Present, Linked
  <2>3. \A t \in Threads : Search(t)'
    BY DEF ListInv, Search, Around, Linked
  <2>4. Owners'
    BY Zenon DEF ListInv, Owners, Owner, HalfLinked
  <2> QED BY <2>1, <2>2, <2>3, <2>4, Zenon DEF ListInv
<1>2. ASSUME NEW t \in Threads, NEW o \in Calls, Call(t, o) PROVE ListInv'
  BY <1>2, CallStep, Zenon
<1>3. ASSUME NEW t \in Threads, Step(t) PROVE ListInv'
  <2>1. CASE FindForward(t)
    BY <2>1, FindForwardStep, Zenon
  <2>2. CASE FindDown(t)
    BY <2>2, FindDownStep, Zenon
  <2>3. CASE FindEnds(t)
    BY <2>3, FindEndsStep, Zenon
  <2>4. CASE LinkFails(t) \/ RaiseFails(t)
    BY <2>4, FindAgainStep, Zenon DEF LinkFails, RaiseFails
  <2>5. ASSUME NEW h \in 1 .. MAX_HEIGHT, Link(t, h) PROVE ListInv'
    BY <2>5, LinkStep, Zenon
  <2>6. CASE Raise(t)
    BY <2>6, RaiseStep, Zenon
  <2>7. CASE Advance(t)
    BY <2>7, AdvanceStep, Zenon
  <2>8. CASE Store(t)
    <3>1. op[t].val \in Cells /\ succs[t][0] \in Nodes
      BY <2>8, CallFields, Zenon DEF Store, ListInv, ListTypes, Search, Holding
    <3>2. value' \in [Nodes \cup {head} -> Cells]
      BY <2>8, <3>1, Zenon DEF Store, ListInv, ListTypes
    <3> QED BY <2>8, <3>2, PcStep, Zenon DEF Store
  <2>9. CASE Update(t) \/ Charge(t) \/ Count(t) \/ adjustValueBytes(t) \/ get(t) \/ updateCache(t)
    <3>1. value' \in [Nodes \cup {head} -> Cells]
      BY <2>9, Zenon DEF Update, Charge, Count, adjustValueBytes, get, updateCache,
         listVars, ListInv, ListTypes
    <3>2. UNCHANGED <<key, height, next, links, op, findVars, node>>
      BY <2>9, Zenon DEF Update, Charge, Count, adjustValueBytes, get, updateCache,
         listVars
    <3>3. CASE Update(t)
      BY <3>1, <3>2, <3>3, PcStep, Zenon DEF Update
    <3>4. CASE Charge(t)
      BY <3>1, <3>2, <3>4, PcStep, Zenon DEF Charge
    <3>5. CASE Count(t)
      BY <3>1, <3>2, <3>5, PcStep, Zenon DEF Count
    <3>6. CASE adjustValueBytes(t)
      BY <3>1, <3>2, <3>6, PcStep, Zenon DEF adjustValueBytes
    <3>7. CASE get(t)
      BY <3>1, <3>2, <3>7, PcStep, Zenon DEF get
    <3>8. CASE updateCache(t)
      BY <3>1, <3>2, <3>8, PcStep, Zenon DEF updateCache
    <3> QED BY <2>9, <3>3, <3>4, <3>5, <3>6, <3>7, <3>8, Zenon
  <2> QED BY <1>3, <2>1, <2>2, <2>3, <2>4, <2>5, <2>6, <2>7, <2>8, <2>9, Zenon DEF Step
<1> QED BY <1>1, <1>2, <1>3, Zenon DEF Next

(* The inductive invariant holds throughout.                               *)
LEMMA Invariance == Spec => []ListInv
BY InitInv, NextInv, PTL DEF Spec

(* The list keeps its types: every link and every thread's position is a   *)
(* node, and every level one of the levels.                                *)
THEOREM ListTyped == Spec => []ListTypes
<1>1. ListInv => ListTypes
  BY Zenon DEF ListInv
<1> QED BY <1>1, Invariance, PTL

(* No two nodes have one key, however many inserts of it race.             *)
THEOREM UniqueKeys == Spec => []KeysUnique
<1>1. ListInv => KeysUnique
  BY Zenon DEF ListInv, List
<1> QED BY <1>1, Invariance, PTL

(* On every level the links lead through exactly the nodes linked there,   *)
(* in ascending key order: the racing CASes of insert(), and its searches  *)
(* while the new node is half linked, form no cycle and lose no node.      *)
THEOREM SoundLevels == Spec => []LevelsSound
<1>1. ListInv => LevelsSound
  <2> USE Constants
  <2> SUFFICES ASSUME ListInv, NEW l \in Levels, NEW n \in Node0, Linked(n, l)
               PROVE  LET s == next[n][l]
                          above == {m \in Nodes : Linked(m, l) /\ key[m] > key[n]}
                      IN  IF s = Nil THEN above = {}
                          ELSE s \in above /\ \A m \in above : key[s] <= key[m]
    BY Zenon DEF LevelsSound, Node0
  <2>1. \A a \in Node0 : key[a] \in Nat
    BY Zenon DEF ListInv, ListTypes, Node0
  <2>2. next[n][l] # Nil => /\ next[n][l] \in Nodes /\ Linked(next[n][l], l)
                            /\ key[next[n][l]] > key[n]
    BY <2>1, Zenon DEF ListInv, List, Ascending
  <2>3. \A m \in Nodes : Linked(m, l) /\ key[m] > key[n] =>
          next[n][l] # Nil /\ key[next[n][l]] <= key[m]
    BY <2>1, Zenon DEF ListInv, List, NoGap
  <2> QED BY <2>2, <2>3, Zenon
<1> QED BY <1>1, Invariance, PTL

(* At the end of a search, its successor has the key if and only if the    *)
(* list holds it.                                                          *)
LEMMA FindsExactly ==
  ASSUME ListInv, NEW t \in Threads, FindEnds(t)
  PROVE  succs'[t][0] # Nil /\ key[succs'[t][0]] = op[t].key
           <=> \E n \in Present : key[n] = op[t].key
<1> USE Constants
<1>1. /\ Around(x[t], Ahead(t), 0, op[t].key) /\ x[t] \in Node0
      /\ Ahead(t) # Nil => Ahead(t) \in Nodes /\ Linked(Ahead(t), 0)
      /\ Ahead(t) = next[x[t]][0]
  BY StopAround, Zenon DEF FindEnds, Ahead
<1>2. succs'[t][0] = Ahead(t)
  BY Zenon DEF FindEnds, ListInv, ListTypes
<1>3. ASSUME NEW n \in Present, key[n] = op[t].key
      PROVE  Ahead(t) # Nil /\ key[Ahead(t)] = op[t].key
  <2>1. Linked(x[t], 0) /\ key[x[t]] < key[n] /\ n \in Nodes /\ Linked(n, 0)
    BY <1>1, <1>3, Zenon DEF Around, Present
  <2>2. Ahead(t) # Nil /\ key[Ahead(t)] <= key[n]
    BY <1>1, <2>1, Zenon DEF ListInv, List, NoGap
  <2>3. op[t].key <= key[Ahead(t)] /\ key[Ahead(t)] \in Nat /\ key[n] \in Nat
    BY <1>1, <2>1, <2>2, Zenon DEF Around, ListInv, ListTypes
  <2> QED BY <1>3, <2>2, <2>3
<1> QED BY <1>1, <1>2, <1>3, Zenon DEF Present

(* find() is exact: what insert(), get() and seek() conclude from it about *)
(* the key was true at its last load.                                      *)
THEOREM ExactFind == Spec => SearchExact
<1>1. ListInv => FindExact
  BY FindsExactly, Zenon DEF FindExact
<1> QED BY <1>1, Invariance, PTL DEF SearchExact

-----------------------------------------------------------------------------
(* What calls return.  A lookup that is under way finds the value the key  *)
(* holds among those it may return; an iterator has yielded every key it   *)
(* owes up to where it is.                                                 *)

Hit(t) == pc[t] \in {"update", "store", "load"} => key[succs[t][0]] = op[t].key

Answer(t) ==
  op[t].kind = "get" =>
    /\ pc[t] \in {"idle", "find", "load"}
    /\ pc[t] # "idle" => Current(op[t].key) \in seen[t]
    /\ pc[t] = "idle" => out[t][1] \in seen[t]

Yielded(t) == {out[t][i] : i \in DOMAIN out[t]}

(* The iterator has yielded what it owes below k, and nothing from k on.   *)
Reached(t, k) ==
  /\ \A i \in DOMAIN out[t] : out[t][i] < k
  /\ \A j \in seen[t] : j < k => j \in Yielded(t)

Walk(t) ==
  op[t].kind = "scan" =>
    /\ pc[t] \in {"idle", "find", "yield", "advance"}
    /\ \A k \in seen[t] : op[t].key <= k /\ \E n \in Present : key[n] = k
    /\ \A i, j \in DOMAIN out[t] : i < j => out[t][i] < out[t][j]
    /\ pc[t] = "find" => out[t] = <<>>
    /\ pc[t] = "yield" => Reached(t, key[succs[t][0]])
    /\ pc[t] = "advance" => Reached(t, key[succs[t][0]] + 1)
    /\ pc[t] = "idle" => seen[t] \subseteq Yielded(t)

CallTypes ==
  /\ bytes \in 0 .. SizeModulus - 1 /\ count \in Nat
  /\ replaced \in [Threads -> Nat]
  /\ out \in [Threads -> Seq(Int)] /\ seen \in [Threads -> SUBSET Int]
  /\ raced \in BOOLEAN /\ calls \in 0 .. MaxCalls

CallInv == CallTypes /\ \A t \in Threads : Hit(t) /\ Answer(t) /\ Walk(t)

(* The one node of a key has what the list holds for it.                   *)
LEMMA CurrentOf ==
  ASSUME ListInv, NEW n \in Present
  PROVE  Current(key[n]) = value[n]
<1>1. \A m \in Present : key[m] = key[n] => m = n
  BY Zenon DEF ListInv, List, KeysUnique
<1> QED
  BY <1>1, Zenon DEF Current

(* Nodes stay in the list, with their keys.                                *)
LEMMA Grows ==
  ASSUME ListInv, ListInv', [Next]_vars
  PROVE  /\ Growth
         /\ \A n \in Present : n \in Present' /\ key'[n] = key[n]
<1> USE Constants
<1>1. ASSUME UNCHANGED <<key, links>> PROVE Growth
  BY <1>1, SMTT(30) DEF Growth, ListInv, ListTypes, Node0
<1>2. ASSUME NEW t \in Threads, NEW h \in 1 .. MAX_HEIGHT, Link(t, h) PROVE Growth
  <2>1. newNode \in Nodes /\ links[newNode] = 0
    BY <1>2, Zenon DEF Link, newNode
  <2>2. key' = [key EXCEPT ![newNode] = op[t].key] /\ links' = [links EXCEPT ![newNode] = 1]
    BY <1>2, Zenon DEF Link
  <2> QED
    BY <2>1, <2>2 DEF Growth, ListInv, ListTypes, Node0
<1>3. ASSUME NEW t \in Threads, Raise(t) PROVE Growth
  <2>1. node[t] \in Nodes
    BY <1>3, Zenon DEF Raise, ListInv, Owners, Owner, HalfLinked
  <2>2. key' = key /\ links' = [links EXCEPT ![node[t]] = links[node[t]] + 1]
    BY <1>3, Zenon DEF Raise
  <2> QED
    BY <2>1, <2>2 DEF Growth, ListInv, ListTypes, Node0
<1>4. Growth
  <2>1. ASSUME NEW t \in Threads, Step(t)
        PROVE  Raise(t) \/ (\E h \in 1 .. MAX_HEIGHT : Link(t, h)) \/ UNCHANGED <<key, links>>
    BY <2>1, Zenon DEF Step, FindForward, FindDown, FindEnds, Update, Store, LinkFails,
       RaiseFails, FindAgain, Charge, Count, adjustValueBytes, get, updateCache,
       Advance, listVars
  <2>2. ASSUME NEW t \in Threads, NEW o \in Calls, Call(t, o) PROVE UNCHANGED <<key, links>>
    BY <2>2, Zenon DEF Call, listVars
  <2>3. CASE UNCHANGED vars
    BY <1>1, <2>3, Zenon DEF vars, listVars
  <2> QED
    BY <1>1, <1>2, <1>3, <2>1, <2>2, <2>3, Zenon DEF Next
<1>5. \A a \in Node0 : links[a] \in Nat /\ links'[a] \in Nat
  BY DEF ListInv, ListTypes, Node0
<1>6. \A n \in Nodes : Linked(n, 0) => 0 < links'[n] /\ key'[n] = key[n]
  BY <1>4, <1>5 DEF Growth, Linked
<1> QED
  BY <1>4, <1>6, Zenon DEF Present, Linked

(* Linking a node at a higher level leaves the list at level 0 as it is.   *)
LEMMA RaiseKeeps ==
  ASSUME ListInv, NEW t \in Threads, Raise(t)
  PROVE  /\ Present' = Present /\ key' = key /\ value' = value
         /\ pc[t] = "raise" /\ node[t] \in Nodes
<1>1. ListTypes /\ Owner(t) /\ pc[t] = "raise"
  BY Zenon DEF ListInv, Owners, Raise
<1>2. /\ node[t] \in Nodes /\ 0 < links[node[t]] /\ key' = key /\ value' = value
      /\ links' = [links EXCEPT ![node[t]] = links[node[t]] + 1]
  BY <1>1, Zenon DEF Raise, Owner, HalfLinked
<1>3. links'[node[t]] = links[node[t]] + 1 /\ \A n \in Nodes \ {node[t]} : links'[n] = links[n]
  BY <1>1, <1>2, Zenon DEF ListTypes
<1>4. links[node[t]] \in 0 .. MAX_HEIGHT
  BY <1>1, <1>2, Zenon DEF ListTypes
<1>5. 0 < links'[node[t]]
  BY <1>3, <1>4, Constants
<1>6. \A n \in Nodes : 0 < links'[n] <=> 0 < links[n]
  BY <1>2, <1>3, <1>5, Zenon
<1>7. Present' = Present
  BY <1>6, Zenon DEF Present, Linked
<1> QED
  BY <1>1, <1>2, <1>7, Zenon

(* A step changes what the list holds for a key only by putting the value  *)
(* of its own insert there.                                                *)
LEMMA CurrentStep ==
  ASSUME ListInv, ListInv', NEW t \in Threads, Step(t), NEW k,
         Hit(t), Current(k)' # Current(k)
  PROVE  k = op[t].key /\ Current(k)' = op[t].val /\ seen' = Seen(op[t].key, op[t].val)
<1> USE Constants
<1>1. CASE Store(t)
  <2>1. /\ succs[t][0] \in Present /\ value' = [value EXCEPT ![succs[t][0]] = op[t].val]
        /\ key' = key /\ links' = links /\ key[succs[t][0]] = op[t].key
        /\ seen' = Seen(op[t].key, op[t].val)
    BY <1>1, Zenon DEF Store, ListInv, Search, Hit, Present
  <2>2. Present' = Present
    BY <2>1, Zenon DEF Present, Linked
  <2>3. k = op[t].key
    <3>1. ASSUME k # op[t].key, NEW n \in Present, key[n] = k PROVE value'[n] = value[n]
      BY <2>1, <3>1, Zenon DEF Present, ListInv, ListTypes
    <3>2. ASSUME k # op[t].key, NEW n \in Present, key[n] = k PROVE FALSE
      <4>1. Current(k) = value[n]
        BY <3>2, CurrentOf, Zenon
      <4>2. Current(k)' = value'[n]
        <5>1. \A m \in Present' : key'[m] = k => m = n
          BY <2>1, <2>2, <3>2, Zenon DEF ListInv, List, KeysUnique
        <5> QED
          BY <2>1, <2>2, <3>2, <5>1, Zenon DEF Current
      <4> QED
        BY <3>1, <3>2, <4>1, <4>2, Zenon
    <3>3. (\A n \in Present : key[n] # k) => Current(k) = Miss /\ Current(k)' = Miss
      BY <2>1, <2>2, Zenon DEF Current
    <3> QED
      BY <3>2, <3>3, Zenon
  <2>4. Current(k)' = value'[succs[t][0]]
    <3>1. \A m \in Present' : key'[m] = k => m = succs[t][0]
      BY <2>1, <2>2, <2>3, Zenon DEF ListInv, List, KeysUnique
    <3> QED
      BY <2>1, <2>2, <2>3, <3>1, Zenon DEF Current
  <2>5. value'[succs[t][0]] = op[t].val
    BY <2>1, Zenon DEF ListInv, ListTypes, Present
  <2> QED
    BY <2>1, <2>3, <2>4, <2>5, Zenon
<1>2. ASSUME NEW h \in 1 .. MAX_HEIGHT, Link(t, h) PROVE
        k = op[t].key /\ Current(k)' = op[t].val /\ seen' = Seen(op[t].key, op[t].val)
  <2> DEFINE n == newNode
  <2>1. /\ n \in Nodes /\ links[n] = 0
        /\ key' = [key EXCEPT ![n] = op[t].key] /\ value' = [value EXCEPT ![n] = op[t].val]
        /\ links' = [links EXCEPT ![n] = 1] /\ seen' = Seen(op[t].key, op[t].val)
    BY <1>2, ZenonT(30) DEF Link, newNode
  <2> HIDE DEF n
  <2>2. Present' = Present \cup {n} /\ n \notin Present
    BY <2>1 DEF Present, Linked, ListInv, ListTypes
  <2>3. \A m \in Present : key'[m] = key[m] /\ value'[m] = value[m]
    BY <2>1, <2>2, Zenon DEF Present, ListInv, ListTypes
  <2>4. key'[n] = op[t].key /\ value'[n] = op[t].val
    BY <2>1, Zenon DEF ListInv, ListTypes
  <2>5. \A a, b \in Present' : key'[a] = key'[b] => a = b
    BY Zenon DEF ListInv, List, KeysUnique
  <2>6. k = op[t].key
    <3>1. ASSUME k # op[t].key, NEW m \in Present, key[m] = k PROVE FALSE
      <4>1. Current(k) = value[m]
        BY <3>1, CurrentOf, Zenon
      <4>2. m \in Present' /\ key'[m] = k /\ value'[m] = value[m]
        BY <2>2, <2>3, <3>1, Zenon
      <4>3. Current(k)' = value'[m]
        BY <2>5, <4>2, Zenon DEF Current
      <4> QED
        BY <4>1, <4>2, <4>3, Zenon
    <3>2. k # op[t].key /\ (\A m \in Present : key[m] # k)
            => Current(k) = Miss /\ Current(k)' = Miss
      BY <2>2, <2>3, <2>4, Zenon DEF Current
    <3> QED
      BY <3>1, <3>2, Zenon
  <2>7. Current(k)' = value'[n]
    BY <2>2, <2>4, <2>5, <2>6, Zenon DEF Current
  <2> QED
    BY <2>1, <2>4, <2>6, <2>7, Zenon
<1>3. CASE Raise(t)
  BY <1>3, RaiseKeeps, Zenon DEF Current
<1>4. ASSUME UNCHANGED <<key, value, links>> PROVE FALSE
  <2>1. Present' = Present
    BY <1>4, Zenon DEF Present, Linked
  <2> QED
    BY <1>4, <2>1, Zenon DEF Current
<1>5. \/ Store(t) \/ Raise(t) \/ (\E h \in 1 .. MAX_HEIGHT : Link(t, h))
      \/ UNCHANGED <<key, value, links>>
  BY Zenon DEF Step, FindForward, FindDown, FindEnds, Update, LinkFails, RaiseFails,
     FindAgain, Charge, Count, adjustValueBytes, get, updateCache, Advance, listVars
<1> QED
  BY <1>1, <1>2, <1>3, <1>4, <1>5, Zenon

(* A step of one thread leaves the others where they are, with the keys    *)
(* they have yielded.                                                      *)
LEMMA Apart ==
  ASSUME ListInv, CallTypes, NEW t \in Threads, Step(t), NEW u \in Threads \ {t}
  PROVE  Same(u) /\ out'[u] = out[u]
<1> USE DEF ListInv, ListTypes, CallTypes, Same, findVars
<1>1. CASE FindForward(t) \/ FindDown(t)
  BY <1>1, ZenonT(30) DEF FindForward, FindDown
<1>2. CASE FindEnds(t)
  BY <1>2, Zenon DEF FindEnds
<1>3. CASE Update(t) \/ Store(t) \/ LinkFails(t) \/ Raise(t) \/ RaiseFails(t)
  BY <1>3, ZenonT(30) DEF Update, Store, LinkFails, Raise, RaiseFails, FindAgain
<1>4. ASSUME NEW h \in 1 .. MAX_HEIGHT, Link(t, h) PROVE Same(u) /\ out'[u] = out[u]
  BY <1>4, Zenon DEF Link
<1>5. CASE Charge(t) \/ Count(t) \/ adjustValueBytes(t)
  BY <1>5, Zenon DEF Charge, Count, adjustValueBytes
<1>6. CASE get(t) \/ updateCache(t) \/ Advance(t)
  BY <1>6, ZenonT(30) DEF get, updateCache, Advance
<1> QED
  BY <1>1, <1>2, <1>3, <1>4, <1>5, <1>6, Zenon DEF Step

(* What the list holds for its key stays among what a lookup may return.   *)
LEMMA SeenStep ==
  ASSUME ListInv, ListInv', CallTypes, NEW t \in Threads, Step(t), Hit(t), NEW u \in Threads
  PROVE  /\ seen[u] \subseteq seen'[u]
         /\ seen'[u] = seen[u] \/ (pc[u] # "idle" /\ op[u].kind = "get")
         /\ \A k : /\ pc[u] # "idle" /\ op[u].kind = "get" /\ op[u].key = k
                   /\ Current(k) \in seen[u]
                   => Current(k)' \in seen'[u]
<1>1. seen' = seen \/ seen' = Seen(op[t].key, op[t].val)
  BY Zenon DEF Step, FindForward, FindDown, FindEnds, Update, Store, LinkFails, Raise,
     RaiseFails, FindAgain, Link, Charge, Count, adjustValueBytes, get, updateCache,
     Advance
<1>2. seen' = Seen(op[t].key, op[t].val) =>
        seen'[u] = IF pc[u] # "idle" /\ op[u].kind = "get" /\ op[u].key = op[t].key
                     THEN seen[u] \cup {op[t].val} ELSE seen[u]
  BY Zenon DEF Seen
<1>3. seen[u] \subseteq seen'[u] /\ (seen'[u] = seen[u] \/ (pc[u] # "idle" /\ op[u].kind = "get"))
  BY <1>1, <1>2, Zenon
<1>4. ASSUME NEW k, pc[u] # "idle", op[u].kind = "get", op[u].key = k, Current(k) \in seen[u]
      PROVE  Current(k)' \in seen'[u]
  <2>1. CASE Current(k)' = Current(k)
    BY <1>3, <1>4, <2>1, Zenon
  <2>2. CASE Current(k)' # Current(k)
    <3>1. k = op[t].key /\ Current(k)' = op[t].val /\ seen' = Seen(op[t].key, op[t].val)
      BY <2>2, CurrentStep, Zenon
    <3> QED
      BY <1>2, <1>4, <3>1, Zenon
  <2> QED
    BY <2>1, <2>2, Zenon
<1> QED
  BY <1>3, <1>4, Zenon

(* The keys an iterator owes stay in the list.                             *)
LEMMA OwedStay ==
  ASSUME ListInv, ListInv', [Next]_vars, NEW S,
         NEW b, \A k \in S : b <= k /\ \E n \in Present : key[n] = k
  PROVE  \A k \in S : b <= k /\ \E n \in Present' : key'[n] = k
BY Grows, Zenon

(* A thread that does not move keeps what is known of its call.            *)
LEMMA Waits ==
  ASSUME ListInv, ListInv', [Next]_vars, NEW u \in Threads,
         Hit(u), Answer(u), Walk(u), Same(u), out'[u] = out[u],
         seen[u] \subseteq seen'[u],
         seen'[u] = seen[u] \/ (pc[u] # "idle" /\ op[u].kind = "get"),
         \A k : /\ pc[u] # "idle" /\ op[u].kind = "get" /\ op[u].key = k
                /\ Current(k) \in seen[u]
                => Current(k)' \in seen'[u]
  PROVE  Hit(u)' /\ Answer(u)' /\ Walk(u)'
<1> USE DEF Same
<1>1. pc[u] \in {"update", "store", "load", "yield", "advance"} =>
        succs[u][0] \in Present /\ key'[succs[u][0]] = key[succs[u][0]]
  BY Grows, Zenon DEF ListInv, Search, Present
<1>2. Hit(u)'
  BY <1>1, Zenon DEF Hit
<1>3. Answer(u)'
  <2> SUFFICES ASSUME op'[u].kind = "get" PROVE
                 /\ pc'[u] \in {"idle", "find", "load"}
                 /\ pc'[u] # "idle" => Current(op[u].key)' \in seen'[u]
                 /\ pc'[u] = "idle" => out'[u][1] \in seen'[u]
    BY Zenon DEF Answer
  <2>1. PICK k : k = op[u].key
    BY Zenon
  <2>2. pc[u] # "idle" => Current(k) \in seen[u]
    BY <2>1, Zenon DEF Answer
  <2>3. op'[u].key = k
    BY <2>1, Zenon
  <2>4. pc'[u] # "idle" => Current(k)' \in seen'[u]
    BY <2>1, <2>2, Zenon
  <2>5. pc'[u] # "idle" => Current(op[u].key)' \in seen'[u]
    BY <2>3, <2>4, Zenon
  <2> QED
    BY <2>5, Zenon DEF Answer
<1>4. ASSUME op[u].kind = "scan" PROVE Walk(u)'
  <2>1. seen'[u] = seen[u]
    BY <1>4, Zenon
  <2>2. \A k \in seen[u] : op[u].key <= k /\ \E n \in Present' : key'[n] = k
    BY <1>4, OwedStay, Zenon DEF Walk
  <2>3. Yielded(u)' = Yielded(u)
    BY Zenon DEF Yielded
  <2>4. ASSUME NEW k, Reached(u, k) PROVE Reached(u, k)'
    BY <2>1, <2>3, <2>4, Zenon DEF Reached
  <2>5. pc[u] = "yield" => Reached(u, key[succs[u][0]])'
    <3>1. ASSUME pc[u] = "yield" PROVE Reached(u, key[succs[u][0]])
      BY <1>4, <3>1, Zenon DEF Walk
    <3>2. PICK k : k = key[succs[u][0]]
      BY Zenon
    <3>3. pc[u] = "yield" => Reached(u, k)' /\ k = key'[succs'[u][0]]
      BY <1>1, <2>4, <3>1, <3>2, Zenon
    <3> QED
      BY <3>3, Zenon
  <2>6. pc[u] = "advance" => Reached(u, key[succs[u][0]] + 1)'
    <3>1. ASSUME pc[u] = "advance" PROVE Reached(u, key[succs[u][0]] + 1)
      BY <1>4, <3>1, Zenon DEF Walk
    <3>2. PICK k : k = key[succs[u][0]] + 1
      BY Zenon
    <3>3. pc[u] = "advance" => Reached(u, k)' /\ k = key'[succs'[u][0]] + 1
      BY <1>1, <2>4, <3>1, <3>2, Zenon
    <3> QED
      BY <3>3, Zenon
  <2>7. /\ pc'[u] \in {"idle", "find", "yield", "advance"}
        /\ \A i, j \in DOMAIN out'[u] : i < j => out'[u][i] < out'[u][j]
        /\ pc'[u] = "find" => out'[u] = <<>>
        /\ pc'[u] = "idle" => seen'[u] \subseteq Yielded(u)'
    BY <1>4, <2>1, <2>3, Zenon DEF Walk
  <2> QED
    BY <2>1, <2>2, <2>5, <2>6, <2>7, Zenon DEF Walk
<1> QED
  BY <1>2, <1>3, <1>4, Zenon DEF Walk

(* A call begins: nothing yielded, and what it may return or owes is what  *)
(* the list holds now.                                                     *)
LEMMA CallBegins ==
  ASSUME ListInv, ListInv', CallInv, NEW t \in Threads, NEW o \in Calls, Call(t, o),
         NEW u \in Threads
  PROVE  Hit(u)' /\ Answer(u)' /\ Walk(u)'
<1>1. UNCHANGED <<key, value, links>> /\ Present' = Present
  BY Zenon DEF Call, listVars, Present, Linked
<1>2. CASE u # t
  <2>1. Same(u) /\ out'[u] = out[u] /\ seen'[u] = seen[u]
    <3>1. Same(u)
      BY <1>2, ZenonT(30) DEF Call, ListInv, ListTypes, Same
    <3>2. out'[u] = out[u] /\ seen'[u] = seen[u]
      BY <1>2, Zenon DEF Call, CallInv, CallTypes
    <3> QED
      BY <3>1, <3>2, Zenon
  <2>2. [Next]_vars
    BY Zenon DEF Next
  <2>3. \A k : Current(k)' = Current(k)
    BY <1>1, Zenon DEF Current
  <2> QED
    BY <2>1, <2>2, <2>3, Waits, Zenon DEF CallInv
<1>3. CASE u = t
  <2>1. /\ pc'[t] = "find" /\ op'[t] = o /\ out'[t] = <<>>
        /\ seen'[t] = CASE o.kind = "get" -> {Current(o.key)}
                        [] o.kind = "scan" -> {key[n] : n \in {m \in Present : key[m] >= o.key}}
                        [] OTHER -> {}
    BY ZenonT(30) DEF Call, ListInv, ListTypes, CallInv, CallTypes
  <2>2. Hit(t)'
    BY <2>1, Zenon DEF Hit
  <2>3. Answer(t)'
    <3> SUFFICES ASSUME o.kind = "get" PROVE Current(op[t].key)' \in seen'[t]
      BY <2>1, Zenon DEF Answer
    <3>1. Current(o.key)' = Current(o.key)
      BY <1>1, Zenon DEF Current
    <3> QED
      BY <2>1, <3>1, Zenon
  <2>4. Walk(t)'
    <3> SUFFICES ASSUME o.kind = "scan", NEW k \in seen'[t]
                 PROVE  o.key <= k /\ \E n \in Present' : key'[n] = k
      BY <2>1 DEF Walk
    <3>1. seen'[t] = {key[n] : n \in {m \in Present : key[m] >= o.key}}
      BY <2>1, Zenon
    <3>2. PICK n \in Present : k = key[n] /\ key[n] >= o.key
      BY <3>1, Zenon
    <3>3. key[n] \in Nat /\ o.key \in Nat
      BY CallFields, Zenon DEF ListInv, ListTypes, Present
    <3>4. o.key <= k
      BY <3>2, <3>3, Zenon
    <3> QED
      BY <1>1, <3>2, <3>4, Zenon
  <2> QED
    BY <1>3, <2>2, <2>3, <2>4, Zenon
<1> QED
  BY <1>2, <1>3, Zenon

(* One more key, above those of an ascending sequence.                     *)
LEMMA AppendAbove ==
  ASSUME NEW s \in Seq(Int), NEW k \in Int,
         \A i \in DOMAIN s : s[i] < k,
         \A i, j \in DOMAIN s : i < j => s[i] < s[j]
  PROVE  /\ \A i \in DOMAIN Append(s, k) : Append(s, k)[i] < k + 1
         /\ \A i, j \in DOMAIN Append(s, k) : i < j => Append(s, k)[i] < Append(s, k)[j]
         /\ \E i \in DOMAIN Append(s, k) : Append(s, k)[i] = k
         /\ \A i \in DOMAIN s : i \in DOMAIN Append(s, k) /\ Append(s, k)[i] = s[i]
<1>1. /\ Len(s) \in Nat /\ DOMAIN s = 1 .. Len(s) /\ \A i \in DOMAIN s : s[i] \in Int
      /\ DOMAIN Append(s, k) = 1 .. Len(s) + 1
      /\ \A i \in DOMAIN s : Append(s, k)[i] = s[i]
      /\ Append(s, k)[Len(s) + 1] = k
  OBVIOUS
<1>2. \A i \in DOMAIN Append(s, k) : i \in DOMAIN s \/ i = Len(s) + 1
  BY <1>1, SMTT(30)
<1>3. \A i \in DOMAIN Append(s, k) : Append(s, k)[i] < k + 1
  BY <1>1, <1>2
<1>4. ASSUME NEW i \in DOMAIN Append(s, k), NEW j \in DOMAIN Append(s, k), i < j
      PROVE  Append(s, k)[i] < Append(s, k)[j]
  <2>1. i \in DOMAIN s
    BY <1>1, <1>4
  <2> QED
    BY <1>1, <1>2, <1>4, <2>1, Zenon
<1>5. Len(s) + 1 \in DOMAIN Append(s, k) /\ \A i \in DOMAIN s : i \in DOMAIN Append(s, k)
  BY <1>1
<1> QED
  BY <1>1, <1>3, <1>4, <1>5, Zenon

(* Every key of the list is at or below a node at level 0, or at or above  *)
(* its successor there.                                                    *)
LEMMA NoneBetween ==
  ASSUME ListInv, NEW p \in Node0, Linked(p, 0), NEW n \in Present, key[p] < key[n]
  PROVE  next[p][0] # Nil /\ key[next[p][0]] <= key[n]
BY Constants, Zenon DEF ListInv, List, NoGap, Present

(* A step of the thread itself.                                            *)
LEMMA Moves ==
  ASSUME ListInv, ListInv', CallInv, NEW t \in Threads, Step(t)
  PROVE  Hit(t)' /\ Answer(t)' /\ Walk(t)'
<1> USE Constants
<1> DEFINE s == succs[t][0]
<1>1. Hit(t) /\ Answer(t) /\ Walk(t) /\ ListTypes /\ CallTypes
  BY Zenon DEF CallInv, ListInv
<1>2. op' = op /\ pc[t] # "idle"
  BY Zenon DEF Step, FindForward, FindDown, FindEnds, Update, Store, LinkFails, Raise,
     RaiseFails, FindAgain, Link, Charge, Count, adjustValueBytes, get, updateCache,
     Advance
<1>3. Answer(t)' <=>
        (op[t].kind = "get" => /\ pc'[t] \in {"idle", "find", "load"}
                               /\ pc'[t] = "idle" => out'[t][1] \in seen'[t])
  <2>1. PICK k : k = op[t].key
    BY Zenon
  <2>2. op[t].kind = "get" => Current(k)' \in seen'[t]
    BY <1>1, <1>2, <2>1, SeenStep, Zenon DEF Answer
  <2>3. op'[t].key = k
    BY <1>2, <2>1, Zenon
  <2>4. op[t].kind = "get" => Current(op[t].key)' \in seen'[t]
    BY <2>2, <2>3, Zenon
  <2> QED
    BY <1>2, <2>4, Zenon DEF Answer
<1>4. op[t].kind = "scan" => seen'[t] = seen[t]
  BY <1>1, SeenStep, Zenon
<1>5. op[t].kind = "scan" => \A k \in seen[t] : op[t].key <= k /\ \E n \in Present : key[n] = k
  BY <1>1, Zenon DEF Walk
<1>6. op[t].kind = "scan" => \A k \in seen[t] : op[t].key <= k /\ \E n \in Present' : key'[n] = k
  BY <1>5, OwedStay, Zenon DEF Next
<1>7. \A n \in Node0 : key[n] \in Nat
  BY <1>1, Zenon DEF ListTypes, Node0
<1>8. \A k \in seen[t] : k \in Int
  BY <1>1, Zenon DEF CallTypes
<1>9. op[t] \in Calls /\ op[t].key \in Nat
  BY <1>1, <1>2, CallFields, Zenon DEF ListTypes
<1>10. CASE FindForward(t) \/ FindDown(t)
  <2>1. pc[t] = "find" /\ pc' = pc /\ out' = out
    BY <1>10, Zenon DEF FindForward, FindDown
  <2>2. Walk(t)'
    BY <1>1, <1>2, <1>4, <1>6, <2>1, Zenon DEF Walk
  <2> QED
    BY <1>3, <2>1, <2>2, Zenon DEF Hit
<1>11. CASE FindEnds(t)
  <2> DEFINE a == next[x[t]][0]
  <2>1. /\ pc[t] = "find" /\ Ahead(t) = a /\ pc'[t] = AfterFind(t, a) /\ succs'[t][0] = a
        /\ UNCHANGED <<key, seen>>
    BY <1>1, <1>11, Zenon DEF FindEnds, ListTypes, Ahead, listVars
  <2>2. /\ x[t] \in Node0 /\ Linked(x[t], 0) /\ key[x[t]] < op[t].key
        /\ a # Nil => a \in Nodes
    BY <1>1, <1>11, StopAround, Zenon DEF FindEnds, Around, Ahead
  <2>3. op[t].kind \in {"insert", "get", "scan"}
    BY <1>9, CallFields, Zenon
  <2>4. Hit(t)'
    BY <1>2, <2>1, <2>3, Zenon DEF Hit, AfterFind
  <2>5. Answer(t)'
    <3> SUFFICES ASSUME op[t].kind = "get" PROVE
                   /\ pc'[t] \in {"load", "idle"}
                   /\ pc'[t] = "idle" => out'[t][1] \in seen'[t]
      BY <1>3, Zenon
    <3>1. pc'[t] = IF a # Nil /\ key[a] = op[t].key THEN "load" ELSE "idle"
      BY <2>1, Zenon DEF AfterFind
    <3>2. ASSUME pc'[t] = "idle" PROVE out'[t] = <<Miss>> /\ Current(op[t].key) = Miss
      <4>1. out'[t] = <<Miss>>
        BY <1>1, <1>11, <2>1, <3>2, Zenon DEF FindEnds, CallTypes
      <4>2. ~ \E n \in Present : key[n] = op[t].key
        BY <1>11, <2>1, <3>1, <3>2, FindsExactly, Zenon
      <4> QED
        BY <4>1, <4>2, Zenon DEF Current
    <3>3. <<Miss>>[1] = Miss
      BY Zenon
    <3>4. Current(op[t].key) \in seen[t]
      BY <1>1, <2>1, Zenon DEF Answer
    <3> QED
      BY <2>1, <3>1, <3>2, <3>3, <3>4, Zenon
  <2>6. ASSUME op[t].kind = "scan" PROVE Walk(t)'
    <3>1. pc'[t] = (IF a # Nil THEN "yield" ELSE "idle") /\ out' = out /\ out[t] = <<>>
      BY <1>1, <1>11, <2>1, <2>6, Zenon DEF AfterFind, FindEnds, Walk
    <3>2. ASSUME NEW k \in seen[t] PROVE a # Nil /\ key[a] <= k
      <4>1. PICK n \in Present : op[t].key <= k /\ key[n] = k
        BY <1>5, <2>6, Zenon
      <4>2. key[x[t]] < key[n]
        BY <1>7, <1>8, <1>9, <2>2, <4>1, SMTT(30)
      <4> QED
        BY <2>2, <4>1, <4>2, NoneBetween, Zenon
    <3>3. \A k \in seen[t] : a # Nil => ~(k < key[a])
      BY <1>7, <1>8, <2>2, <3>2
    <3>4. out'[t] = <<>> /\ DOMAIN out'[t] = {}
      BY <3>1
    <3>5. seen'[t] = seen[t] /\ key' = key
      BY <2>1, Zenon
    <3>6. pc'[t] = "yield" => a # Nil /\ Reached(t, key[succs[t][0]])'
      BY <2>1, <3>1, <3>3, <3>4, <3>5, Zenon DEF Reached
    <3>7. pc'[t] = "idle" => seen'[t] \subseteq Yielded(t)'
      BY <3>1, <3>2, <3>5, Zenon
    <3>8. pc'[t] \in {"yield", "idle"}
      BY <3>1, Zenon
    <3> QED
      BY <1>2, <1>6, <3>4, <3>5, <3>6, <3>7, <3>8, Zenon DEF Walk
  <2>7. Walk(t)'
    BY <1>2, <2>6, Zenon DEF Walk
  <2> QED
    BY <2>4, <2>5, <2>7, Zenon
<1>12. CASE \/ Update(t) \/ Store(t) \/ LinkFails(t) \/ Raise(t) \/ RaiseFails(t)
            \/ (\E h \in 1 .. MAX_HEIGHT : Link(t, h))
            \/ Charge(t) \/ Count(t) \/ adjustValueBytes(t)
  <2>1. pc[t] \in {"update", "store", "link", "raise", "charge", "count", "adjust"}
    BY <1>12, Zenon DEF Update, Store, LinkFails, Raise, RaiseFails, Link, Charge,
       Count, adjustValueBytes
  <2>2. op[t].kind # "get" /\ op[t].kind # "scan"
    BY <1>1, <2>1, Zenon DEF Answer, Walk
  <2>3. ASSUME Update(t) PROVE Hit(t)'
    <3>1. pc[t] = "update" /\ key' = key /\ succs' = succs
      BY <2>3, Zenon DEF Update, listVars, findVars
    <3> QED
      BY <1>1, <1>2, <3>1, Zenon DEF Hit
  <2>4. ASSUME ~Update(t) PROVE Hit(t)'
    <3>1. ASSUME Store(t) \/ Charge(t) \/ Count(t) \/ adjustValueBytes(t)
          PROVE  pc'[t] \in {"adjust", "count", "idle"}
      BY <1>1, <3>1, Zenon DEF Store, Charge, Count, adjustValueBytes, ListTypes
    <3>2. ASSUME LinkFails(t) \/ RaiseFails(t) PROVE pc'[t] = "find"
      BY <1>1, <3>2, Zenon DEF LinkFails, RaiseFails, FindAgain, ListTypes
    <3>3. ASSUME Raise(t) \/ \E h \in 1 .. MAX_HEIGHT : Link(t, h)
          PROVE  pc'[t] \in {"charge", "raise"}
      <4>1. \E q \in {"charge", "raise"} : pc' = [pc EXCEPT ![t] = q]
        BY <3>3, Zenon DEF Raise, Link
      <4> QED
        BY <1>1, <4>1, Zenon DEF ListTypes
    <3> QED
      BY <1>12, <2>4, <3>1, <3>2, <3>3, Zenon DEF Hit
  <2> QED
    BY <1>2, <2>2, <2>3, <2>4, Zenon DEF Answer, Walk
<1>13. CASE get(t)
  <2>1. pc[t] = "load" /\ pc'[t] = "idle" /\ out'[t] = <<value[s]>> /\ seen' = seen
    BY <1>1, <1>13, Zenon DEF get, ListTypes, CallTypes
  <2>2. s \in Present /\ key[s] = op[t].key
    BY <1>1, <2>1, Zenon DEF ListInv, Search, Hit, Present
  <2>3. Current(op[t].key) = value[s]
    BY <2>2, CurrentOf, Zenon
  <2>4. <<value[s]>>[1] = value[s]
    BY Zenon
  <2>5. op[t].kind = "get" => out'[t][1] \in seen'[t]
    BY <1>1, <2>1, <2>3, <2>4, Zenon DEF Answer
  <2>6. op[t].kind # "scan"
    BY <1>1, <2>1, Zenon DEF Walk
  <2> QED
    BY <1>2, <1>3, <2>1, <2>5, <2>6, Zenon DEF Hit, Walk
<1>14. CASE updateCache(t)
  <2>1. /\ pc[t] = "yield" /\ pc'[t] = "advance" /\ out'[t] = Append(out[t], key[s])
        /\ key' = key /\ succs' = succs /\ seen' = seen
    BY <1>1, <1>14, Zenon DEF updateCache, ListTypes, CallTypes, listVars, findVars
  <2>2. op[t].kind # "get"
    BY <1>1, <2>1, Zenon DEF Answer
  <2>3. ASSUME op[t].kind = "scan" PROVE Walk(t)'
    <3>1. /\ Reached(t, key[s]) /\ \A i, j \in DOMAIN out[t] : i < j => out[t][i] < out[t][j]
      BY <1>1, <2>1, <2>3, Zenon DEF Walk
    <3>2. s \in Nodes
      BY <2>1, Zenon DEF ListInv, Search
    <3>3. out[t] \in Seq(Int) /\ key[s] \in Nat
      BY <1>1, <1>7, <3>2, Zenon DEF CallTypes
    <3>4. key[s] \in Int
      BY <3>3
    <3>5. /\ \A i \in DOMAIN out'[t] : out'[t][i] < key[s] + 1
          /\ \A i, j \in DOMAIN out'[t] : i < j => out'[t][i] < out'[t][j]
          /\ \E i \in DOMAIN out'[t] : out'[t][i] = key[s]
          /\ \A i \in DOMAIN out[t] : i \in DOMAIN out'[t] /\ out'[t][i] = out[t][i]
      <4>1. PICK q \in Seq(Int), k \in Int : q = out[t] /\ k = key[s]
        BY <3>3, <3>4, Zenon
      <4>2. /\ \A i \in DOMAIN q : q[i] < k
            /\ \A i, j \in DOMAIN q : i < j => q[i] < q[j]
        BY <3>1, <4>1, Zenon DEF Reached
      <4>3. out'[t] = Append(q, k)
        BY <2>1, <4>1, Zenon
      <4>4. /\ \A i \in DOMAIN Append(q, k) : Append(q, k)[i] < k + 1
            /\ \A i, j \in DOMAIN Append(q, k) : i < j => Append(q, k)[i] < Append(q, k)[j]
            /\ \E i \in DOMAIN Append(q, k) : Append(q, k)[i] = k
            /\ \A i \in DOMAIN q : i \in DOMAIN Append(q, k) /\ Append(q, k)[i] = q[i]
        BY <4>2, AppendAbove, Zenon
      <4> QED
        BY <4>1, <4>3, <4>4, Zenon
    <3>6. \A k \in seen[t] : k < key[s] + 1 => k < key[s] \/ k = key[s]
      BY <1>8, <3>3
    <3>7. \A k \in Yielded(t) : k \in Yielded(t)'
      BY <3>5, Zenon DEF Yielded
    <3>8. key[s] \in Yielded(t)'
      BY <3>5, Zenon DEF Yielded
    <3>9. \A k \in seen[t] : k < key[s] + 1 => k \in Yielded(t)'
      BY <3>1, <3>6, <3>7, <3>8, Zenon DEF Reached
    <3>10. Reached(t, key[succs[t][0]] + 1)'
      BY <2>1, <3>5, <3>9, Zenon DEF Reached
    <3> QED
      BY <1>2, <1>6, <2>1, <3>5, <3>10, Zenon DEF Walk
  <2> QED
    BY <1>2, <1>3, <2>1, <2>2, <2>3, Zenon DEF Hit, Walk
<1>15. CASE Advance(t)
  <2> DEFINE n == next[s][0]
  <2>1. /\ pc[t] = "advance" /\ pc'[t] = (IF n = Nil THEN "idle" ELSE "yield")
        /\ succs'[t][0] = n /\ out' = out /\ seen' = seen /\ key' = key
    BY <1>1, <1>15, Zenon DEF Advance, ListTypes, listVars
  <2>2. op[t].kind # "get"
    BY <1>1, <2>1, Zenon DEF Answer
  <2>3. ASSUME op[t].kind = "scan" PROVE Walk(t)'
    <3>1. /\ Reached(t, key[s] + 1) /\ \A i, j \in DOMAIN out[t] : i < j => out[t][i] < out[t][j]
      BY <1>1, <2>1, <2>3, Zenon DEF Walk
    <3>2. s \in Nodes /\ Linked(s, 0) /\ key[s] \in Nat
      BY <1>7, <2>1, Zenon DEF ListInv, Search
    <3>3. n # Nil => n \in Nodes /\ key[s] < key[n] /\ key[n] \in Nat
      BY <1>7, <3>2, Zenon DEF ListInv, List, Ascending
    <3>4. ASSUME NEW k \in seen[t], ~(k < key[s] + 1) PROVE n # Nil /\ key[n] <= k
      <4>1. PICK m \in Present : key[m] = k
        BY <1>5, <2>3, Zenon
      <4>2. key[s] < key[m]
        BY <1>8, <3>2, <3>4, <4>1
      <4> QED
        BY <3>2, <4>1, <4>2, NoneBetween, Zenon
    <3>5. out[t] \in Seq(Int)
      BY <1>1, Zenon DEF CallTypes
    <3>6. \A i \in DOMAIN out[t] : out[t][i] \in Int
      BY <3>5, SMTT(30)
    <3>7. ASSUME n # Nil PROVE \A i \in DOMAIN out[t] : out[t][i] < key[n]
      <4> SUFFICES ASSUME NEW i \in DOMAIN out[t] PROVE out[t][i] < key[n]
        BY Zenon
      <4>1. PICK a \in Int, b \in Nat, c \in Nat : a = out[t][i] /\ b = key[s] /\ c = key[n]
        BY <3>2, <3>3, <3>6, <3>7, Zenon
      <4>2. a < b + 1 /\ b < c
        BY <3>1, <3>3, <3>7, <4>1, Zenon DEF Reached
      <4>3. a < c
        BY <4>2
      <4> QED
        BY <4>1, <4>3, Zenon
    <3>8. ASSUME n # Nil, NEW k \in seen[t], k < key[n] PROVE k < key[s] + 1
      BY <1>8, <3>3, <3>4, <3>8
    <3>9. Yielded(t)' = Yielded(t)
      BY <2>1, Zenon DEF Yielded
    <3>10. pc'[t] = "yield" => Reached(t, key[succs[t][0]])'
      BY <2>1, <3>1, <3>7, <3>8, <3>9, Zenon DEF Reached
    <3>11. pc'[t] = "idle" => seen'[t] \subseteq Yielded(t)'
      BY <2>1, <3>1, <3>4, <3>9, Zenon DEF Reached
    <3>12. pc'[t] \in {"idle", "yield"}
      BY <2>1, Zenon
    <3> QED
      BY <1>2, <1>6, <2>1, <3>1, <3>10, <3>11, <3>12, Zenon DEF Walk
  <2> QED
    BY <1>2, <1>3, <2>1, <2>2, <2>3, Zenon DEF Hit, Walk
<1> QED
  BY <1>10, <1>11, <1>12, <1>13, <1>14, <1>15, Zenon DEF Step

(* Values and their sizes are numbers.                                     *)
LEMMA Numbers ==
  /\ \A c \in Cells : c \in Int /\ Size(c) \in Nat
  /\ Miss \in Int /\ EntryBytes \in Nat
  /\ \A i \in Int : i % SizeModulus \in 0 .. SizeModulus - 1
BY ListAssumption DEF Cells, Tomb, Miss, Size

(* What the list holds for a key is a number.                              *)
LEMMA CurrentTyped ==
  ASSUME ListTypes, NEW k
  PROVE  Current(k) \in Int
<1>1. \A n \in Present : value[n] \in Int
  BY Numbers, Zenon DEF ListTypes, Present
<1>2. (\E n \in Present : key[n] = k) => (CHOOSE n \in Present : key[n] = k) \in Present
  BY Zenon
<1> QED
  BY <1>1, <1>2, Numbers, Zenon DEF Current

(* The totals, and what calls return, keep their types.                    *)
LEMMA TypesStep ==
  ASSUME ListInv, CallInv, [Next]_vars
  PROVE  CallTypes'
<1> USE Numbers
<1>0. CallTypes
  BY Zenon DEF CallInv
<1> USE <1>0
<1>1. CASE UNCHANGED vars
  BY <1>1, Zenon DEF vars, sumVars, CallTypes
<1>2. ASSUME NEW t \in Threads, NEW o \in Calls, Call(t, o) PROVE CallTypes'
  <2>1. calls' \in 0 .. MaxCalls
    <3>1. calls < MaxCalls /\ calls' = calls + 1
      BY <1>2, Zenon DEF Call
    <3>2. calls \in 0 .. MaxCalls
      BY Zenon DEF CallTypes
    <3> QED
      BY <3>1, <3>2, ListAssumption
  <2>2. out' \in [Threads -> Seq(Int)]
    <3>1. <<>> \in Seq(Int)
      OBVIOUS
    <3> QED
      BY <1>2, <3>1, Zenon DEF Call, CallTypes
  <2>3. seen' \in [Threads -> SUBSET Int]
    <3>1. Current(o.key) \in Int
      BY CurrentTyped, Zenon DEF ListInv
    <3>2. \A n \in Present : key[n] \in Int
      BY DEF ListInv, ListTypes, Present
    <3>3. {key[n] : n \in {m \in Present : key[m] >= o.key}} \subseteq Int
      BY <3>2, Zenon
    <3>4. (CASE o.kind = "get" -> {Current(o.key)}
             [] o.kind = "scan" -> {key[n] : n \in {m \in Present : key[m] >= o.key}}
             [] OTHER -> {}) \in SUBSET Int
      BY <3>1, <3>3, Zenon
    <3> QED
      BY <1>2, <3>4, Zenon DEF Call, CallTypes
  <2>4. raced' \in BOOLEAN
    BY <1>2, Zenon DEF Call
  <2> QED
    BY <1>2, <2>1, <2>2, <2>3, <2>4, Zenon DEF Call, CallTypes, sumVars
<1>3. ASSUME NEW t \in Threads, Step(t) PROVE CallTypes'
  <2>1. op[t].kind = "insert" => op[t].val \in Cells
    BY <1>3, CallFields, Zenon DEF Step, FindForward, FindDown, FindEnds, Update, Store,
       LinkFails, Raise, RaiseFails, Link, Charge, Count, adjustValueBytes, get,
       updateCache, Advance, ListInv, ListTypes
  <2>2. ASSUME op[t].val \in Cells PROVE Seen(op[t].key, op[t].val) \in [Threads -> SUBSET Int]
    BY <2>2, Zenon DEF Seen, CallTypes
  <2>3. pc[t] \in {"update", "store", "load", "yield"} => succs[t][0] \in Nodes
    BY Zenon DEF ListInv, Search
  <2>4. pc[t] \in {"store", "link"} => op[t].kind = "insert"
    BY Zenon DEF ListInv, Search, Holding
  <2>5. CASE FindEnds(t)
    <3>1. <<Miss>> \in Seq(Int)
      OBVIOUS
    <3> QED
      BY <2>5, <3>1, Zenon DEF FindEnds, CallTypes, sumVars
  <2>6. CASE \/ FindForward(t) \/ FindDown(t) \/ Advance(t)
             \/ LinkFails(t) \/ Raise(t) \/ RaiseFails(t)
    BY <2>6, Zenon DEF FindForward, FindDown, LinkFails, Raise, RaiseFails, FindAgain,
       Advance, CallTypes, sumVars
  <2>7. CASE Update(t)
    <3>1. Size(value[succs[t][0]]) \in Nat
      BY <2>3, <2>7, Zenon DEF Update, ListInv, ListTypes
    <3> QED
      BY <2>7, <3>1, Zenon DEF Update, CallTypes, sumVars
  <2>8. CASE Store(t) \/ \E h \in 1 .. MAX_HEIGHT : Link(t, h)
    <3>1. seen' \in [Threads -> SUBSET Int]
      BY <2>1, <2>2, <2>4, <2>8, Zenon DEF Store, Link
    <3> QED
      BY <2>8, <3>1, Zenon DEF Store, Link, CallTypes, sumVars
  <2>9. CASE Charge(t) \/ adjustValueBytes(t)
    <3>1. op[t].val \in Cells
      <4>1. op[t] \in Calls /\ op[t].kind # "get" /\ op[t].kind # "scan"
        BY <2>9, Zenon DEF Charge, adjustValueBytes, ListInv, ListTypes, CallInv,
           Answer, Walk
      <4> QED
        BY <2>1, <4>1, CallFields, Zenon
    <3>2. bytes' \in 0 .. SizeModulus - 1
      <4>1. bytes \in Int /\ replaced[t] \in Int /\ Size(op[t].val) \in Int
        <5>1. bytes \in 0 .. SizeModulus - 1 /\ replaced[t] \in Nat /\ Size(op[t].val) \in Nat
          BY <3>1, Zenon DEF CallTypes
        <5>2. SizeModulus \in Nat
          BY ListAssumption, Zenon
        <5> QED
          BY <5>1, <5>2
      <4>2. /\ bytes + EntryBytes + Size(op[t].val) \in Int
            /\ bytes + Size(op[t].val) - replaced[t] \in Int
        BY <4>1
      <4> QED
        BY <2>9, <4>2, Zenon DEF Charge, adjustValueBytes
    <3> QED
      BY <2>9, <3>2, Zenon DEF Charge, adjustValueBytes, CallTypes
  <2>10. CASE Count(t)
    <3>1. \A i \in Nat : i + 1 \in Nat
      OBVIOUS
    <3> QED
      BY <2>10, <3>1, Zenon DEF Count, CallTypes
  <2>11. CASE get(t)
    <3>1. value[succs[t][0]] \in Int
      BY <2>3, <2>11, Zenon DEF get, ListInv, ListTypes
    <3>2. <<value[succs[t][0]]>> \in Seq(Int)
      BY <3>1
    <3> QED
      BY <2>11, <3>2, Zenon DEF get, CallTypes, sumVars
  <2>12. CASE updateCache(t)
    <3>1. key[succs[t][0]] \in Int /\ out[t] \in Seq(Int)
      <4>1. key[succs[t][0]] \in Nat /\ out[t] \in Seq(Int)
        BY <2>3, <2>12, Zenon DEF updateCache, ListInv, ListTypes, CallTypes
      <4> QED
        BY <4>1, SMTT(30)
    <3>2. Append(out[t], key[succs[t][0]]) \in Seq(Int)
      BY <3>1
    <3> QED
      BY <2>12, <3>2, Zenon DEF updateCache, CallTypes, sumVars
  <2> QED
    BY <1>3, <2>5, <2>6, <2>7, <2>8, <2>9, <2>10, <2>11, <2>12, Zenon DEF Step
<1> QED
  BY <1>1, <1>2, <1>3, Zenon DEF Next

(* The empty list: no call has begun.                                      *)
LEMMA InitCalls == Init => CallInv
<1> SUFFICES ASSUME Init PROVE CallInv
  BY Zenon
<1>1. CallTypes
  <2>1. 0 \in 0 .. SizeModulus - 1 /\ 0 \in Nat /\ 0 \in 0 .. MaxCalls /\ <<>> \in Seq(Int)
    BY ListAssumption
  <2> QED
    BY <2>1, Zenon DEF Init, CallTypes
<1>2. \A t \in Threads : pc[t] = "idle" /\ op[t].kind = "none"
  BY Zenon DEF Init
<1> QED
  BY <1>1, <1>2, Zenon DEF CallInv, Hit, Answer, Walk

(* Every step keeps what is known of the calls.                            *)
LEMMA NextCalls == ListInv /\ ListInv' /\ CallInv /\ [Next]_vars => CallInv'
<1> SUFFICES ASSUME ListInv, ListInv', CallInv, [Next]_vars PROVE CallInv'
  BY Zenon
<1>1. CallTypes'
  BY TypesStep, Zenon
<1> SUFFICES ASSUME NEW u \in Threads PROVE Hit(u)' /\ Answer(u)' /\ Walk(u)'
  BY <1>1, Zenon DEF CallInv
<1>2. CASE UNCHANGED vars
  <2>1. \A k : Current(k)' = Current(k)
    BY <1>2, Zenon DEF Current, Present, Linked, vars, listVars
  <2>2. Same(u) /\ out'[u] = out[u] /\ seen'[u] = seen[u]
    BY <1>2, Zenon DEF Same, vars, findVars
  <2> QED
    BY <2>1, <2>2, Waits, Zenon DEF CallInv
<1>3. ASSUME NEW t \in Threads, NEW o \in Calls, Call(t, o)
      PROVE  Hit(u)' /\ Answer(u)' /\ Walk(u)'
  BY <1>3, CallBegins, Zenon
<1>4. ASSUME NEW t \in Threads, Step(t) PROVE Hit(u)' /\ Answer(u)' /\ Walk(u)'
  <2>1. CASE u = t
    BY <1>4, <2>1, Moves, Zenon
  <2>2. CASE u # t
    <3>1. CallTypes /\ Hit(t) /\ Hit(u) /\ Answer(u) /\ Walk(u)
      BY Zenon DEF CallInv
    <3>2. Same(u) /\ out'[u] = out[u]
      BY <1>4, <2>2, <3>1, Apart, Zenon
    <3>3. /\ seen[u] \subseteq seen'[u]
          /\ seen'[u] = seen[u] \/ (pc[u] # "idle" /\ op[u].kind = "get")
          /\ \A k : /\ pc[u] # "idle" /\ op[u].kind = "get" /\ op[u].key = k
                    /\ Current(k) \in seen[u]
                    => Current(k)' \in seen'[u]
      BY <1>4, <3>1, SeenStep, Zenon
    <3> QED
      BY <3>1, <3>2, <3>3, Waits, Zenon
  <2> QED
    BY <2>1, <2>2, Zenon
<1> QED
  BY <1>2, <1>3, <1>4, Zenon DEF Next

(* So the calls keep their invariant throughout.                           *)
LEMMA CallsInvariance == Spec => []CallInv
BY InitCalls, NextCalls, Invariance, PTL DEF Spec

(* Every variable keeps its type, the totals and the results of calls      *)
(* included.                                                               *)
THEOREM EverythingTyped == Spec => []TypeOK
<1>1. ListInv /\ CallInv => TypeOK
  BY Zenon DEF ListInv, CallInv, CallTypes, TypeOK
<1> QED BY <1>1, Invariance, CallsInvariance, PTL

(* get() returns a value the key held at some moment of the call, however  *)
(* inserts and overwrites of the key race with it.                         *)
THEOREM LinearizableGets == Spec => []GetsLinearize
<1>1. CallInv => GetsLinearize
  BY Zenon DEF CallInv, Answer, GetsLinearize
<1> QED BY <1>1, CallsInvariance, PTL

(* An iterator yields keys in ascending order and, when it ends, has       *)
(* yielded every key that was in its range when it was made.               *)
THEOREM CompleteIterators == Spec => []IteratorComplete
<1>1. CallInv => IteratorComplete
  BY Zenon DEF CallInv, Walk, Yielded, IteratorComplete
<1> QED BY <1>1, CallsInvariance, PTL

-----------------------------------------------------------------------------
(* The count.  A thread that has linked a node owes it a count until it    *)
(* has counted it.                                                         *)

CountInv == CountExact /\ \A t \in Threads : pc[t] \in {"charge", "count"} => node[t] # Nil

(* The library's facts about finite sets, kept out of the proofs above.    *)
Fin == INSTANCE FiniteSetTheorems

(* They are about the same finiteness and the same cardinality.            *)
LEMMA SameSizes ==
  ASSUME NEW S
  PROVE  (Fin!IsFiniteSet(S) <=> IsFiniteSet(S)) /\ Fin!Cardinality(S) = Cardinality(S)
<1>1. Fin!IsFiniteSet(S) <=> IsFiniteSet(S)
  BY Zenon DEF Fin!IsFiniteSet, IsFiniteSet
<1>2. Fin!Cardinality(S) = Cardinality(S)
  BY Zenon DEF Fin!Cardinality, Cardinality
<1> QED
  BY <1>1, <1>2, Zenon

(* Sizes are numbers, and subsets of a finite set are finite.              *)
LEMMA SizeOfPart ==
  ASSUME NEW S, IsFiniteSet(S), NEW T \in SUBSET S
  PROVE  IsFiniteSet(T) /\ Cardinality(T) \in Nat
<1>1. Fin!IsFiniteSet(T)
  BY SameSizes, Fin!FS_Subset, Zenon
<1>2. Fin!Cardinality(T) \in Nat
  BY <1>1, Fin!FS_CardinalityType, Zenon
<1> QED
  BY <1>1, <1>2, SameSizes, Zenon

(* One element more.                                                       *)
LEMMA OneMore ==
  ASSUME NEW S, NEW e, IsFiniteSet(S), e \notin S
  PROVE  Cardinality(S \cup {e}) = Cardinality(S) + 1
<1>1. Fin!Cardinality(S \cup {e}) = Fin!Cardinality(S) + 1
  BY SameSizes, Fin!FS_AddElement, Zenon
<1> QED
  BY <1>1, SameSizes, Zenon

(* One element fewer.                                                      *)
LEMMA OneFewer ==
  ASSUME NEW S, NEW e, IsFiniteSet(S), e \in S
  PROVE  Cardinality(S \ {e}) = Cardinality(S) - 1
<1>1. Fin!Cardinality(S \ {e}) = Fin!Cardinality(S) - 1
  BY SameSizes, Fin!FS_RemoveElement, Zenon
<1> QED
  BY <1>1, SameSizes, Zenon

(* The list and the threads are finite.                                    *)
LEMMA Finite ==
  /\ IsFiniteSet(Present) /\ Cardinality(Present) \in Nat
  /\ IsFiniteSet(Counting) /\ Cardinality(Counting) \in Nat
<1>1. Present \subseteq Nodes /\ Counting \subseteq Threads
  BY Zenon DEF Present, Counting
<1>2. Present \in SUBSET Nodes /\ Counting \in SUBSET Threads
  BY <1>1, Zenon
<1> QED
  BY <1>2, ListAssumption, SizeOfPart, Zenon

(* A step that neither links nor counts.                                   *)
LEMMA CountKept ==
  ASSUME ListInv, CountInv, NEW t \in Threads,
         count' = count, Present' = Present,
         \A u \in Threads \ {t} : pc'[u] = pc[u] /\ node'[u] = node[u],
         t \in Counting' <=> t \in Counting,
         pc'[t] \in {"charge", "count"} => node'[t] # Nil
  PROVE  CountInv'
<1>1. Counting' = Counting
  <2>1. \A u \in Threads \ {t} : u \in Counting' <=> u \in Counting
    BY Zenon DEF Counting
  <2>2. \A u : (u \in Counting => u \in Threads) /\ (u \in Counting' => u \in Threads)
    BY Zenon DEF Counting
  <2>3. ASSUME NEW u PROVE u \in Counting' <=> u \in Counting
    BY <2>1, <2>2, Zenon
  <2> QED
    BY <2>3, Zenon
<1> QED
  BY <1>1, Zenon DEF CountInv, CountExact

(* Linking a node adds one to the list and one to what is owed.            *)
LEMMA CountLink ==
  ASSUME ListInv, CallTypes, CountInv, NEW t \in Threads, NEW h \in 1 .. MAX_HEIGHT, Link(t, h)
  PROVE  CountInv'
<1> USE Constants
<1> DEFINE n == newNode
<1>1. /\ n \in Nodes /\ links[n] = 0 /\ links' = [links EXCEPT ![n] = 1]
      /\ pc[t] = "link" /\ node'[t] = n /\ pc'[t] \in {"charge", "raise"} /\ count' = count
      /\ \A u \in Threads \ {t} : pc'[u] = pc[u] /\ node'[u] = node[u]
  BY ZenonT(30) DEF Link, newNode, ListInv, ListTypes, sumVars
<1> HIDE DEF n
<1>2. Present' = Present \cup {n} /\ n \notin Present
  BY <1>1 DEF Present, Linked, ListInv, ListTypes
<1>3. t \notin Counting /\ t \in Counting'
  BY <1>1, Zenon DEF Counting, Node0
<1>4. Counting' = Counting \cup {t}
  <2>1. ASSUME NEW u PROVE u \in Counting' <=> u \in Counting \cup {t}
    BY <1>1, <1>3, Zenon DEF Counting
  <2> QED
    BY <2>1, Zenon
<1>5. /\ Cardinality(Present') = Cardinality(Present) + 1
      /\ Cardinality(Counting') = Cardinality(Counting) + 1
  BY <1>2, <1>3, <1>4, Finite, OneMore, ZenonT(30)
<1>6. CountExact'
  <2>1. count + Cardinality(Counting) = Cardinality(Present)
    BY Zenon DEF CountInv, CountExact
  <2>2. count \in Int
    BY DEF CallTypes
  <2> QED
    BY <1>1, <1>5, <2>1, <2>2, Finite, SMTT(30) DEF CountExact
<1>7. \A u \in Threads : pc'[u] \in {"charge", "count"} => node'[u] # Nil
  BY <1>1, Zenon DEF CountInv, Node0
<1> QED
  BY <1>6, <1>7, Zenon DEF CountInv

(* Counting takes one from what is owed.                                   *)
LEMMA CountCounts ==
  ASSUME ListInv, CountInv, CallTypes, NEW t \in Threads, Count(t)
  PROVE  CountInv'
<1>1. /\ pc[t] = "count" /\ pc'[t] = "idle" /\ count' = count + 1 /\ node' = node
      /\ UNCHANGED links
      /\ \A u \in Threads \ {t} : pc'[u] = pc[u]
  BY Zenon DEF Count, ListInv, ListTypes, listVars
<1>2. Present' = Present
  BY <1>1, Zenon DEF Present, Linked
<1>3. t \in Counting /\ t \notin Counting'
  BY <1>1, Zenon DEF Counting, CountInv
<1>4. Counting' = Counting \ {t}
  <2>1. ASSUME NEW u PROVE u \in Counting' <=> u \in Counting \ {t}
    BY <1>1, <1>3, Zenon DEF Counting
  <2> QED
    BY <2>1, Zenon
<1>5. Cardinality(Counting') = Cardinality(Counting) - 1
  BY <1>3, <1>4, Finite, OneFewer, ZenonT(30)
<1>6. CountExact'
  <2>1. count + Cardinality(Counting) = Cardinality(Present) /\ count \in Nat
    BY Zenon DEF CountInv, CountExact, CallTypes
  <2> QED
    BY <1>1, <1>2, <1>5, <2>1, Finite, SMTT(30) DEF CountExact
<1>7. \A u \in Threads : pc'[u] \in {"charge", "count"} => node'[u] # Nil
  BY <1>1, Zenon DEF CountInv
<1> QED
  BY <1>6, <1>7, Zenon DEF CountInv

(* Every step keeps the count.                                             *)
LEMMA NextCount == ListInv /\ CallInv /\ CountInv /\ [Next]_vars => CountInv'
<1> USE Constants
<1> SUFFICES ASSUME ListInv, CallInv, CountInv, [Next]_vars PROVE CountInv'
  BY Zenon
<1>0. CallTypes /\ ListTypes
  BY Zenon DEF CallInv, ListInv
<1>1. CASE UNCHANGED vars
  BY <1>1, Zenon DEF CountInv, CountExact, Counting, Present, Linked, vars, listVars,
     sumVars
<1>2. ASSUME NEW t \in Threads, NEW o \in Calls, Call(t, o) PROVE CountInv'
  <2>1. /\ pc[t] = "idle" /\ pc'[t] = "find" /\ node'[t] = Nil /\ count' = count /\ links' = links
        /\ \A u \in Threads \ {t} : pc'[u] = pc[u] /\ node'[u] = node[u]
    BY <1>0, <1>2, Zenon DEF Call, ListTypes, listVars, sumVars
  <2>2. Present' = Present
    BY <2>1, Zenon DEF Present, Linked
  <2>3. t \notin Counting /\ t \notin Counting'
    BY <2>1, Zenon DEF Counting
  <2> QED
    BY <2>1, <2>2, <2>3, CountKept, Zenon
<1>3. ASSUME NEW t \in Threads, Step(t) PROVE CountInv'
  <2>1. \A u \in Threads \ {t} : pc'[u] = pc[u] /\ node'[u] = node[u]
    BY <1>0, <1>3, Apart, Zenon DEF Same
  <2>2. ASSUME UNCHANGED <<count, links, node>>, t \in Counting' <=> t \in Counting,
               pc'[t] \in {"charge", "count"} => node[t] # Nil
        PROVE  CountInv'
    <3>1. Present' = Present
      BY <2>2, Zenon DEF Present, Linked
    <3> QED
      BY <2>1, <2>2, <3>1, CountKept, Zenon
  <2>3. CASE FindForward(t) \/ FindDown(t)
    <3>1. UNCHANGED <<count, links, node, pc>>
      BY <2>3, Zenon DEF FindForward, FindDown, listVars, sumVars
    <3> QED
      BY <2>2, <3>1, Zenon DEF Counting, CountInv
  <2>4. CASE FindEnds(t)
    <3>1. /\ UNCHANGED <<count, links, node>> /\ pc[t] = "find"
          /\ pc'[t] = AfterFind(t, Ahead(t))
      BY <1>0, <2>4, Zenon DEF FindEnds, ListTypes, listVars, sumVars
    <3>2. op[t].kind \in {"insert", "get", "scan"}
      BY <1>0, <3>1, CallFields, Zenon DEF ListTypes
    <3>3. node[t] # Nil => op[t].kind = "insert"
      BY <3>1, Zenon DEF ListInv, Owners, Owner, HalfLinked
    <3>4. /\ node[t] # Nil => pc'[t] = "raise"
          /\ pc'[t] \in {"raise", "update", "link", "load", "idle", "yield"}
      BY <3>1, <3>2, <3>3, Zenon DEF AfterFind
    <3> QED
      BY <2>2, <3>1, <3>4, Zenon DEF Counting
  <2>5. CASE LinkFails(t)
    <3>1. pc[t] = "link" /\ pc'[t] = "find" /\ UNCHANGED <<count, links, node>>
      BY <1>0, <2>5, Zenon DEF LinkFails, FindAgain, ListTypes, listVars, sumVars
    <3>2. node[t] = Nil
      BY <3>1, Zenon DEF ListInv, Search
    <3> QED
      BY <2>2, <3>1, <3>2, Zenon DEF Counting
  <2>6. CASE RaiseFails(t)
    <3>1. pc[t] = "raise" /\ pc'[t] = "find" /\ UNCHANGED <<count, links, node>>
      BY <1>0, <2>6, Zenon DEF RaiseFails, FindAgain, ListTypes, listVars, sumVars
    <3> QED
      BY <2>2, <3>1, Zenon DEF Counting
  <2>7. CASE Raise(t)
    <3>1. Present' = Present /\ node[t] \in Nodes
      BY <2>7, RaiseKeeps, Zenon
    <3>2. pc[t] = "raise" /\ pc'[t] \in {"charge", "raise"} /\ UNCHANGED <<count, node>>
      BY <1>0, <2>7, Zenon DEF Raise, ListTypes, sumVars
    <3>3. node[t] # Nil
      BY <3>1, Zenon DEF Node0
    <3> QED
      BY <2>1, <3>1, <3>2, <3>3, CountKept, Zenon DEF Counting
  <2>8. ASSUME NEW h \in 1 .. MAX_HEIGHT, Link(t, h) PROVE CountInv'
    BY <1>0, <2>8, CountLink, Zenon
  <2>9. CASE Count(t)
    BY <1>0, <2>9, CountCounts, Zenon
  <2>10. CASE Charge(t)
    <3>1. pc[t] = "charge" /\ pc'[t] = "count" /\ UNCHANGED <<count, links, node>>
      BY <1>0, <2>10, Zenon DEF Charge, ListTypes, listVars
    <3> QED
      BY <2>2, <3>1, Zenon DEF Counting, CountInv
  <2>11. CASE Update(t) \/ Store(t) \/ adjustValueBytes(t) \/ get(t) \/ updateCache(t) \/ Advance(t)
    <3>1. /\ pc[t] \in {"update", "store", "adjust", "load", "yield", "advance"}
          /\ pc'[t] \in {"store", "adjust", "idle", "advance", "yield"}
      BY <1>0, <2>11, Zenon DEF Update, Store, adjustValueBytes, get, updateCache,
         Advance, ListTypes
    <3>2. UNCHANGED <<count, links, node>>
      BY <2>11, Zenon DEF Update, Store, adjustValueBytes, get, updateCache, Advance,
         listVars, sumVars
    <3> QED
      BY <2>2, <3>1, <3>2, Zenon DEF Counting
  <2> QED
    BY <1>3, <2>3, <2>4, <2>5, <2>6, <2>7, <2>8, <2>9, <2>10, <2>11, Zenon DEF Step
<1> QED
  BY <1>1, <1>2, <1>3, Zenon DEF Next

(* The empty list has nothing to count.                                    *)
LEMMA InitCount == Init => CountInv
<1> SUFFICES ASSUME Init PROVE CountInv
  BY Zenon
<1>1. /\ \A n \in Nodes : links[n] = 0
      /\ \A t \in Threads : pc[t] = "idle" /\ count = 0
  BY Constants, Zenon DEF Init
<1>2. Present = {} /\ Counting = {} /\ count = 0
  BY <1>1 DEF Present, Linked, Counting, Init
<1>3. Cardinality({}) = 0
  BY Fin!FS_EmptySet, SameSizes, Zenon
<1> QED
  BY <1>1, <1>2, <1>3 DEF CountInv, CountExact

(* size() is the number of nodes in the list less those whose insert has   *)
(* linked them and not counted them yet: no insert is counted twice or     *)
(* lost, whichever CAS it had to repeat.                                   *)
THEOREM ExactCount == Spec => []CountExact
<1>1. CountInv => CountExact
  BY Zenon DEF CountInv
<1> QED BY <1>1, InitCount, NextCount, Invariance, CallsInvariance, PTL DEF Spec

=============================================================================
