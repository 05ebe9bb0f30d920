------------------------------ MODULE KVStore ------------------------------
(***************************************************************************)
(* What the engine promises its callers: a dictionary whose contents after *)
(* a crash are bounded, key by key, by what was acknowledged.              *)
(***************************************************************************)
CONSTANTS
  Keys, Values,
  Absent,   \* what get() returns for a key that has no value
  Durable   \* TRUE for WAL::Durability::Durable, FALSE for Async

VARIABLES
  kv,     \* what get() returns for each key
  may,    \* what each key may be found to hold after a crash
  doubt,  \* values of calls on the key that threw, their outcome unknown
  call    \* the put or del in progress: its key and new value, or NoCall

vars == <<kv, may, doubt, call>>

NoCall == <<>>
Calls  == Keys \X (Values \cup {Absent})

Init ==
  /\ kv = [k \in Keys |-> Absent]
  /\ may = [k \in Keys |-> {Absent}]
  /\ doubt = [k \in Keys |-> {}]
  /\ call = NoCall

(* put(k, v), or del(k) with v = Absent: from now on a crash may show it.  *)
Begin(k, v) ==
  /\ call = NoCall
  /\ call' = <<k, v>>
  /\ may' = [may EXCEPT ![k] = @ \cup {v}]
  /\ UNCHANGED <<kv, doubt>>

Effect ==
  /\ call \in Calls
  /\ kv' = [kv EXCEPT ![call[1]] = call[2]]
  /\ UNCHANGED <<may, doubt, call>>

(* A call returns once it has taken effect; in Durable mode no crash can   *)
(* undo it any more.                                                       *)
Return ==
  /\ call \in Calls /\ kv[call[1]] = call[2]
  /\ may' = IF Durable THEN [may EXCEPT ![call[1]] = {call[2]}] ELSE may
  /\ doubt' = [doubt EXCEPT ![call[1]] = {}]
  /\ call' = NoCall
  /\ UNCHANGED kv

(* A call that throws may or may not have taken effect.                    *)
Throw ==
  /\ call \in Calls
  /\ doubt' = [doubt EXCEPT ![call[1]] = @ \cup {call[2]}]
  /\ call' = NoCall
  /\ UNCHANGED <<kv, may>>

(* sync() returns.                                                         *)
Sync ==
  /\ may' = [k \in Keys |-> {kv[k]} \cup doubt[k]]
  /\ UNCHANGED <<kv, doubt, call>>

(* The memtable has been moved to a table: everything shown is durable.    *)
Flush ==
  /\ may' = [k \in Keys |-> {kv[k]}]
  /\ doubt' = [k \in Keys |-> {}]
  /\ UNCHANGED <<kv, call>>

(* The engine is closed and nothing is lost.                               *)
Close ==
  /\ call = NoCall
  /\ kv' \in [Keys -> Values \cup {Absent}]
  /\ \A k \in Keys : kv'[k] \in {kv[k]} \cup doubt[k]
  /\ doubt' = [k \in Keys |-> {}]
  /\ UNCHANGED <<may, call>>

Crash ==
  /\ kv' \in [Keys -> Values \cup {Absent}]
  /\ \A k \in Keys : kv'[k] \in may[k]
  /\ doubt' = [k \in Keys |-> {}]
  /\ call' = NoCall
  /\ UNCHANGED may

Next ==
  \/ \E k \in Keys, v \in Values \cup {Absent} : Begin(k, v)
  \/ Effect \/ Return \/ Throw \/ Sync \/ Flush \/ Close \/ Crash

Spec == Init /\ [][Next]_vars

=============================================================================
