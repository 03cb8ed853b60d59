---------------------------- MODULE AtomicStore ----------------------------
(***************************************************************************)
(* What the object store promises its callers: a map from keys to          *)
(* contents.  A put that runs takes effect at one instant with all of its  *)
(* content or not at all; what is stored changes only by a call for its    *)
(* key that is running; a crash ends the running calls and changes nothing *)
(* that is stored.  A content is the set of the numbers of its stripes.    *)
(***************************************************************************)
EXTENDS Integers

CONSTANTS Key, MaxStripes

VARIABLES store, call

vars == <<store, call>>

Content(n) == 0 .. (n - 1)
Absent == {}

(* A call: nothing runs, a put of n stripes, or a delete (n = 0). *)
Idle == [op |-> "idle", n |-> 0]
Call == [op: {"idle", "put", "delete"}, n: 0 .. MaxStripes]

TypeOK ==
  /\ store \in [Key -> {Absent} \cup {Content(n) : n \in 1 .. MaxStripes}]
  /\ call \in [Key -> Call]

Init ==
  /\ store = [k \in Key |-> Absent]
  /\ call = [k \in Key |-> Idle]

Begin(k, c) ==
  /\ call[k] = Idle
  /\ call' = [call EXCEPT ![k] = c]
  /\ UNCHANGED store

BeginPut(k) == store[k] = Absent /\ \E n \in 1 .. MaxStripes :
                 Begin(k, [op |-> "put", n |-> n])
BeginDelete(k) == Begin(k, [op |-> "delete", n |-> 0])

Store(k) ==
  /\ call[k].op = "put"
  /\ store[k] = Absent
  /\ store' = [store EXCEPT ![k] = Content(call[k].n)]
  /\ call' = [call EXCEPT ![k] = Idle]

(* The effect of a delete; the call still has to return. *)
Remove(k) ==
  /\ call[k].op = "delete"
  /\ store' = [store EXCEPT ![k] = Absent]
  /\ UNCHANGED call

RemoveAndReturn(k) ==
  /\ call[k].op = "delete"
  /\ store' = [store EXCEPT ![k] = Absent]
  /\ call' = [call EXCEPT ![k] = Idle]

(* The call returns or fails; what it has not done by now it never does. *)
Return(k) ==
  /\ call[k] # Idle
  /\ call' = [call EXCEPT ![k] = Idle]
  /\ UNCHANGED store

Crash ==
  /\ call' = [k \in Key |-> Idle]
  /\ UNCHANGED store

Next ==
  \/ \E k \in Key : \/ BeginPut(k) \/ BeginDelete(k)
                    \/ Store(k) \/ Remove(k) \/ RemoveAndReturn(k) \/ Return(k)
  \/ Crash

Spec == Init /\ [][Next]_vars
=============================================================================
