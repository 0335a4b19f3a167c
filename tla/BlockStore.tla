----------------------------- MODULE BlockStore -----------------------------
(***************************************************************************)
(* What the buffer cache of src/kernel/fs.c promises its callers: a disk   *)
(* of blocks, each of which one thread at a time may take, see with the    *)
(* value last written to it, overwrite, and give back.  There are no       *)
(* buffers here, no device, and no limit on how many blocks are in use.    *)
(***************************************************************************)
CONSTANTS Thread, NoThread, Block, NoBlock, Value, NoValue

VARIABLES
  store,   \* the value last written to each block
  owner,   \* the thread that has a block between bread and brelease
  seen     \* what b->data shows that thread

vars == <<store, owner, seen>>

Init ==
  /\ store \in [Block -> Value]
  /\ owner = [k \in Block |-> NoThread]
  /\ seen = [t \in Thread |-> NoValue]

\* bread returns.
Take(t, k) ==
  /\ owner[k] = NoThread
  /\ \A j \in Block : owner[j] # t
  /\ owner' = [owner EXCEPT ![k] = t]
  /\ seen' = [seen EXCEPT ![t] = store[k]]
  /\ UNCHANGED store

\* The caller changes b->data.
Put(t, k, v) ==
  /\ owner[k] = t
  /\ store' = [store EXCEPT ![k] = v]
  /\ seen' = [seen EXCEPT ![t] = v]
  /\ UNCHANGED owner

\* brelease gives the block up.
Give(t, k) ==
  /\ owner[k] = t
  /\ owner' = [owner EXCEPT ![k] = NoThread]
  /\ seen' = [seen EXCEPT ![t] = NoValue]
  /\ UNCHANGED store

Next == \E t \in Thread, k \in Block :
          Take(t, k) \/ Give(t, k) \/ \E v \in Value : Put(t, k, v)

Spec == Init /\ [][Next]_vars
=============================================================================
