-------------------------------- MODULE MCVm --------------------------------
(* Memory that runs out while processes fork, execute, grow and exit. *)
EXTENDS Vm
Ends         == {1, 2}
Amounts      == {1}
Lowest(p, S) == Min(S)

\* States that differ in the names of pages only are one state.  While no page
\* has two uses the shape of the tables and the aliases of their roots say all
\* there is; a page with two uses makes the state one of its own.
TableShape(r) ==
  IF r = Nil THEN <<>>
  ELSE <<table[r].root, Len(table[r].low), Len(table[r].high),
         {v \in VPage : table[r].pte[v] # Nil}>>

Shape ==
  <<state, sz, pc, op, kid, a, lo, hi, Cardinality(Free),
    [p \in Proc |->
       <<trapframe[p] # Nil, mem[p] # Nil, TableShape(pagetable[p]),
         TableShape(new[p]),
         {q \in Proc : pagetable[q] = new[p]},
         {q \in Proc : pagetable[q] = pagetable[p]}>>]>>

UpToNames == IF PageExclusive THEN <<Shape>> ELSE vars
=============================================================================
