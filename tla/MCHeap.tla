------------------------------ MODULE MCHeap ------------------------------
EXTENDS Heap
Bound == no_memory => ~Quiet
===========================================================================
