------------------------------ MODULE MCMemory ------------------------------
EXTENDS Memory

CONSTANTS s0, s1, t1, t2, t3, t4, t5, t6

\* Sections of four pages.  0, 1: a slot's; 2: what modules map; 3: the tasks'
\* pool; 4: the tables; 5: the top one, with a pool, a log pipe and the vectors.
MCPools  == <<[va |-> 12, pages |-> 4], [va |-> 20, pages |-> 1]>>
MCShared == {[va |-> 8, pages |-> 1], [va |-> 9, pages |-> 1]}
MCDevices == {[va |-> 0, base |-> 100]}
=============================================================================
