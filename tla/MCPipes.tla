------------------------------- MODULE MCPipes -------------------------------
\* Two tasks of two slots, a pipe and a log pipe.
EXTENDS Pipes, TLC

CONSTANTS a, b, app, module, pipe, log

MCTasks == {a, b}
MCSlots == {app, module}
MCSlotOf == (a :> app) @@ (b :> module)
MCPipeSet == {pipe, log}

\* The log pipe with tasks that read and write it, while no other record is
\* left; or a pipe, when nobody reads the log any more and it is full.
MCInit ==
  \/ Start(<<>>, None, 1)
  \/ Start(<<pipe>>, Finished, BlockSize)

MCSpec == MCInit /\ [][Next]_vars
===============================================================================
