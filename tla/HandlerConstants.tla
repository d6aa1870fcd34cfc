-------------------------- MODULE HandlerConstants --------------------------
(* What HandlerPool and those who use it know of the pool.                 *)
EXTENDS Integers

CONSTANTS
  MAX_CMD_HANDLER_NUM, \* handlers of the pool
  None                 \* no handler

ASSUME HandlerPoolAssumption ==
  /\ MAX_CMD_HANDLER_NUM \in Nat \ {0}
  /\ None \notin 0 .. MAX_CMD_HANDLER_NUM - 1
=============================================================================
