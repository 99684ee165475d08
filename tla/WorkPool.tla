------------------------------ MODULE WorkPool ------------------------------
(***************************************************************************)
(* What the server promises about the work it distributes, without         *)
(* connections, threads or queues: every chunk of image lines is handed    *)
(* out at most once, comes back at most once, and the work is declared     *)
(* done only when every chunk has come back.  A chunk that is out may stay *)
(* out for ever (its client died): it is never handed out again and the    *)
(* work is then never declared done.                                       *)
(***************************************************************************)
CONSTANT Chunks

VARIABLES todo,     \* the chunks nobody has asked for yet
          out,      \* the chunks handed to a client and not returned
          returned, \* the chunks that came back computed
          done      \* the work has been declared done

poolVars == <<todo, out, returned, done>>

PoolInit ==
  /\ todo = Chunks
  /\ out = {}
  /\ returned = {}
  /\ done = FALSE

HandOut(c) ==
  /\ c \in todo
  /\ todo' = todo \ {c}
  /\ out' = out \cup {c}
  /\ UNCHANGED <<returned, done>>

Return(c) ==
  /\ c \in out
  /\ ~done
  /\ out' = out \ {c}
  /\ returned' = returned \cup {c}
  /\ UNCHANGED <<todo, done>>

Finish ==
  /\ returned = Chunks
  /\ done' = TRUE
  /\ UNCHANGED <<todo, out, returned>>

PoolNext ==
  \/ \E c \in Chunks : HandOut(c) \/ Return(c)
  \/ Finish

PoolSpec == PoolInit /\ [][PoolNext]_poolVars
=============================================================================
