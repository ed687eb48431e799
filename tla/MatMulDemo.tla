----------------------------- MODULE MatMulDemo -----------------------------
(***************************************************************************)
(* sw/openamp/mat_mul_demo.c: the user interface thread sends matrices to  *)
(* the remote processor, the compute thread reads the products and prints  *)
(* them, and a mutex that the one locks and the other unlocks is used to   *)
(* start the compute thread.                                               *)
(*                                                                         *)
(* The rpmsg device is taken from RpmsgDevRx with its one reader: a read   *)
(* blocks while the kfifo is empty and then returns what is there, at most *)
(* what was asked for.  A result is ResultWords words of four bytes; the   *)
(* callback rounds it up to FrameWords.  The stream of words is determined *)
(* by its length, so the kfifo is the pair of positions rd and wr.         *)
(***************************************************************************)
EXTENDS Naturals

CONSTANTS
  ResultWords,   \* sizeof(struct _matrix) / 4 = 37
  FrameWords,    \* the same after rounding up to 8 bytes: 38
  KfifoWords,    \* 2048 / 4
  MaxCmds        \* bound: how often the user asks for a product

ASSUME MatMulAssumption ==
  /\ ResultWords \in Nat \ {0} /\ FrameWords \in Nat /\ FrameWords >= ResultWords
  /\ FrameWords < 2 * ResultWords     \* the padding is shorter than a result
  /\ KfifoWords \in Nat /\ MaxCmds \in Nat

VARIABLES
  ui, compute, main,   \* where the threads are
  compute_flag,
  sync_lock,           \* is the mutex locked?
  requests,            \* matrices the remote has not answered yet
  rd, wr,              \* words read from, and put into, the kfifo
  cmds,                \* history: commands so far
  begun,               \* history: rounds the compute thread has begun
  prompt,              \* history: did ComputeReads hold at every write?
  lost,                \* history: did a write fail?
  whole                \* history: was everything it printed one result?

threadVars == <<ui, compute, main>>
matHisVars == <<cmds, begun, prompt, lost, whole>>
matVars == <<threadVars, compute_flag, sync_lock, requests, rd, wr, matHisVars>>

MatMulInit ==
  /\ ui = "menu" /\ compute = "lock" /\ main = "join_ui"
  /\ compute_flag = 0 /\ sync_lock = TRUE
  /\ requests = 0 /\ rd = 0 /\ wr = 0
  /\ cmds = 0 /\ begun = 0 /\ prompt = TRUE /\ lost = FALSE /\ whole = TRUE

-----------------------------------------------------------------------------
(***************************************************************************)
(* ui_thread_entry.                                                        *)
(***************************************************************************)
UiCompute ==
  /\ ui = "menu" /\ cmds < MaxCmds
  /\ cmds' = cmds + 1
  /\ compute_flag' = 1
  /\ ui' = "unlock"
  /\ UNCHANGED <<compute, main, sync_lock, requests, rd, wr, begun, prompt, lost, whole>>

UiUnlock ==
  /\ ui = "unlock"
  /\ sync_lock' = FALSE
  /\ ui' = "write"
  /\ UNCHANGED <<compute, main, compute_flag, requests, rd, wr, matHisVars>>

\* The compute thread waits for data, as the user interface has just said,
\* and no earlier answer is outstanding.
ComputeReads == compute = "read" /\ rd = wr /\ requests = 0

\* Whether write(2) worked is not looked at.
UiWrite ==
  /\ ui = "write"
  /\ \/ requests' = requests + 1 /\ UNCHANGED lost
     \/ lost' = TRUE /\ UNCHANGED requests
  /\ prompt' = (prompt /\ ComputeReads)
  /\ ui' = "menu"
  /\ UNCHANGED <<compute, main, compute_flag, sync_lock, rd, wr, cmds, begun, whole>>

UiQuit ==
  /\ ui = "menu"
  /\ compute_flag' = 0
  /\ ui' = "quit"
  /\ UNCHANGED <<compute, main, sync_lock, requests, rd, wr, matHisVars>>

\* Mutant: quitting does not unlock the mutex.
UiQuitUnlockMut_None ==
  /\ ui = "quit"
  /\ ui' = "done"
  /\ UNCHANGED <<compute, main, compute_flag, sync_lock, requests, rd, wr, matHisVars>>

UiQuitUnlock ==
  /\ ui = "quit"
  /\ sync_lock' = FALSE
  /\ ui' = "done"
  /\ UNCHANGED <<compute, main, compute_flag, requests, rd, wr, matHisVars>>

-----------------------------------------------------------------------------
(***************************************************************************)
(* compute_thread_entry.                                                   *)
(***************************************************************************)

\* Mutant: the compute thread does not take the mutex.
ComputeLockMut_Free ==
  /\ compute = "lock" /\ ~ sync_lock
  /\ compute' = "test"
  /\ UNCHANGED <<ui, main, sync_lock, compute_flag, requests, rd, wr, matHisVars>>

ComputeLock ==
  /\ compute = "lock" /\ ~ sync_lock
  /\ sync_lock' = TRUE
  /\ compute' = "test"
  /\ UNCHANGED <<ui, main, compute_flag, requests, rd, wr, matHisVars>>

ComputeTest ==
  /\ compute = "test"
  /\ IF compute_flag = 1 THEN compute' = "read" /\ begun' = begun + 1
                         ELSE compute' = "done" /\ UNCHANGED begun
  /\ UNCHANGED <<ui, main, compute_flag, sync_lock, requests, rd, wr, cmds, prompt, lost, whole>>

\* A read that came back short is thrown away and begun again.
ComputeShort ==
  /\ compute = "read" /\ rd < wr /\ wr - rd < ResultWords
  /\ rd' = wr
  /\ UNCHANGED <<threadVars, compute_flag, sync_lock, requests, wr, matHisVars>>

\* Mutant: a short read counts as a result.
ComputeReadMut_Short ==
  /\ compute = "read" /\ rd < wr
  /\ rd' = IF wr - rd < ResultWords THEN wr ELSE rd + ResultWords
  /\ whole' = (whole /\ rd % FrameWords = 0)
  /\ compute' = "lock"
  /\ UNCHANGED <<ui, main, compute_flag, sync_lock, requests, wr, cmds, begun, prompt, lost>>

ComputeRead ==
  /\ compute = "read" /\ wr - rd >= ResultWords
  /\ rd' = rd + ResultWords
  /\ whole' = (whole /\ rd % FrameWords = 0)
  /\ compute' = "lock"
  /\ UNCHANGED <<ui, main, compute_flag, sync_lock, requests, wr, cmds, begun, prompt, lost>>

-----------------------------------------------------------------------------
(***************************************************************************)
(* main after it has created the threads, and the remote's answer, which   *)
(* the callback drops when it does not fit.                                *)
(***************************************************************************)
JoinUi ==
  /\ main = "join_ui" /\ ui = "done"
  /\ main' = "join_compute"
  /\ UNCHANGED <<ui, compute, compute_flag, sync_lock, requests, rd, wr, matHisVars>>

JoinCompute ==
  /\ main = "join_compute" /\ compute = "done"
  /\ main' = "end"
  /\ UNCHANGED <<ui, compute, compute_flag, sync_lock, requests, rd, wr, matHisVars>>

MatMulAnswer ==
  /\ requests > 0
  /\ requests' = requests - 1
  /\ wr' = IF wr - rd + FrameWords <= KfifoWords THEN wr + FrameWords ELSE wr
  /\ UNCHANGED <<threadVars, compute_flag, sync_lock, rd, matHisVars>>

Ui == UiUnlock \/ UiWrite \/ UiQuitUnlock
Compute == ComputeLock \/ ComputeTest \/ ComputeShort \/ ComputeRead
MatMulNext == UiCompute \/ UiQuit \/ Ui \/ Compute \/ JoinUi \/ JoinCompute \/ MatMulAnswer

MatMulSpec == MatMulInit /\ [][MatMulNext]_matVars

\* The threads run and the remote answers; the user need not type anything.
MatMulFairness ==
  /\ WF_matVars(Ui) /\ WF_matVars(Compute) /\ WF_matVars(MatMulAnswer)
  /\ WF_matVars(JoinUi) /\ WF_matVars(JoinCompute)
MatMulFairSpec == MatMulSpec /\ MatMulFairness

-----------------------------------------------------------------------------
(***************************************************************************)
(* The compute thread never begins a round that was not asked for: used as *)
(* a semaphore, the mutex lets it through once per command at most.        *)
(***************************************************************************)
RoundsAsked == begun <= cmds

(***************************************************************************)
(* As long as every write finds the compute thread blocked on an empty     *)
(* kfifo with no answer outstanding, whatever it prints is one result of   *)
(* the remote, although every read leaves the padding of its message       *)
(* behind.                                                                 *)
(***************************************************************************)
PromptIsWhole == prompt => whole

(***************************************************************************)
(* Quitting ends the program if no write has failed: whatever round the    *)
(* compute thread is in, it gets out of read and of the mutex, and main    *)
(* joins both threads.                                                     *)
(***************************************************************************)
QuitEnds == ui = "quit" /\ ~ lost ~> main = "end"
-----------------------------------------------------------------------------
(***************************************************************************)
(* The strengthening that makes the invariants inductive.  A command is    *)
(* one permit for the compute thread, which is on its way to the mutex,    *)
(* in it, taken from it or spent; quitting clears the flag, so that the    *)
(* permit it adds starts no round.  And as long as the writes are prompt   *)
(* the kfifo holds nothing, one answer, or the padding of one.             *)
(***************************************************************************)
Permits ==
  begun + (IF ui = "unlock" THEN 1 ELSE 0) + (IF sync_lock THEN 0 ELSE 1)
        + (IF compute = "test" THEN 1 ELSE 0)

PermitInv ==
  IF ui \in {"quit", "done"} THEN compute_flag = 0 /\ begun <= cmds ELSE Permits <= cmds

StreamInv ==
  /\ wr % FrameWords = 0
  /\ prompt =>
       /\ whole
       /\ \/ requests = 0 /\ rd = wr
          \/ requests = 1 /\ rd = wr /\ compute = "read"
          \/ requests = 0 /\ wr = rd + FrameWords /\ compute = "read"
          \/ requests = 0 /\ wr = rd + FrameWords - ResultWords

MatMulInv ==
  /\ ui \in {"menu", "unlock", "write", "quit", "done"}
  /\ compute \in {"lock", "test", "read", "done"}
  /\ sync_lock \in BOOLEAN /\ prompt \in BOOLEAN /\ whole \in BOOLEAN
  /\ requests \in Nat /\ rd \in Nat /\ wr \in Nat /\ rd <= wr
  /\ cmds \in Nat /\ begun \in Nat
  /\ PermitInv /\ StreamInv
=============================================================================
