---------------------------- MODULE MCThreadPool ----------------------------
(***************************************************************************)
(* A pool of two workers: the owner enqueues three tasks that return, and a  *)
(* running task enqueues a fourth that never does.                          *)
(***************************************************************************)
EXTENDS ThreadPool

CONSTANTS w1, w2, t1, t2, t3, chat

MCWorkers == {w1, w2}
MCTasks == {t1, t2, t3, chat}
MCNested == {chat}
MCEndless == {chat}
MCImpls == {"cc", "c", "rs"}
=============================================================================
