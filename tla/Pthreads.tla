------------------------------ MODULE Pthreads ------------------------------
(***************************************************************************)
(* The POSIX mutexes and condition variables that both multi-threaded      *)
(* programs of the repository use.  A mutex is a variable that holds the   *)
(* owning thread or NoThread; a condition variable is the set of threads   *)
(* blocked on it.  A thread that a signal removes from the set still has   *)
(* to take the mutex again before pthread_cond_wait returns to it.         *)
(***************************************************************************)

CONSTANT NoThread  \* owner of a mutex nobody holds

\* pthread_mutex_lock(m) by thread t: blocks while the mutex is owned.
Lock(m, t) == m = NoThread /\ m' = t

\* pthread_mutex_unlock(m)
Unlock(m) == m' = NoThread

\* pthread_cond_signal on a condition whose waiters are W: the sets of waiters
\* it can leave, one waiter fewer, or the empty set when nobody waits.
Signal(W) == IF W = {} THEN {W} ELSE { W \ {t} : t \in W }

\* pthread_cond_broadcast: nobody is left waiting.
Broadcast(W) == W \ W
=============================================================================
