------------------------------- MODULE CondVar -------------------------------
(***************************************************************************)
(* std::condition_variable as the queues use it.  A condition variable is  *)
(* the set of the threads asleep on it.  Each operator gives the sets that *)
(* can be left behind: notify_one wakes any one sleeper and is lost when   *)
(* there is none, notify_all wakes them all, and a sleeper may wake by     *)
(* itself (a spurious wakeup, which wait(lock, predicate) tolerates by     *)
(* testing the predicate again).                                           *)
(***************************************************************************)

NotifyOne(cv) == IF cv = {} THEN {cv} ELSE {cv \ {t} : t \in cv}

NotifyAll(cv) == {{}}

Spurious(cv) == {cv \ {t} : t \in cv}
=============================================================================
