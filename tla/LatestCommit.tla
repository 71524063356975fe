---------------------------- MODULE LatestCommit ----------------------------
(* What a Directory promises to whoever opens it: the latest commit.  It      *)
(* changes in one step, from one complete commit to the next; a crash, an     *)
(* unfinished commit or a file deletion never changes it.                     *)
EXTENDS Integers

CONSTANTS MaxGen, MaxVersion, MaxCounter

VARIABLES
    gen,      \* generation of the latest commit; 0: there is none
    version,  \* its version
    counter   \* its segment name counter

Init == gen \in 0..MaxGen /\ version \in 0..MaxVersion /\ counter \in 0..MaxCounter

(* A later commit: the next generation, a larger version, and a name counter  *)
(* that never falls back to names already handed out.                         *)
Publish ==
    /\ gen' = gen + 1
    /\ version' > version
    /\ counter' > counter

Spec == Init /\ [][Publish]_<<gen, version, counter>>
=============================================================================
