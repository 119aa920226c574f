------------------------------ MODULE MCMutex --------------------------------
(* Values of the constants of Mutex for model checking. *)
EXTENDS Mutex

(* web.c, power.c, led.c: priorities 8, 11 and 12; the IP thread has 2.    *)
MCUser == [t \in Thread |-> CASE t = "ip" -> 2 [] t = "web" -> 8
                              [] t = "power" -> 11 [] OTHER -> 12]

(* power_lock is taken before console_lock; the mutex of the IP instance   *)
(* comes last.                                                             *)
MCRank == [m \in Lock |-> CASE m = "power_lock" -> 1 [] m = "console_lock" -> 2
                              [] OTHER -> 3]
==============================================================================
