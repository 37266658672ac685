------------------------------ MODULE MCLaunch ------------------------------
(* A state in which Launch rests while another part of a run moves: the    *)
(* first hook launched the proxy, which serves, the others found it, and   *)
(* all have returned its port.  No step of a hook or a proxy is due there. *)
EXTENDS Launch

LaunchRests ==
    \E port \in {CHOOSE a \in Port : TRUE}, first \in {CHOOSE p \in Launcher \ Past : TRUE} :
       /\ lock = NoLock /\ foreign = {}
       /\ lpc = [p \in Launcher |-> IF p \in Past \cup {first} THEN "released" ELSE "idle"]
       /\ pidLive = [p \in Launcher |-> TRUE]
       /\ rec = [inst |-> first, port |-> port, salt |-> first]
       /\ proxy = [p \in Launcher |->
                     [st |-> IF p = first THEN "serving" ELSE IF p \in Past THEN "gone" ELSE "none",
                      port |-> IF p = first THEN port ELSE NoPort, salt |-> p]]
       /\ hpc = [p \in Launcher |-> "done"]
       /\ seen = [p \in Launcher |-> NoRec]
       /\ salt = [p \in Launcher |-> p]
       /\ outcome = [p \in Launcher |-> IF p \in Past THEN NoPort ELSE port]
=============================================================================
