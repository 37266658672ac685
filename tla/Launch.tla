------------------------------- MODULE Launch -------------------------------
(***************************************************************************)
(* Bringing up the one proxy of a project: ensure_up, stop_proxy,          *)
(* launch_proxy and wait_for_live of crates/sordino-hooks/src/main.rs, the *)
(* proxy's own bind, publish, serve and graceful shutdown                  *)
(* (crates/sordino-proxy/src/main.rs and bind.rs), and the rendezvous      *)
(* record through which they meet (crates/sordino-state/src/lib.rs).  The  *)
(* launch lock is that of LaunchLock; this module says when each of its    *)
(* steps is taken.                                                         *)
(*                                                                         *)
(* A launcher is one session-start hook process.  It spawns at most one    *)
(* proxy, which is named after it: the launch nonce and the proxy's pid    *)
(* are represented by the launcher, and so is a salt minted by it.         *)
(***************************************************************************)
EXTENDS LaunchLock

CONSTANTS
    Port,           \* the loopback ports in play
    OldBuild,       \* the launchers (and so their proxies) of a previous build
    Past,           \* the launchers of earlier sessions, whose hooks have returned
    NoRec,          \* no rendezvous file, or one that fails validation
    NoPort,         \* a launcher that has not returned a port
    StaticPort,     \* the pinned [proxy] port, or NoPort when the port is ephemeral
    LaunchFaults    \* which of the faults below may happen

\* "slow":    a probe times out although its target is fine, and the bounded waits run out;
\* "crash":   a proxy is killed, or fails at boot;   "term": someone else stops a proxy;
\* "write":   publishing the record fails;           "spawn": the proxy cannot be spawned;
\* "foreign": an unrelated HTTP server binds a free port.
ASSUME LaunchFaultsAssumption ==
    LaunchFaults \subseteq {"slow", "crash", "term", "write", "spawn", "foreign"}
ASSUME OldBuildAssumption == OldBuild \subseteq Launcher
ASSUME PastAssumption == Past \subseteq Launcher
ASSUME NoPortAssumption == NoPort \notin Port
ASSUME StaticPortAssumption == StaticPort \in Port \cup {NoPort}
ASSUME NoRecAssumption == NoRec \notin [inst : Launcher, port : Port, salt : Launcher]

VARIABLES
    rec,        \* the rendezvous record
    proxy,      \* per launcher, the proxy it spawned: its stage, port and salt
    foreign,    \* the ports held by unrelated servers
    hpc,        \* where each hook is in ensure_up
    seen,       \* the record a hook read last (NoRec when it is not to be used)
    salt,       \* the salt a hook read or minted for its launch
    outcome     \* the port a hook returned (EnsureOutcome::Ours), or NoPort

hookVars == <<hpc, seen, salt, outcome>>
worldVars == <<rec, proxy, foreign>>
launchVars == <<lockVars, worldVars, hookVars>>

Rendezvous == [inst : Launcher, port : Port, salt : Launcher]

\* "signalled": SIGINT received, still accepting; "draining": listener closed, requests
\* in flight; "removing": it has read its own record and is about to unlink it.
Stage == {"none", "spawned", "bound", "serving", "signalled", "draining", "removing", "gone"}

HookPc == {"start", "identify", "stop", "stopping", "killed", "salt", "lock",
           "poll", "probe", "done"}

\* The world a session starts in: no record, the record of an earlier proxy that still
\* serves, or one of a proxy that crashed, whose port an unrelated server may have taken.
LaunchInit ==
    /\ lock = NoLock
    /\ lpc = [p \in Launcher |-> IF p \in Past THEN "released" ELSE "idle"]
    /\ pidLive = [p \in Launcher |-> TRUE]
    /\ rec \in {NoRec} \cup {r \in [inst : Past, port : Port, salt : Past] : r.salt = r.inst}
    /\ \E up \in BOOLEAN :
          /\ proxy = [p \in Launcher |->
                IF up /\ rec # NoRec /\ rec.inst = p
                THEN [st |-> "serving", port |-> rec.port, salt |-> p]
                ELSE [st |-> IF p \in Past THEN "gone" ELSE "none", port |-> NoPort, salt |-> p]]
          /\ foreign \in {{}} \cup {{port} : port \in IF up \/ rec = NoRec THEN {} ELSE {rec.port}}
    /\ hpc = [p \in Launcher |-> IF p \in Past THEN "done" ELSE "start"]
    /\ seen = [p \in Launcher |-> NoRec]
    /\ salt = [p \in Launcher |-> p]
    /\ outcome = [p \in Launcher |-> NoPort]

-----------------------------------------------------------------------------
\* What the network answers.

Listening(i) == proxy[i].st \in {"bound", "serving", "signalled"}
Answering(i) == proxy[i].st \in {"serving", "signalled"}

FreePort(port) == port \notin foreign /\ \A i \in Launcher : Listening(i) => proxy[i].port # port

\* Deviation: any 2xx answer is taken for the recorded proxy.
AnyoneAnswers(r) ==
    r.port \in foreign \/ \E i \in Launcher : Answering(i) /\ proxy[i].port = r.port

\* proxy_identity: the 2xx /healthz answer at r's port carries r's nonce.
IdentityMatches(r) == Answering(r.inst) /\ proxy[r.inst].port = r.port

\* proxy_healthy: the port cannot be bound and something answers 2xx on it.
Healthy(port) ==
    port \in foreign \/ \E i \in Launcher : Answering(i) /\ proxy[i].port = port

\* A proxy is stale iff its build id is not the hook's own.
SameBuild(p, q) == (p \in OldBuild) = (q \in OldBuild)

Alive(p) == lpc[p] # "dead"
HookGoto(p, l) == hpc' = [hpc EXCEPT ![p] = l]

\* ensure_up returns, or its process dies: what it had read goes out of scope.
HookReturns(p) == HookGoto(p, "done") /\ seen' = [seen EXCEPT ![p] = NoRec]

\* A proxy process ends.
Gone(i) == [proxy EXCEPT ![i] = [st |-> "gone", port |-> NoPort, salt |-> i]]

Slow == "slow" \in LaunchFaults

\* live_port: a record with a bound port whose pid answers kill(pid, 0).  The pid of a
\* proxy that is gone may have been given to another process.
LivePort(p, unusable, usable) ==
    \/ /\ rec # NoRec
       /\ seen' = [seen EXCEPT ![p] = rec]
       /\ HookGoto(p, usable)
    \/ /\ rec # NoRec => proxy[rec.inst].st = "gone"
       /\ seen' = [seen EXCEPT ![p] = NoRec]
       /\ HookGoto(p, unusable)

-----------------------------------------------------------------------------
\* The hook: ensure_up.

EnsureRead(p) ==
    /\ Alive(p) /\ hpc[p] = "start"
    /\ LivePort(p, "salt", "identify")
    /\ UNCHANGED <<lockVars, worldVars, salt, outcome>>

\* The /healthz round-trip: adopt, recycle an older build, or launch.
Identify(p) ==
    /\ Alive(p) /\ hpc[p] = "identify"
    /\ \/ /\ IdentityMatches(seen[p]) /\ SameBuild(seen[p].inst, p)
          /\ outcome' = [outcome EXCEPT ![p] = seen[p].port]
          /\ HookReturns(p)
       \/ /\ IdentityMatches(seen[p]) /\ ~SameBuild(seen[p].inst, p)
          /\ HookGoto(p, "stop")
          /\ UNCHANGED <<seen, outcome>>
       \/ /\ ~IdentityMatches(seen[p]) \/ Slow
          /\ seen' = [seen EXCEPT ![p] = NoRec]
          /\ HookGoto(p, "salt")
          /\ UNCHANGED outcome
    /\ UNCHANGED <<lockVars, worldVars, salt>>

\* stop_proxy: SIGINT to the recorded pid.
StopSignal(p) ==
    /\ Alive(p) /\ hpc[p] = "stop"
    /\ LET i == seen[p].inst IN
       proxy' = IF proxy[i].st = "serving"
                THEN [proxy EXCEPT ![i].st = "signalled"] ELSE proxy
    /\ HookGoto(p, "stopping")
    /\ UNCHANGED <<lockVars, rec, foreign, seen, salt, outcome>>

\* The graceful wait: it ends when nothing healthy is at the port; after about three
\* seconds the pid is killed.
StopWait(p) ==
    /\ Alive(p) /\ hpc[p] = "stopping"
    /\ \/ /\ ~Healthy(seen[p].port)
          /\ HookGoto(p, "salt")
          /\ UNCHANGED proxy
       \/ /\ Slow /\ Healthy(seen[p].port)
          /\ proxy' = Gone(seen[p].inst)
          /\ HookGoto(p, "killed")
    /\ UNCHANGED <<lockVars, rec, foreign, seen, salt, outcome>>

\* The backstop wait: free, or given up with a warning.
StopBackstop(p) ==
    /\ Alive(p) /\ hpc[p] = "killed"
    /\ ~Healthy(seen[p].port) \/ Slow
    /\ HookGoto(p, "salt")
    /\ UNCHANGED <<lockVars, worldVars, seen, salt, outcome>>

\* launch_proxy: keep the salt of a validated record, else mint one.
ReadSalt(p) ==
    /\ Alive(p) /\ hpc[p] = "salt"
    /\ salt' = [salt EXCEPT ![p] = IF rec # NoRec THEN rec.salt ELSE p]
    /\ HookGoto(p, "lock")
    /\ UNCHANGED <<lockVars, worldVars, seen, outcome>>

\* Deviation: the guard is bound to `_` and dropped as soon as the proxy is spawned.
LockCallDropsEarly(p) ==
    /\ \/ hpc[p] = "lock" /\ ~Holding(p)
       \/ hpc[p] \in {"poll", "probe", "done"} /\ Holding(p)
    /\ LockStep(p)
    /\ UNCHANGED <<worldVars, hookVars>>

\* Deviation: the guard is leaked, its drop never runs.
LockCallLeaksGuard(p) ==
    /\ hpc[p] = "lock" /\ ~Holding(p)
    /\ LockStep(p)
    /\ UNCHANGED <<worldVars, hookVars>>

\* One step of try_launch_lock, or of the guard's drop once the hook has its outcome.
LockCall(p) ==
    /\ \/ hpc[p] = "lock" /\ ~Holding(p)
       \/ hpc[p] = "done" /\ Holding(p)
    /\ LockStep(p)
    /\ UNCHANGED <<worldVars, hookVars>>

\* The lock was refused: wait for whatever proxy its holder brings up.
LoseLock(p) ==
    /\ hpc[p] = "lock" /\ lpc[p] = "yielded"
    /\ HookGoto(p, "poll")
    /\ salt' = [salt EXCEPT ![p] = p]
    /\ UNCHANGED <<lockVars, worldVars, seen, outcome>>

\* The lock is ours: spawn the proxy, with the salt read before the lock was taken.
Spawn(p) ==
    /\ hpc[p] = "lock" /\ lpc[p] = "held"
    /\ \/ /\ proxy' = [proxy EXCEPT ![p] = [st |-> "spawned", port |-> NoPort, salt |-> salt[p]]]
          /\ HookGoto(p, "poll")
          /\ UNCHANGED seen
       \/ /\ "spawn" \in LaunchFaults
          /\ HookReturns(p)
          /\ UNCHANGED proxy
    /\ salt' = [salt EXCEPT ![p] = p]
    /\ UNCHANGED <<lockVars, rec, foreign, outcome>>

\* wait_for_live: one look at the record.
PollRead(p) ==
    /\ Alive(p) /\ hpc[p] = "poll"
    /\ rec # NoRec
    /\ LivePort(p, "poll", "probe")
    /\ UNCHANGED <<lockVars, worldVars, salt, outcome>>

\* The winner waits for its own instance, a loser for any.
Expected(p) == Holding(p) => seen[p].inst = p

\* wait_for_live: one /healthz round-trip; the build is not looked at.
PollProbe(p) ==
    /\ Alive(p) /\ hpc[p] = "probe"
    /\ \/ /\ IdentityMatches(seen[p]) /\ Expected(p)
          /\ outcome' = [outcome EXCEPT ![p] = seen[p].port]
          /\ HookReturns(p)
       \/ /\ ~(IdentityMatches(seen[p]) /\ Expected(p)) \/ Slow
          /\ HookGoto(p, "poll")
          /\ UNCHANGED <<seen, outcome>>
    /\ UNCHANGED <<lockVars, worldVars, salt>>

\* A launcher or a proxy is still on its way to publishing a record.
Underway ==
    \E q \in Launcher : \/ Holding(q) /\ hpc[q] = "lock"
                        \/ proxy[q].st \in {"spawned", "bound"}

\* The record, as it stands, does not end p's wait.
Useless(p) == rec # NoRec => ~IdentityMatches(rec) \/ (Holding(p) /\ rec.inst # p)

\* wait_for_live ran out of polls.  Unless things are slow that takes a launch that
\* will not come any more.
GiveUp(p) ==
    /\ Alive(p) /\ hpc[p] = "poll"
    /\ Slow \/ (~Underway /\ Useless(p))
    /\ HookReturns(p)
    /\ UNCHANGED <<lockVars, worldVars, salt, outcome>>

\* The hook process dies, its pid is reused, or its lock grows old.
HookDies(p) ==
    /\ Die(p)
    /\ HookReturns(p)
    /\ salt' = [salt EXCEPT ![p] = p]
    /\ UNCHANGED <<worldVars, outcome>>
HookPidReused(p) == ReusePid(p) /\ UNCHANGED <<worldVars, hookVars>>
HookFault(p) == HookDies(p) \/ HookPidReused(p)
LockAge == Age /\ UNCHANGED <<worldVars, hookVars>>

-----------------------------------------------------------------------------
\* The proxy.

ProxyStage(p, st) == proxy' = [proxy EXCEPT ![p].st = st]

\* Deviation: the requested port 0 is kept instead of the bound local address.
BindKeepsZero(p) ==
    /\ proxy[p].st = "spawned"
    /\ ProxyStage(p, "bound")
    /\ UNCHANGED <<lockVars, rec, foreign, hookVars>>

\* bind_listener: a pinned port or nothing; without a pin the sticky port of the record
\* when it is free, else any free port.
Bind(p) ==
    /\ proxy[p].st = "spawned"
    /\ \/ \E port \in Port :
             /\ FreePort(port)
             /\ StaticPort # NoPort => port = StaticPort
             /\ StaticPort = NoPort /\ rec # NoRec /\ FreePort(rec.port) => port = rec.port
             /\ proxy' = [proxy EXCEPT ![p].st = "bound", ![p].port = port]
       \/ /\ StaticPort # NoPort /\ ~FreePort(StaticPort)
          /\ proxy' = Gone(p)
    /\ UNCHANGED <<lockVars, rec, foreign, hookVars>>

\* The record is written before serving; a failed write is only logged.
Publish(p) ==
    /\ proxy[p].st = "bound"
    /\ ProxyStage(p, "serving")
    /\ \/ rec' = [inst |-> p, port |-> proxy[p].port, salt |-> proxy[p].salt]
       \/ "write" \in LaunchFaults /\ UNCHANGED rec
    /\ UNCHANGED <<lockVars, foreign, hookVars>>

\* Graceful shutdown closes the listener first; requests in flight are then drained.
Drain(p) ==
    /\ proxy[p].st = "signalled"
    /\ ProxyStage(p, "draining")
    /\ UNCHANGED <<lockVars, rec, foreign, hookVars>>

\* rendezvous_remove_if_owned: the check ...
RemoveRead(p) ==
    /\ proxy[p].st = "draining"
    /\ proxy' = IF rec # NoRec /\ rec.inst = p
                THEN [proxy EXCEPT ![p].st = "removing"] ELSE Gone(p)
    /\ UNCHANGED <<lockVars, rec, foreign, hookVars>>

\* ... and the unlink, of whatever record is there by then.
RemoveUnlink(p) ==
    /\ proxy[p].st = "removing"
    /\ rec' = NoRec
    /\ proxy' = Gone(p)
    /\ UNCHANGED <<lockVars, foreign, hookVars>>

Crash(p) ==
    /\ "crash" \in LaunchFaults
    /\ proxy[p].st \notin {"none", "gone"}
    /\ proxy' = Gone(p)
    /\ UNCHANGED <<lockVars, rec, foreign, hookVars>>

\* Someone other than a hook stops the proxy (Ctrl-C, shutdown of the machine).
Term(p) ==
    /\ "term" \in LaunchFaults
    /\ proxy[p].st = "serving"
    /\ ProxyStage(p, "signalled")
    /\ UNCHANGED <<lockVars, rec, foreign, hookVars>>

\* Without a pinned port there is always another free one, as for the system's own choice.
ForeignBind(port) ==
    /\ "foreign" \in LaunchFaults
    /\ FreePort(port)
    /\ StaticPort = NoPort => Cardinality(foreign) + Cardinality(Launcher) < Cardinality(Port)
    /\ foreign' = foreign \cup {port}
    /\ UNCHANGED <<lockVars, rec, proxy, hookVars>>

-----------------------------------------------------------------------------
HookStep(p) ==
    \/ EnsureRead(p) \/ Identify(p) \/ StopSignal(p) \/ StopWait(p) \/ StopBackstop(p)
    \/ ReadSalt(p) \/ LockCall(p) \/ LoseLock(p) \/ Spawn(p)
    \/ PollRead(p) \/ PollProbe(p)

ProxyStep(p) ==
    Bind(p) \/ Publish(p) \/ Drain(p) \/ RemoveRead(p) \/ RemoveUnlink(p)

LaunchNext ==
    \/ \E p \in Launcher :
          HookStep(p) \/ GiveUp(p) \/ ProxyStep(p) \/ HookFault(p) \/ Crash(p) \/ Term(p)
    \/ LockAge
    \/ \E port \in Port : ForeignBind(port)

\* Hooks that have not died and proxies that have not crashed keep running; wait_for_live
\* is a bounded loop, so a hook that keeps finding nothing does give up.
LaunchFairness ==
    \A p \in Launcher :
        /\ WF_launchVars(HookStep(p))
        /\ SF_launchVars(GiveUp(p))
        /\ WF_launchVars(ProxyStep(p))

LaunchSpec == LaunchInit /\ [][LaunchNext]_launchVars /\ LaunchFairness

-----------------------------------------------------------------------------
LaunchTypeOK ==
    /\ LockTypeOK
    /\ rec \in Rendezvous \cup {NoRec}
    /\ proxy \in [Launcher -> [st : Stage, port : Port \cup {NoPort}, salt : Launcher]]
    /\ \A p \in Launcher : Listening(p) => proxy[p].port \in Port
    /\ foreign \subseteq Port
    /\ hpc \in [Launcher -> HookPc]
    /\ seen \in [Launcher -> Rendezvous \cup {NoRec}]
    /\ salt \in [Launcher -> Launcher]
    /\ outcome \in [Launcher -> Port \cup {NoPort}]

\* launch_proxy: "The lock is held until the proxy has published": no two proxies of the
\* project are ever on their way up at once, so no two of them race for the record.
Starting(i) == proxy[i].st \in {"spawned", "bound"}
OneStartAtATime == \A p, q \in Launcher : Starting(p) /\ Starting(q) => p = q

\* A proxy on its way up belongs to the launcher that is inside the lock waiting for it:
\* this is what makes OneStartAtATime inductive over ExclusiveLock.
StartIsGuarded ==
    \A p \in Launcher :
        /\ Starting(p) => Holding(p) /\ hpc[p] \in {"poll", "probe"}
        /\ Holding(p) /\ hpc[p] = "lock" => proxy[p].st = "none"
        /\ ~Holding(p) /\ hpc[p] \notin {"poll", "probe", "done"} => proxy[p].st = "none"

\* launch_proxy: "so a sibling can never double-launch": one live proxy per project.
NoDoubleLaunch ==
    \A p, q \in Launcher : Listening(p) /\ Listening(q) => p = q

\* stop_proxy: "The state file -- and thus the token salt -- is left intact, so the
\* relaunched proxy reuses the same salt": after a recycle (seen is still the record of
\* the proxy that was stopped) the salt taken is the stopped proxy's.
RecycleKeepsSalt ==
    [][\A p \in Launcher :
         hpc[p] = "salt" /\ hpc'[p] = "lock" /\ seen[p] # NoRec
            => salt'[p] = seen[p].salt]_launchVars

\* Every session-start hook that is not killed returns, and leaves no lock of its own
\* behind.
HookEnds ==
    <>(\A p \in Launcher :
         lpc[p] = "dead" \/ (hpc[p] = "done" /\ ~Holding(p) /\ (lock # NoLock => lock.owner # p)))

\* ensure_up and wait_for_live ("proof it is the exact proxy instance that published the
\* record, not a foreign 200-server that grabbed the port"): when nothing more fails, every
\* window is served in the end, whatever earlier sessions left behind.  The port its hook
\* returned is one on which a proxy of this project answers from some time on, and the
\* record comes to name a serving proxy for the windows to come.
EveryoneServed ==
    /\ \A p \in Launcher \ Past : <>[](\E i \in Launcher : Answering(i) /\ proxy[i].port = outcome[p])
    /\ <>[](rec # NoRec /\ Answering(rec.inst) /\ proxy[rec.inst].port = rec.port)

\* The promise to every window, under every fault: its hook returns without a lock
\* of its own, and a launcher that died with the lock does not block the ones to
\* come.
LaunchEnds ==
    /\ HookEnds
    /\ DeadLockYields
=============================================================================
