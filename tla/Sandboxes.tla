----------------------------- MODULE Sandboxes -----------------------------
(***************************************************************************)
(* The sandbox windows of one agent-host: the registry with its cap and    *)
(* its queue (browser-registry.ts), the service that holds one window's    *)
(* container (browser-service.ts, idle-watch.ts), the pool of containers   *)
(* started before anybody asks (warm-pool.ts), and the way they all end.   *)
(*                                                                         *)
(* A window is a session id, a container what Docker runs for it. A task   *)
(* is a call suspended at an await: an action is what runs between two.    *)
(* Conversation lanes hold their windows outside the registry and are left *)
(* out, with the agent's own.                                              *)
(***************************************************************************)
EXTENDS Integers, FiniteSets, Sequences, SequencesExt

CONSTANTS
    Cap,            \* windows this machine holds at once
    QueueLimit,     \* places in the line behind them
    WarmSize,       \* containers kept ready
    MaxWindows,     \* bound on the requests for a window
    MaxTasks,       \* bound on the calls under way at once
    MaxContainers,  \* bound on the containers Docker runs at once
    MaxConnected    \* bound on the connections clients keep open

SandboxesData ==
    /\ Cap \in Nat \ {0} /\ QueueLimit \in Nat /\ WarmSize \in Nat
    /\ MaxWindows \in Nat /\ MaxTasks \in Nat /\ MaxContainers \in Nat
    /\ MaxConnected \in Nat

ASSUME SandboxesAssumption == SandboxesData

Windows == 1..MaxWindows
Containers == 1..MaxContainers
Nothing == 0    \* no window, no container

\* delete and reap promote when they are done, end does not; an open closes
\* the window it replaces, claims a container, or starts one.
Task == [kind: {"delete", "reap", "end", "open"}, w: Windows,
         c: Containers \cup {Nothing},
         step: {"closing", "claiming", "starting", "launched"}, n: 0..MaxTasks]

VARIABLES
    open,       \* BrowserRegistry.open
    queue,      \* the tickets; Nothing, or the window granted
    minted,     \* how many windows were ever admitted
    held,       \* each BrowserService's session
    watched,    \* is its idle watch running?
    tasks,      \* calls suspended at an await
    warm,       \* the pool, oldest first
    spent,      \* pool entries too old, or gone
    starting,   \* pool launches on their way
    retiring,   \* containers the pool is ending
    running,    \* what Docker runs
    connected,  \* connections a client keeps open: frames, beats, keep-alive
    phase       \* how far a shutdown is

registry == <<open, queue, minted>>
services == <<held, watched>>
pool     == <<warm, spent, starting, retiring>>
host     == <<connected, phase>>
sandboxVars == <<registry, services, pool, tasks, running, host>>

Phases == <<"serving", "refusing", "stopping", "closing", "draining", "emptying",
            "stopped">>

SandboxesTypeOK ==
    /\ minted \in 0..MaxWindows
    /\ open \subseteq 1..minted
    /\ queue \in Seq(0..minted)
    /\ held \in [Windows -> Containers \cup {Nothing}]
    /\ watched \in [Windows -> BOOLEAN]
    /\ tasks \subseteq Task
    /\ warm \in Seq(Containers)
    /\ spent \subseteq Containers
    /\ starting \in 0..WarmSize
    /\ retiring \subseteq Containers
    /\ running \subseteq Containers
    /\ connected \in 0..MaxConnected
    /\ phase \in Range(Phases)

SandboxesInit ==
    /\ open = {} /\ queue = <<>> /\ minted = 0
    /\ held = [w \in Windows |-> Nothing]
    /\ watched = [w \in Windows |-> FALSE]
    /\ tasks = {}
    /\ warm = <<>> /\ spent = {} /\ starting = WarmSize /\ retiring = {}
    /\ running = {}
    /\ connected = 0
    /\ phase = "serving"

Ungranted(q) == {i \in DOMAIN q : q[i] = Nothing}
\* Who asked for a window holds its key once the ticket is claimed.
Claimed(w) == w \in open /\ w \notin Range(queue)
\* A connection that stands carries requests when no new one is accepted.
Served == phase = "serving" \/ (phase = "refusing" /\ connected > 0)
Drained == phase \in {"draining", "emptying", "stopped"}

\* A number no container answers to.
InUse == running \cup Range(warm) \cup retiring \cup Range(held)
         \cup {t.c : t \in tasks}
Unused == Containers \ InUse
Fresh == CHOOSE c \in Unused : \A d \in Unused : c <= d

(***************************************************************************)
(* BrowserRegistry.                                                        *)
(***************************************************************************)
\* The slot o leaves free, if any, goes to the first ticket without a window.
\* Mutant: promote trusts that the slot its close freed is still free.
PromoteUnchecked(o) ==
    IF Ungranted(queue) # {}
    THEN LET i == CHOOSE i \in Ungranted(queue) : \A j \in Ungranted(queue) : i <= j
         IN  /\ minted' = minted + 1
             /\ open' = o \cup {minted + 1}
             /\ queue' = [queue EXCEPT ![i] = minted + 1]
    ELSE open' = o /\ UNCHANGED <<queue, minted>>
\* Mutant: a window that closes leaves the line where it is.
PromoteNobody(o) == open' = o /\ UNCHANGED <<queue, minted>>
Promote(o) ==
    IF Ungranted(queue) # {} /\ Cardinality(o) < Cap
    THEN LET i == CHOOSE i \in Ungranted(queue) : \A j \in Ungranted(queue) : i <= j
         IN  /\ minted' = minted + 1
             /\ open' = o \cup {minted + 1}
             /\ queue' = [queue EXCEPT ![i] = minted + 1]
    ELSE open' = o /\ UNCHANGED <<queue, minted>>

\* A slot if there is one, a place in the line if there is not, or a refusal.
Start ==
    /\ Served
    /\ minted + Cardinality(Ungranted(queue)) < MaxWindows
    /\ \/ /\ Cardinality(open) < Cap
          /\ minted' = minted + 1
          /\ open' = open \cup {minted + 1}
          /\ UNCHANGED queue
       \/ /\ Cardinality(open) >= Cap
          /\ Len(queue) < QueueLimit
          /\ queue' = Append(queue, Nothing)
          /\ UNCHANGED <<open, minted>>
    /\ UNCHANGED <<services, pool, tasks, running, host>>

\* A caller polls its ticket and is handed its window.
Claim(i) ==
    /\ Served
    /\ i \in DOMAIN queue /\ queue[i] # Nothing
    /\ queue' = RemoveAt(queue, i)
    /\ UNCHANGED <<open, minted, services, pool, tasks, running, host>>

(***************************************************************************)
(* BrowserService.close: the session is let go before the container ends.  *)
(***************************************************************************)
LetGo(w) ==
    /\ held' = [held EXCEPT ![w] = Nothing]
    /\ watched' = [watched EXCEPT ![w] = FALSE]

Closing(kind, w) ==
    [kind |-> kind, w |-> w, c |-> held[w], step |-> "closing", n |-> 0]

Begins(t) ==
    /\ Cardinality(tasks) < MaxTasks
    /\ tasks' = tasks \cup {t}

\* DELETE /browser/sessions/:id. The slot is free at once.
Delete(w) ==
    /\ Served /\ Claimed(w)
    /\ open' = open \ {w}
    /\ LetGo(w)
    /\ Begins(Closing("delete", w))
    /\ UNCHANGED <<queue, minted, pool, running, host>>

\* POST .../close: the window ends and its slot stays taken.
End(w) ==
    /\ Served /\ Claimed(w)
    /\ held[w] # Nothing
    /\ LetGo(w)
    /\ Begins(Closing("end", w))
    /\ UNCHANGED <<registry, pool, running, host>>

\* Nobody has watched the window for two minutes. While the shopper drives it
\* the sweep is put off, for as long as they please.
SweepIdle(w) ==
    /\ watched[w] /\ phase # "stopped"
    /\ LetGo(w)
    /\ Begins(Closing("reap", w))
    /\ UNCHANGED <<registry, pool, running, host>>

\* The container is gone, and the await returns.
Closed(t) ==
    /\ t \in tasks /\ t.step = "closing"
    /\ running' = running \ {t.c}
    /\ \/ /\ t.kind = "delete" \/ (t.kind = "reap" /\ t.w \in open)
          /\ Promote(open \ {t.w})
          /\ tasks' = tasks \ {t}
       \/ /\ t.kind = "end" \/ (t.kind = "reap" /\ t.w \notin open)
          /\ UNCHANGED registry
          /\ tasks' = tasks \ {t}
       \/ /\ t.kind = "open"
          /\ UNCHANGED registry
          /\ tasks' = (tasks \ {t})
                      \cup {[t EXCEPT !.c = Nothing, !.step = "claiming"]}
    /\ UNCHANGED <<services, pool, host>>

(***************************************************************************)
(* WarmContainers: handed out once, never shared and never returned.       *)
(***************************************************************************)
Fit(entries) == SelectSeq(entries, LAMBDA c : c \notin spent)
Primed(entries) ==
    IF Drained \/ Len(entries) + starting >= WarmSize
    THEN starting ELSE WarmSize - Len(entries)
\* dropStale, then prime, on what is left of the pool.
DropStale ==
    /\ spent' = spent \ Range(warm)
    /\ retiring' = retiring \cup (spent \cap Range(warm))

\* An open reaches the pool: a warm container, or a cold start of its own.
PoolServes(t) ==
    /\ t \in tasks /\ t.step = "claiming"
    /\ DropStale
    /\ IF Fit(warm) = <<>>
       THEN /\ warm' = <<>>
            /\ tasks' = (tasks \ {t}) \cup {[t EXCEPT !.step = "starting"]}
       ELSE /\ warm' = Tail(Fit(warm))
            /\ tasks' = (tasks \ {t}) \cup
                 {[t EXCEPT !.step = "launched", !.c = Head(Fit(warm))]}
    /\ starting' = Primed(warm')
    /\ UNCHANGED <<registry, services, running, host>>

\* A launch of the pool's own ends, well or badly.
PoolLaunched ==
    /\ starting > 0 /\ Unused # {}
    /\ running' = running \cup {Fresh}
    /\ starting' = starting - 1
    /\ IF Drained THEN retiring' = retiring \cup {Fresh} /\ UNCHANGED warm
                  ELSE warm' = Append(warm, Fresh) /\ UNCHANGED retiring
    /\ UNCHANGED <<registry, services, spent, tasks, host>>
\* Mutant: a launch that failed still counts as on its way.
PoolLaunchFailsCounted == starting > 0 /\ UNCHANGED sandboxVars
PoolLaunchFails ==
    /\ starting > 0
    /\ starting' = starting - 1
    /\ UNCHANGED <<registry, services, warm, spent, retiring, tasks, running,
                   host>>

\* A warm container grows too old, or dies under the pool.
Spoils(c) ==
    /\ c \in Range(warm) \ spent /\ ~Drained
    /\ spent' = spent \cup {c}
    /\ running' \in {running, running \ {c}}
    /\ UNCHANGED <<registry, services, warm, starting, retiring, tasks, host>>

\* The pool's timer.
SweepPool ==
    /\ ~Drained
    /\ DropStale
    /\ warm' = Fit(warm)
    /\ starting' = Primed(warm')
    /\ UNCHANGED <<registry, services, tasks, running, host>>

Retired(c) ==
    /\ c \in retiring
    /\ retiring' = retiring \ {c}
    /\ running' = running \ {c}
    /\ UNCHANGED <<registry, services, warm, spent, starting, tasks, host>>

(***************************************************************************)
(* BrowserService.relaunch: close, claim a container, then hold it. Two of *)
(* them may overlap, and the window may leave the registry meanwhile.      *)
(***************************************************************************)
Opens(w) == {t \in tasks : t.kind = "open" /\ t.w = w}

Open(w) ==
    /\ Served /\ Claimed(w)
    /\ LetGo(w)
    /\ Begins([Closing("open", w) EXCEPT !.n =
                 CHOOSE n \in 0..MaxTasks : \A t \in Opens(w) : t.n # n])
    /\ UNCHANGED <<registry, pool, running, host>>

ColdStarts(t) ==
    /\ t \in tasks /\ t.step = "starting" /\ Unused # {}
    /\ running' = running \cup {Fresh}
    /\ tasks' = (tasks \ {t}) \cup {[t EXCEPT !.step = "launched", !.c = Fresh]}
    /\ UNCHANGED <<registry, services, pool, host>>

\* The launch is refused: the call fails, the window stays closed.
ColdStartFails(t) ==
    /\ t \in tasks /\ t.step = "starting"
    /\ tasks' = tasks \ {t}
    /\ UNCHANGED <<registry, services, pool, running, host>>

\* The session is the window's, whatever it held and whoever closed it.
Launched(t) ==
    /\ t \in tasks /\ t.step = "launched"
    /\ held' = [held EXCEPT ![t.w] = t.c]
    /\ watched' = [watched EXCEPT ![t.w] = TRUE]
    /\ tasks' = tasks \ {t}
    /\ UNCHANGED <<registry, pool, running, host>>

(***************************************************************************)
(* Shutdown: everybody hangs up, the registry closes, the pool drains.     *)
(***************************************************************************)
\* A client opens a stream, and leaves it when it likes: the host ends none, not
\* those of a window that closed either.
Connect ==
    /\ phase = "serving" /\ connected < MaxConnected
    /\ connected' = connected + 1
    /\ UNCHANGED <<registry, services, pool, tasks, running, phase>>

HangUp ==
    /\ connected > 0
    /\ connected' = connected - 1
    /\ UNCHANGED <<registry, services, pool, tasks, running, phase>>

Moves(from, to) == phase = from /\ phase' = to /\ UNCHANGED connected

\* server.close: no new connection; its callback waits for the old ones.
StopAccepting ==
    /\ Moves("serving", "refusing")
    /\ UNCHANGED <<registry, services, pool, tasks, running>>

AllGone ==
    /\ Moves("refusing", "stopping")
    /\ connected = 0 /\ \A t \in tasks : t.kind = "reap"
    /\ UNCHANGED <<registry, services, pool, tasks, running>>

CloseAll ==
    /\ Moves("stopping", "closing")
    /\ queue' = <<>> /\ open' = {}
    /\ held' = [w \in Windows |-> IF w \in open THEN Nothing ELSE held[w]]
    /\ watched' = [w \in Windows |-> w \notin open /\ watched[w]]
    /\ tasks' = tasks \cup {Closing("delete", w) : w \in open}
    /\ UNCHANGED <<minted, pool, running>>

Drain ==
    /\ Moves("closing", "draining")
    /\ \A t \in tasks : t.kind = "reap"
    /\ UNCHANGED <<registry, services, pool, tasks, running>>

\* The pool's background work is quiet: what is still warm goes.
EmptyPool ==
    /\ Moves("draining", "emptying")
    /\ starting = 0 /\ retiring = {}
    /\ retiring' = Range(warm) /\ warm' = <<>>
    /\ UNCHANGED <<registry, services, spent, starting, tasks, running>>

Stop ==
    /\ Moves("emptying", "stopped")
    /\ retiring = {}
    /\ UNCHANGED <<registry, services, pool, tasks, running>>

\* Whatever a task awaits, it ends. A stopped process runs nothing.
Resumes(t) ==
    /\ phase # "stopped"
    /\ Closed(t) \/ PoolServes(t) \/ ColdStarts(t) \/ ColdStartFails(t) \/ Launched(t)
PoolWorks ==
    /\ phase # "stopped"
    /\ PoolLaunched \/ PoolLaunchFails \/ \E c \in retiring : Retired(c)
ShutsDown == AllGone \/ CloseAll \/ Drain \/ EmptyPool \/ Stop

SandboxesNext ==
    \/ Start
    \/ \E i \in DOMAIN queue : Claim(i)
    \/ \E w \in Windows : Delete(w) \/ End(w) \/ SweepIdle(w) \/ Open(w)
    \/ \E t \in tasks : Resumes(t)
    \/ PoolWorks
    \/ SweepPool
    \/ \E c \in Containers : Spoils(c)
    \/ Connect \/ HangUp
    \/ StopAccepting
    \/ ShutsDown

\* Docker answers or its calls time out, so an await returns; nobody promises
\* that a caller claims, closes, comes back, or hangs up.
SandboxesSpec ==
    /\ SandboxesInit /\ [][SandboxesNext]_sandboxVars
    /\ \A w \in Windows, k \in {"delete", "reap", "end", "open"} :
          WF_sandboxVars(\E t \in tasks : t.w = w /\ t.kind = k /\ Resumes(t))
    /\ WF_sandboxVars(PoolWorks)
    /\ WF_sandboxVars(ShutsDown)

(***************************************************************************)
(* What the host promises.                                                 *)
(***************************************************************************)
\* The registry never holds more windows than the machine does, although the
\* slot a close frees is up for grabs until its container has ended.
OpenWithinCap == Cardinality(open) <= Cap

\* While a ticket waits, every slot is taken or a close on its way will look
\* at the line again: no window is free that nobody is told of.
NoSlotIdleWhileSomeoneWaits ==
    Ungranted(queue) # {} =>
        Cardinality(open) + Cardinality({t \in tasks : t.kind = "delete"}) >= Cap

\* Once it was told to stop and everybody has hung up, the host stops, whatever
\* is still opening, closing or launching; nothing it does makes them hang up
\* (shutdown.ts:39 waits for server.close, and closeStreams comes after).
ShutdownEnds == (phase # "serving" /\ connected = 0) ~> (phase = "stopped")

=============================================================================
