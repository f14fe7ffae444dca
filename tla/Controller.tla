----------------------------- MODULE Controller -----------------------------
(***************************************************************************)
(* The controller crate and the part of the GUI that drives it: blocking,  *)
(* unblocking and rate-limiting a process by inserting and deleting rules  *)
(* of the nftables chain `inet filter output`.                             *)
(*                                                                         *)
(* The chain is kernel state: it outlives the program and other software   *)
(* owns rules in it.  The program's own record of it (RULES_BY_PID) and    *)
(* the GUI's blocked_pids live in memory and are lost on exit.  Every      *)
(* handler runs to completion on the GUI thread, so a handler is one       *)
(* action; it issues several nft commands, any of which may fail, and the  *)
(* action covers every prefix of them.  A handler is written as the set of *)
(* outcomes it can have, since the code composes them by early returns and *)
(* by ignored results.                                                     *)
(***************************************************************************)
EXTENDS Naturals, FiniteSets

CONSTANTS
    Pids,            \* process ids that may appear in the process table
    TcpPorts,        \* local TCP ports of the network namespace
    UdpPorts,        \* local UDP ports of the network namespace
    RateNamed,       \* processes whose name starts with "rate-limit"
    ForeignHandles,  \* handles of the rules other software has in the chain
    FirstHandle,     \* the first handle the kernel gives to a netmon rule
    None,            \* no process
    MaxHandle,       \* bound on the handles the kernel gives out
    Faults           \* which of "nft", "crash" and "reset" may happen

Ports == TcpPorts \cup UdpPorts
Kinds == {"block", "rate", "foreign"}

ASSUME NoneAssumption == None \notin Pids
ASSUME RateNamedAssumption == RateNamed \subseteq Pids
ASSUME MaxHandleAssumption == MaxHandle \in Nat
ASSUME ForeignAssumption ==
    /\ ForeignHandles \subseteq Nat
    /\ FirstHandle \in Nat
    /\ \A h \in ForeignHandles : h < FirstHandle
ASSUME FaultsAssumption == Faults \subseteq {"nft", "crash", "reset"}

VARIABLES
    table,       \* the table and its output chain exist
    chain,       \* the rules of the chain
    nextHandle,  \* the kernel's handle counter for the table
    blockRefs,   \* RULES_BY_PID under key pid (absent is {})
    rateRefs,    \* RULES_BY_PID under key pid | 0x8000_0000 (absent is {})
    blocked,     \* the GUI's blocked_pids
    app,         \* "running", or how the last session ended
    alive,       \* processes that exist
    bound        \* the process a local port belongs to, or None

memory == <<blockRefs, rateRefs, blocked>>
kernel == <<table, chain, nextHandle>>
procs  == <<alive, bound>>
vars   == <<kernel, memory, app, procs>>

Rule == [handle: Nat, pid: Pids \cup {None}, kind: Kinds, sport: SUBSET Ports]

ForeignRules == [handle: ForeignHandles, pid: {None}, kind: {"foreign"}, sport: {{}}]

TypeOK ==
    /\ table \in BOOLEAN
    /\ chain \subseteq Rule
    /\ nextHandle \in Nat
    /\ blockRefs \in [Pids -> SUBSET Nat]
    /\ rateRefs \in [Pids -> SUBSET Nat]
    /\ blocked \subseteq Pids
    /\ app \in {"running", "exited", "crashed"}
    /\ alive \subseteq Pids
    /\ bound \in [Ports -> Pids \cup {None}]

-----------------------------------------------------------------------------
(* What nft and /proc answer.                                              *)

Handles(c) == {r.handle : r \in c}

\* The chain after the rules with these handles are deleted.
Without(c, hs) == {r \in c : r.handle \notin hs}

NftFails == "nft" \in Faults

\* Mutated form: the marker is the prefix `netmon-pid-` without the pid.
find_all_marked(p, c) == {r.handle : r \in {x \in c : x.pid # None}}

\* The lines whose comment holds `netmon-pid-<p>-`: rules of either kind.
find_rule_handles_for_pid(p, c) == {r.handle : r \in {x \in c : x.pid = p}}

\* Mutated form: the suffix is left out of the marker.
find_without_suffix(p, c) == {r.handle : r \in {x \in c : x.pid = p}}

\* The lines whose comment holds `netmon-pid-<p>-rate-limit`: the rate-limit
\* rules of p, and its block rules when its name starts with "rate-limit".
find_rule_handles_for_pid_comment(p, c) ==
    {r.handle : r \in {x \in c : x.pid = p /\ (x.kind = "rate" \/ p \in RateNamed)}}

\* /proc/<p>/net/* lists the sockets of p's network namespace, whichever
\* process owns them; the files of a process that is gone cannot be read.
collect_pid_ports(p, candidates) ==
    {x \in candidates : p \in alive /\ bound[x] # None}

\* nft deletes hs in ascending order (the order it lists them in) and the
\* caller returns at the first failure: a handle that is not in the chain, or
\* an nft that cannot be run.
DeleteOutcomes(hs, c) ==
    LET Before(f) == {h \in hs : h < f}
        FailsAt   == {f \in hs : /\ Before(f) \subseteq Handles(c)
                                 /\ f \notin Handles(c) \/ NftFails}
    IN  {[ok |-> TRUE, chain |-> Without(c, hs)] : x \in {hs} \cap SUBSET Handles(c)}
          \cup {[ok |-> FALSE, chain |-> Without(c, Before(f))] : f \in FailsAt}

\* Deletes the tracked handles, or when there are none the ones nft lists.
RemoveOutcomes(refs, listed, c, t) ==
    IF refs # {} THEN DeleteOutcomes(refs, c)
    ELSE (IF t THEN DeleteOutcomes(listed, c) ELSE {})
           \cup {[ok |-> FALSE, chain |-> c] : x \in {y \in {t} : ~t \/ NftFails}}

-----------------------------------------------------------------------------
(* The controller's functions, as the sets of outcomes they can have.      *)

\* Whether table and chain exist afterwards; both adds tolerate "File exists".
setup_nftables == {TRUE} \cup IF NftFails THEN {table} ELSE {}

unblock_process(p, t) ==
    RemoveOutcomes(blockRefs[p], find_rule_handles_for_pid(p, chain), chain, t)

remove_rate_limit_rules_for_pid(p, t) ==
    RemoveOutcomes(rateRefs[p], find_rule_handles_for_pid_comment(p, chain), chain, t)

\* Mutated form: a single rule with a set of two port sets.
build_nested_ruleset(p, kind) ==
    {[handle |-> nextHandle, pid |-> p, kind |-> kind,
      sport |-> {collect_pid_ports(p, TcpPorts), collect_pid_ports(p, UdpPorts)}]}

\* One rule for the TCP ports, one for the UDP ports, and without ports one
\* that matches the owner's uid.  Handles grow but need not be contiguous: the
\* anonymous port sets take handles too.
build_ruleset(p, kind) ==
    LET tcp == collect_pid_ports(p, TcpPorts)
        udp == collect_pid_ports(p, UdpPorts)
        rule(h, s) == [handle |-> h, pid |-> p, kind |-> kind, sport |-> s]
    IN  IF tcp = {} /\ udp = {}
        THEN {rule(nextHandle, {})}
        ELSE {rule(nextHandle, s) : s \in {tcp} \ {{}}}
               \cup {rule(nextHandle + 1, s) : s \in {udp} \ {{}}}

\* Mutated form: only the handles of the rules just inserted.
find_new(p, kind, c) ==
    {h \in IF kind = "block" THEN find_rule_handles_for_pid(p, c)
                             ELSE find_rule_handles_for_pid_comment(p, c) : h >= nextHandle}

find_inserted(p, kind, c) ==
    IF kind = "block" THEN find_rule_handles_for_pid(p, c)
                      ELSE find_rule_handles_for_pid_comment(p, c)

\* The common tail of block_process and rate_limit_process, run on chain c:
\* nothing to match (no port, no uid) or a failed `nft -f` leaves c; a failed
\* listing leaves the new rules untracked; otherwise all marked rules of p are
\* tracked, the new ones and any that were left before.
InsertOutcomes(p, kind, c, t) ==
    LET new == c \cup build_ruleset(p, kind)
    IN  {[ok |-> FALSE, chain |-> c, refs |-> {}] :
            x \in {y \in {t} : p \notin alive \/ ~t \/ NftFails}}
          \cup {[ok |-> FALSE, chain |-> new, refs |-> {}] :
            x \in {y \in {t} : p \in alive /\ t /\ NftFails}}
          \cup {[ok |-> TRUE, chain |-> new, refs |-> find_inserted(p, kind, new)] :
            x \in {y \in {t} : p \in alive /\ t}}

-----------------------------------------------------------------------------
(* The GUI's handlers.                                                     *)

\* Bounds the handles, hence the insertions of a behaviour.
HandlesLeft == nextHandle + 1 < MaxHandle

\* block_pid: both the result of setup and the one of the preceding unblock
\* are ignored.  block_user takes this step once for each pid of a user.
BlockPid(p) ==
    /\ app = "running"
    /\ HandlesLeft
    /\ \E t \in setup_nftables :
       \E u \in unblock_process(p, t) :
       \E i \in InsertOutcomes(p, "block", u.chain, t) :
          /\ table' = t
          /\ chain' = i.chain
          /\ blockRefs' = [blockRefs EXCEPT ![p] = i.refs]
          /\ blocked' = IF i.ok THEN blocked \cup {p} ELSE blocked
    /\ nextHandle' = nextHandle + 2
    /\ UNCHANGED <<rateRefs, app, procs>>

\* Mutated form: the GUI forgets the process whatever the result.
UnblockIgnoringResult(p) ==
    /\ app = "running"
    /\ \E u \in unblock_process(p, table) : chain' = u.chain
    /\ blocked' = blocked \ {p}
    /\ blockRefs' = [blockRefs EXCEPT ![p] = {}]
    /\ UNCHANGED <<table, nextHandle, rateRefs, app, procs>>

\* unblock_pid: the tracked handles are forgotten whether or not all of the
\* rules could be deleted.
UnblockPid(p) ==
    /\ app = "running"
    /\ \E u \in unblock_process(p, table) :
          /\ chain' = u.chain
          /\ blocked' = IF u.ok THEN blocked \ {p} ELSE blocked
    /\ blockRefs' = [blockRefs EXCEPT ![p] = {}]
    /\ UNCHANGED <<table, nextHandle, rateRefs, app, procs>>

\* limit_bandwidth with a positive rate: a failed removal ends the handler.
LimitPid(p) ==
    /\ app = "running"
    /\ HandlesLeft
    /\ \E t \in setup_nftables :
       \E u \in remove_rate_limit_rules_for_pid(p, t) :
          /\ table' = t
          /\ IF u.ok
             THEN \E i \in InsertOutcomes(p, "rate", u.chain, t) :
                     /\ chain' = i.chain
                     /\ rateRefs' = [rateRefs EXCEPT ![p] = i.refs]
             ELSE /\ chain' = u.chain
                  /\ rateRefs' = [rateRefs EXCEPT ![p] = {}]
    /\ nextHandle' = nextHandle + 2
    /\ UNCHANGED <<blockRefs, blocked, app, procs>>

ForgetMemory ==
    /\ blockRefs' = [p \in Pids |-> {}]
    /\ rateRefs' = [p \in Pids |-> {}]
    /\ blocked' = {}

\* Mutated form: deletes the tracked handles instead of flushing the chain.
unblock_tracked == {Without(chain, UNION {blockRefs[p] \cup rateRefs[p] : p \in Pids})}

\* The chain after unblock_all: flushed, unless there is no chain or nft fails.
unblock_all ==
    (IF table THEN {{}} ELSE {chain}) \cup IF NftFails THEN {chain} ELSE {}

\* Closing the window drops NetmonApp, which ends with unblock_all.
CleanExit ==
    /\ app = "running"
    /\ app' = "exited"
    /\ chain' \in unblock_all
    /\ ForgetMemory
    /\ UNCHANGED <<table, nextHandle, procs>>

\* A panic or a signal: the program has no handler that cleans up.
Crash ==
    /\ "crash" \in Faults
    /\ app = "running"
    /\ app' = "crashed"
    /\ ForgetMemory
    /\ UNCHANGED <<kernel, procs>>

\* main: set up the table (result ignored) and start the GUI.
Start ==
    /\ app # "running"
    /\ app' = "running"
    /\ table' \in setup_nftables
    /\ UNCHANGED <<chain, nextHandle, memory, procs>>

-----------------------------------------------------------------------------
(* The environment.                                                        *)

\* The administrator reloads the firewall: the table is deleted, and perhaps
\* recreated with its configured rules; its handles start over.
AdminReset ==
    /\ "reset" \in Faults
    /\ table
    /\ table' \in BOOLEAN
    /\ chain' = IF table' THEN ForeignRules ELSE {}
    /\ nextHandle' = FirstHandle
    /\ UNCHANGED <<memory, app, procs>>

Spawn(p) ==
    /\ p \notin alive
    /\ alive' = alive \cup {p}
    /\ UNCHANGED <<kernel, memory, app, bound>>

Terminate(p) ==
    /\ p \in alive
    /\ alive' = alive \ {p}
    /\ bound' = [x \in Ports |-> IF bound[x] = p THEN None ELSE bound[x]]
    /\ UNCHANGED <<kernel, memory, app>>

Bind(p, x) ==
    /\ p \in alive
    /\ bound[x] = None
    /\ bound' = [bound EXCEPT ![x] = p]
    /\ UNCHANGED <<kernel, memory, app, alive>>

Close(x) ==
    /\ bound[x] # None
    /\ bound' = [bound EXCEPT ![x] = None]
    /\ UNCHANGED <<kernel, memory, app, alive>>

-----------------------------------------------------------------------------

Init ==
    /\ table \in BOOLEAN
    /\ table \/ ForeignHandles = {}
    /\ chain = ForeignRules
    /\ nextHandle = FirstHandle
    /\ blockRefs = [p \in Pids |-> {}]
    /\ rateRefs = [p \in Pids |-> {}]
    /\ blocked = {}
    /\ app = "exited"
    /\ alive = {}
    /\ bound = [x \in Ports |-> None]

Next ==
    \/ \E p \in Pids : BlockPid(p) \/ UnblockPid(p) \/ LimitPid(p)
    \/ CleanExit \/ Crash \/ Start \/ AdminReset
    \/ \E p \in Pids : Spawn(p) \/ Terminate(p)
    \/ \E p \in Pids, x \in Ports : Bind(p, x)
    \/ \E x \in Ports : Close(x)

Spec == Init /\ [][Next]_vars

-----------------------------------------------------------------------------
(* Properties.                                                             *)

BlockRules(p, c) == {r \in c : r.pid = p /\ r.kind = "block"}

\* A tracked handle never names another process's rule or a foreign one, so
\* that deleting by handle is safe: whatever nft commands failed, whichever
\* processes came and went and however often the program was restarted, as
\* long as nobody deletes the table (block_process, rate_limit_process).
TrackedAreOwn ==
    \A p \in Pids : \A r \in chain :
        r.handle \in blockRefs[p] \cup rateRefs[p] => r.pid = p

\* If anything is tracked for p then every block rule of p is: the rules that a
\* failed unblock or a failed listing left behind, or that a crashed session
\* left in the kernel, are adopted by the next successful block_process, which
\* looks all of them up by their comment.
TrackedAreAll ==
    \A p \in Pids :
        blockRefs[p] # {} => Handles(BlockRules(p, chain)) \subseteq blockRefs[p]

\* When the GUI stops showing p as blocked (unblock_pid reported success), no
\* block rule of p is left in the chain, whatever failed before.
UnblockOkClears ==
    [][\A p \in blocked \ blocked' :
          app' = "running" => BlockRules(p, chain') = {}]_vars

\* A handler of the running program removes rules of one process at most, and
\* never a foreign rule (only the flush at exit does).
RemovalsOfOneProcess ==
    [][app' = "running" =>
          \A r, s \in chain \ chain' : r.pid = s.pid /\ r.pid # None]_vars

\* Processes with a block rule that the GUI does not show as blocked.
Hidden == {p \in Pids : BlockRules(p, chain) # {} /\ p \notin blocked}

\* The user knows which processes to unblock: as long as nft works, only a crash
\* leaves a process with a block rule and not shown as blocked (block_pid,
\* unblock_pid, Drop), whatever the administrator does to the table.
OnlyCrashHidesRules == [][app' = "crashed" \/ Hidden' \subseteq Hidden]_vars

\* Changing the bandwidth limit of a process keeps the block rules in force,
\* as long as no process has a name that starts with "rate-limit".
LimitKeepsBlockRules ==
    [][\A p \in Pids : LimitPid(p) =>
          \A q \in Pids : BlockRules(q, chain) \subseteq chain']_vars

\* After a clean exit no netmon rule is left, not even one left behind by an
\* earlier session that crashed (Drop, unblock_all).
CleanExitRemovesRules == app = "exited" => \A r \in chain : r.kind = "foreign"

-----------------------------------------------------------------------------
(* What the documentation and comments say that the code does not keep.    *)

\* docs/controller.md: "collect source ports currently used by that process".
OnlyOwnPortsBlocked ==
    [][\A r \in chain' \ chain : \A x \in r.sport : bound[x] = r.pid]_vars

\* "Removes all tracked nftables rules associated with one process ID."
UnblockRemovesTracked ==
    [][\A p \in Pids : UnblockPid(p) =>
          Handles(chain') \cap blockRefs[p] = {}]_vars

=============================================================================
