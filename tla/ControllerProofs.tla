-------------------------- MODULE ControllerProofs --------------------------
(***************************************************************************)
(* Proofs about Controller for any processes, ports, rules of other        *)
(* software and bound on handles.                                          *)
(***************************************************************************)
EXTENDS Controller, TLAPS

-----------------------------------------------------------------------------
(* What the outcome operators guarantee.                                   *)

\* Deleting rules by handle, successfully or not, only removes rules with the
\* given handles; success leaves none of them.
LEMMA DeleteFacts ==
    ASSUME NEW hs, NEW c, NEW o \in DeleteOutcomes(hs, c)
    PROVE  /\ o.ok \in BOOLEAN
           /\ o.chain \subseteq c
           /\ \A r \in c \ o.chain : r.handle \in hs
           /\ o.ok => \A r \in o.chain : r.handle \notin hs
<1> DEFINE Before(f) == {h \in hs : h < f}
<1>1. CASE o = [ok |-> TRUE, chain |-> Without(c, hs)]
  BY <1>1 DEF Without
<1>2. CASE \E f \in hs : o = [ok |-> FALSE, chain |-> Without(c, Before(f))]
  BY <1>2 DEF Without
<1>3. QED
  BY <1>1, <1>2 DEF DeleteOutcomes

\* The handles a removal works from: the tracked ones, else the listed ones.
Chosen(refs, listed) == IF refs # {} THEN refs ELSE listed

\* The same for the removal that starts from the tracked handles.
LEMMA RemoveFacts ==
    ASSUME NEW refs, NEW listed, NEW c, NEW t \in BOOLEAN,
           NEW o \in RemoveOutcomes(refs, listed, c, t)
    PROVE  /\ o.ok \in BOOLEAN
           /\ o.chain \subseteq c
           /\ \A r \in c \ o.chain : r.handle \in Chosen(refs, listed)
           /\ o.ok => \A r \in o.chain : r.handle \notin Chosen(refs, listed)
<1>1. CASE refs # {}
  <2>1. o \in DeleteOutcomes(refs, c)
    BY <1>1 DEF RemoveOutcomes
  <2>2. QED
    BY <1>1, <2>1, DeleteFacts DEF Chosen
<1>2. CASE refs = {}
  <2>1. CASE o \in DeleteOutcomes(listed, c)
    BY <1>2, <2>1, DeleteFacts DEF Chosen
  <2>2. CASE o = [ok |-> FALSE, chain |-> c]
    BY <1>2, <2>2
  <2>3. QED
    BY <1>2, <2>1, <2>2 DEF RemoveOutcomes
<1>3. QED
  BY <1>1, <1>2

\* The rules netmon adds are rules of p with handles not given out before.
LEMMA RulesetFacts ==
    ASSUME NEW p \in Pids, NEW kind \in {"block", "rate"}, nextHandle \in Nat,
           NEW r \in build_ruleset(p, kind)
    PROVE  /\ r \in Rule
           /\ r.pid = p
           /\ r.kind = kind
           /\ r.handle \in {nextHandle, nextHandle + 1}
<1>1. PICK h \in {nextHandle, nextHandle + 1}, s \in SUBSET Ports :
         r = [handle |-> h, pid |-> p, kind |-> kind, sport |-> s]
  BY DEF build_ruleset, collect_pid_ports, Ports
<1>2. QED
  BY <1>1 DEF Rule, Kinds

\* An insertion keeps the chain and adds rules of p; what it tracks is nothing
\* or all rules found by comment.  Only an nft failure leaves untracked rules.
LEMMA InsertFacts ==
    ASSUME NEW p \in Pids, NEW kind \in {"block", "rate"}, nextHandle \in Nat,
           NEW c, NEW t \in BOOLEAN, NEW i \in InsertOutcomes(p, kind, c, t)
    PROVE  /\ i.ok \in BOOLEAN
           /\ c \subseteq i.chain
           /\ i.chain = c \/ t
           /\ \A r \in i.chain : \/ r \in c
                                 \/ /\ r \in Rule
                                    /\ r.pid = p
                                    /\ r.kind = kind
                                    /\ r.handle \in {nextHandle, nextHandle + 1}
           /\ i.refs = {} \/ i.refs = find_inserted(p, kind, i.chain)
           /\ ~NftFails => i.ok \/ i.chain = c
<1> DEFINE new == c \cup build_ruleset(p, kind)
<1>1. CASE i = [ok |-> FALSE, chain |-> c, refs |-> {}]
  BY <1>1
<1>2. CASE i = [ok |-> FALSE, chain |-> new, refs |-> {}] /\ NftFails /\ t
  BY <1>2, RulesetFacts
<1>3. CASE i = [ok |-> TRUE, chain |-> new, refs |-> find_inserted(p, kind, new)] /\ t
  BY <1>3, RulesetFacts
<1>4. QED
  BY <1>1, <1>2, <1>3 DEF InsertOutcomes

\* find_inserted yields handles of rules of p in the chain.
LEMMA FindFacts ==
    ASSUME NEW p \in Pids, NEW kind, NEW c \in SUBSET Rule
    PROVE  /\ find_inserted(p, kind, c) \subseteq Nat
           /\ \A h \in find_inserted(p, kind, c) :
                 \E r \in c : /\ r.handle = h
                              /\ r.pid = p
                              /\ kind = "block" \/ r.kind = "rate" \/ p \in RateNamed
           /\ Handles(BlockRules(p, c)) \subseteq find_inserted(p, "block", c)
BY DEF find_inserted, find_rule_handles_for_pid, find_rule_handles_for_pid_comment,
       Rule, Handles, BlockRules

-----------------------------------------------------------------------------
(* What a handler does to the chain, in one formula for each handler.      *)

\* setup_nftables leaves the table there unless nft fails.
LEMMA SetupFacts ==
    ASSUME TypeOK, NEW t \in setup_nftables
    PROVE  t \in BOOLEAN /\ (~NftFails => t)
BY DEF setup_nftables, TypeOK

\* The handles that block_process and unblock_process delete for p, and those
\* that rate_limit_process deletes.
BlockTargets(p) == Chosen(blockRefs[p], find_rule_handles_for_pid(p, chain))
RateTargets(p) == Chosen(rateRefs[p], find_rule_handles_for_pid_comment(p, chain))

\* The chain becomes kept \cup new: kept is what the removal left, new are
\* rules of p with fresh handles.
Rewrites(p, kind, targets, kept, new) ==
    /\ chain' = kept \cup new
    /\ \A r \in chain \ kept : r.handle \in targets
    /\ \A r \in new : /\ r.pid = p
                      /\ r.kind = kind
                      /\ r.handle \in {nextHandle, nextHandle + 1}

\* block_process rewrites the chain and tracks everything it finds or nothing.
LEMMA BlockStep ==
    ASSUME TypeOK, NEW p \in Pids, BlockPid(p)
    PROVE  \E kept \in SUBSET chain, new \in SUBSET Rule :
              /\ Rewrites(p, "block", BlockTargets(p), kept, new)
              /\ table' \in BOOLEAN
              /\ new = {} \/ table'
              /\ \/ blockRefs' = [blockRefs EXCEPT ![p] = {}]
                 \/ blockRefs' = [blockRefs EXCEPT ![p] = find_inserted(p, "block", chain')]
              /\ blocked' = blocked \/ blocked' = blocked \cup {p}
              /\ ~NftFails => table' /\ (new = {} \/ p \in blocked')
<1>1. PICK t \in setup_nftables :
         \E u \in unblock_process(p, t) :
         \E i \in InsertOutcomes(p, "block", u.chain, t) :
            /\ table' = t
            /\ chain' = i.chain
            /\ blockRefs' = [blockRefs EXCEPT ![p] = i.refs]
            /\ blocked' = IF i.ok THEN blocked \cup {p} ELSE blocked
  BY DEF BlockPid
<1>2. PICK u \in unblock_process(p, t) :
         \E i \in InsertOutcomes(p, "block", u.chain, t) :
            /\ table' = t
            /\ chain' = i.chain
            /\ blockRefs' = [blockRefs EXCEPT ![p] = i.refs]
            /\ blocked' = IF i.ok THEN blocked \cup {p} ELSE blocked
  BY <1>1
<1>3. PICK i \in InsertOutcomes(p, "block", u.chain, t) :
            /\ table' = t
            /\ chain' = i.chain
            /\ blockRefs' = [blockRefs EXCEPT ![p] = i.refs]
            /\ blocked' = IF i.ok THEN blocked \cup {p} ELSE blocked
  BY <1>2
<1>4. t \in BOOLEAN /\ (~NftFails => t)
  BY SetupFacts
<1>5. /\ u.chain \subseteq chain
      /\ \A r \in chain \ u.chain : r.handle \in BlockTargets(p)
  BY <1>4, RemoveFacts DEF unblock_process, BlockTargets
<1>6. nextHandle \in Nat
  BY DEF TypeOK
<1> DEFINE new == i.chain \ u.chain
<1>7. /\ i.ok \in BOOLEAN
      /\ i.chain = u.chain \cup new
      /\ new = {} \/ t
      /\ \A r \in new : /\ r \in Rule
                        /\ r.pid = p
                        /\ r.kind = "block"
                        /\ r.handle \in {nextHandle, nextHandle + 1}
      /\ i.refs = {} \/ i.refs = find_inserted(p, "block", i.chain)
      /\ ~NftFails => i.ok \/ new = {}
  BY <1>4, <1>6, InsertFacts
<1>8. new \in SUBSET Rule
  BY <1>7
<1>9. Rewrites(p, "block", BlockTargets(p), u.chain, new)
  BY <1>3, <1>5, <1>7 DEF Rewrites
<1>10. QED
  BY <1>3, <1>4, <1>5, <1>7, <1>8, <1>9

\* unblock_process deletes its targets, all of them when it reports success.
LEMMA UnblockStep ==
    ASSUME TypeOK, NEW p \in Pids, UnblockPid(p)
    PROVE  /\ chain' \subseteq chain
           /\ \A r \in chain \ chain' : r.handle \in BlockTargets(p)
           /\ \/ blocked' = blocked
              \/ /\ blocked' = blocked \ {p}
                 /\ \A r \in chain' : r.handle \notin BlockTargets(p)
<1>1. PICK u \in unblock_process(p, table) :
         /\ chain' = u.chain
         /\ blocked' = IF u.ok THEN blocked \ {p} ELSE blocked
  BY DEF UnblockPid
<1>2. table \in BOOLEAN
  BY DEF TypeOK
<1>3. QED
  BY <1>1, <1>2, RemoveFacts DEF unblock_process, BlockTargets

\* rate_limit_process rewrites the chain in the same way.
LEMMA LimitStep ==
    ASSUME TypeOK, NEW p \in Pids, LimitPid(p)
    PROVE  \E kept \in SUBSET chain, new \in SUBSET Rule :
              /\ Rewrites(p, "rate", RateTargets(p), kept, new)
              /\ table' \in BOOLEAN
              /\ new = {} \/ table'
              /\ \/ rateRefs' = [rateRefs EXCEPT ![p] = {}]
                 \/ rateRefs' = [rateRefs EXCEPT ![p] = find_inserted(p, "rate", chain')]
              /\ ~NftFails => table'
<1>1. PICK t \in setup_nftables :
         \E u \in remove_rate_limit_rules_for_pid(p, t) :
            /\ table' = t
            /\ IF u.ok
               THEN \E i \in InsertOutcomes(p, "rate", u.chain, t) :
                       /\ chain' = i.chain
                       /\ rateRefs' = [rateRefs EXCEPT ![p] = i.refs]
               ELSE /\ chain' = u.chain
                    /\ rateRefs' = [rateRefs EXCEPT ![p] = {}]
  BY DEF LimitPid
<1>2. PICK u \in remove_rate_limit_rules_for_pid(p, t) :
            /\ table' = t
            /\ IF u.ok
               THEN \E i \in InsertOutcomes(p, "rate", u.chain, t) :
                       /\ chain' = i.chain
                       /\ rateRefs' = [rateRefs EXCEPT ![p] = i.refs]
               ELSE /\ chain' = u.chain
                    /\ rateRefs' = [rateRefs EXCEPT ![p] = {}]
  BY <1>1
<1>3. t \in BOOLEAN /\ (~NftFails => t)
  BY SetupFacts
<1>4. /\ u.ok \in BOOLEAN
      /\ u.chain \subseteq chain
      /\ \A r \in chain \ u.chain : r.handle \in RateTargets(p)
  BY <1>3, RemoveFacts DEF remove_rate_limit_rules_for_pid, RateTargets
<1>5. nextHandle \in Nat
  BY DEF TypeOK
<1>6. CASE u.ok
  <2>1. PICK i \in InsertOutcomes(p, "rate", u.chain, t) :
           /\ chain' = i.chain
           /\ rateRefs' = [rateRefs EXCEPT ![p] = i.refs]
    BY <1>2, <1>6
  <2> DEFINE new == i.chain \ u.chain
  <2>2. /\ i.chain = u.chain \cup new
        /\ new = {} \/ t
        /\ \A r \in new : /\ r \in Rule
                          /\ r.pid = p
                          /\ r.kind = "rate"
                          /\ r.handle \in {nextHandle, nextHandle + 1}
        /\ i.refs = {} \/ i.refs = find_inserted(p, "rate", i.chain)
    BY <1>3, <1>5, InsertFacts
  <2>3. new \in SUBSET Rule
    BY <2>2
  <2>4. Rewrites(p, "rate", RateTargets(p), u.chain, new)
    BY <1>4, <2>1, <2>2 DEF Rewrites
  <2>5. /\ table' \in BOOLEAN
        /\ new = {} \/ table'
        /\ \/ rateRefs' = [rateRefs EXCEPT ![p] = {}]
           \/ rateRefs' = [rateRefs EXCEPT ![p] = find_inserted(p, "rate", chain')]
        /\ ~NftFails => table'
    BY <1>2, <1>3, <2>1, <2>2
  <2>6. QED
    BY <1>4, <2>3, <2>4, <2>5
<1>7. CASE ~u.ok
  <2>1. Rewrites(p, "rate", RateTargets(p), u.chain, {})
    BY <1>2, <1>4, <1>7 DEF Rewrites
  <2>2. QED
    BY <1>2, <1>3, <1>4, <1>7, <2>1
<1>8. QED
  BY <1>4, <1>6, <1>7

-----------------------------------------------------------------------------
(* Type correctness.                                                       *)

\* Every variable keeps its type: in particular the rules netmon adds are
\* well formed, and failed or partial nft commands leave a chain of rules.
THEOREM TypeCorrect == Spec => []TypeOK
<1>1. Init => TypeOK
  BY ForeignAssumption DEF Init, TypeOK, ForeignRules, Rule, Kinds
<1>2. TypeOK /\ [Next]_vars => TypeOK'
  <2> SUFFICES ASSUME TypeOK, [Next]_vars PROVE TypeOK'
    OBVIOUS
  <2>1. ASSUME NEW p \in Pids, BlockPid(p) PROVE TypeOK'
    <3>1. chain' \subseteq Rule /\ table' \in BOOLEAN /\ blocked' \subseteq Pids
      BY <2>1, BlockStep DEF TypeOK, Rewrites
    <3>2. blockRefs' \in [Pids -> SUBSET Nat]
      <4>1. find_inserted(p, "block", chain') \subseteq Nat
        BY <3>1, FindFacts
      <4>2. QED
        BY <2>1, <4>1, BlockStep DEF TypeOK
    <3>3. QED
      BY <2>1, <3>1, <3>2 DEF TypeOK, BlockPid, procs
  <2>2. ASSUME NEW p \in Pids, UnblockPid(p) PROVE TypeOK'
    BY <2>2, UnblockStep DEF TypeOK, UnblockPid, procs
  <2>3. ASSUME NEW p \in Pids, LimitPid(p) PROVE TypeOK'
    <3>1. chain' \subseteq Rule /\ table' \in BOOLEAN
      BY <2>3, LimitStep DEF TypeOK, Rewrites
    <3>2. rateRefs' \in [Pids -> SUBSET Nat]
      <4>1. find_inserted(p, "rate", chain') \subseteq Nat
        BY <3>1, FindFacts
      <4>2. QED
        BY <2>3, <4>1, LimitStep DEF TypeOK
    <3>3. QED
      BY <2>3, <3>1, <3>2 DEF TypeOK, LimitPid, procs
  <2>4. CASE CleanExit
    BY <2>4 DEF TypeOK, CleanExit, ForgetMemory, unblock_all, procs
  <2>5. CASE Crash
    BY <2>5 DEF TypeOK, Crash, ForgetMemory, kernel, procs
  <2>6. CASE Start
    BY <2>6, SetupFacts DEF TypeOK, Start, memory, procs
  <2>7. CASE AdminReset
    BY <2>7, ForeignAssumption
       DEF TypeOK, AdminReset, ForeignRules, Rule, Kinds, memory, procs
  <2>8. ASSUME NEW p \in Pids, Spawn(p) \/ Terminate(p) PROVE TypeOK'
    BY <2>8 DEF TypeOK, Spawn, Terminate, kernel, memory
  <2>9. ASSUME NEW x \in Ports, Close(x) \/ \E p \in Pids : Bind(p, x) PROVE TypeOK'
    BY <2>9 DEF TypeOK, Bind, Close, kernel, memory
  <2>10. CASE UNCHANGED vars
    BY <2>10 DEF TypeOK, vars, kernel, memory, procs
  <2>11. QED
    BY <2>1, <2>2, <2>3, <2>4, <2>5, <2>6, <2>7, <2>8, <2>9, <2>10 DEF Next
<1>3. QED
  BY <1>1, <1>2, PTL DEF Spec

-----------------------------------------------------------------------------
(* Deleting by handle is safe while the table is not deleted.              *)

\* Handles are given out in increasing order, so that neither a rule nor a
\* tracked handle is as large as the counter.
HandlesFresh ==
    /\ \A r \in chain : r.handle < nextHandle
    /\ \A p \in Pids : \A h \in blockRefs[p] \cup rateRefs[p] : h < nextHandle

\* A handle determines the process and the kind of its rule.
HandlesUnique ==
    \A r, s \in chain : r.handle = s.handle => r.pid = s.pid /\ r.kind = s.kind

\* The handles tracked under the rate-limit key are of rate-limit rules.
RateTrackedAreRate ==
    \A p \in Pids : \A r \in chain :
        r.handle \in rateRefs[p] => r.kind = "rate" \/ p \in RateNamed

\* The inductive strengthening of TrackedAreOwn.
OwnInv == HandlesFresh /\ HandlesUnique /\ TrackedAreOwn /\ RateTrackedAreRate

\* A rewritten chain has fresh and unique handles again.
LEMMA RewriteKeepsHandles ==
    ASSUME TypeOK, HandlesFresh, HandlesUnique, nextHandle' = nextHandle + 2,
           NEW p \in Pids, NEW kind, NEW targets,
           NEW kept \in SUBSET chain, NEW new \in SUBSET Rule,
           Rewrites(p, kind, targets, kept, new)
    PROVE  /\ \A r \in chain' : r.handle < nextHandle'
           /\ HandlesUnique'
<1>1. /\ nextHandle \in Nat
      /\ \A r \in chain : r.handle \in Nat
      /\ \A r \in new : r.handle \in Nat
  BY DEF TypeOK, Rule
<1>2. \A r \in kept : r.handle < nextHandle
  BY DEF HandlesFresh
<1>3. \A r \in new : r.handle < nextHandle' /\ ~(r.handle < nextHandle)
  BY <1>1 DEF Rewrites
<1>4. \A r \in chain' : r \in kept \/ r \in new
  BY DEF Rewrites
<1>5. \A r \in chain' : r.handle < nextHandle'
  BY <1>1, <1>2, <1>3, <1>4
<1>6. ASSUME NEW r \in chain', NEW s \in chain', r.handle = s.handle
      PROVE  r.pid = s.pid /\ r.kind = s.kind
  <2>1. CASE r \in kept /\ s \in kept
    BY <1>6, <2>1 DEF HandlesUnique
  <2>2. CASE r \in new /\ s \in new
    BY <2>2 DEF Rewrites
  <2>3. QED
    BY <1>2, <1>3, <1>4, <1>6, <2>1, <2>2
<1>7. QED
  BY <1>5, <1>6 DEF HandlesUnique

\* A rule of the rewritten chain whose handle was given out before was kept.
LEMMA OldHandlesKept ==
    ASSUME TypeOK, NEW p \in Pids, NEW kind, NEW targets,
           NEW kept \in SUBSET chain, NEW new \in SUBSET Rule,
           Rewrites(p, kind, targets, kept, new)
    PROVE  \A r \in chain' : r.handle < nextHandle => r \in chain
<1>1. nextHandle \in Nat
  BY DEF TypeOK
<1>2. \A r \in new : ~(r.handle < nextHandle)
  BY <1>1 DEF Rewrites
<1>3. QED
  BY <1>2 DEF Rewrites

\* A step that deletes rules only, keeps the counter and tracks nothing new
\* preserves the strengthening.
LEMMA ShrinkKeepsOwn ==
    ASSUME OwnInv, chain' \subseteq chain, nextHandle' = nextHandle,
           \A p \in Pids : blockRefs'[p] \subseteq blockRefs[p] /\ rateRefs'[p] \subseteq rateRefs[p]
    PROVE  OwnInv'
<1>1. HandlesFresh'
  BY DEF OwnInv, HandlesFresh
<1>2. HandlesUnique'
  BY DEF OwnInv, HandlesUnique
<1>3. TrackedAreOwn'
  BY DEF OwnInv, TrackedAreOwn
<1>4. RateTrackedAreRate'
  BY DEF OwnInv, RateTrackedAreRate
<1>5. QED
  BY <1>1, <1>2, <1>3, <1>4 DEF OwnInv

\* Before the first start only foreign rules are in the chain.
LEMMA OwnInvInit == Init => OwnInv
<1> SUFFICES ASSUME Init PROVE OwnInv
  OBVIOUS
<1>1. \A r \in chain : r.handle \in ForeignHandles /\ r.pid = None /\ r.kind = "foreign"
  BY DEF Init, ForeignRules
<1>2. \A p \in Pids : blockRefs[p] = {} /\ rateRefs[p] = {}
  BY DEF Init
<1>3. HandlesFresh
  BY <1>1, <1>2, ForeignAssumption DEF HandlesFresh, Init
<1>4. HandlesUnique
  BY <1>1 DEF HandlesUnique
<1>5. TrackedAreOwn /\ RateTrackedAreRate
  BY <1>2 DEF TrackedAreOwn, RateTrackedAreRate
<1>6. QED
  BY <1>3, <1>4, <1>5 DEF OwnInv

\* block_process preserves the strengthening: what it tracks are the rules it
\* found by comment, and the handles it adds are in nobody's record.
LEMMA BlockKeepsOwn ==
    ASSUME TypeOK, TypeOK', OwnInv, NEW p \in Pids, BlockPid(p)
    PROVE  OwnInv'
<1>1. PICK kept \in SUBSET chain, new \in SUBSET Rule :
         /\ Rewrites(p, "block", BlockTargets(p), kept, new)
         /\ \/ blockRefs' = [blockRefs EXCEPT ![p] = {}]
            \/ blockRefs' = [blockRefs EXCEPT ![p] = find_inserted(p, "block", chain')]
  BY BlockStep
<1>2. nextHandle' = nextHandle + 2 /\ rateRefs' = rateRefs /\ nextHandle \in Nat
  BY DEF BlockPid, TypeOK
<1>3. (\A r \in chain' : r.handle < nextHandle') /\ HandlesUnique'
  BY <1>1, <1>2, RewriteKeepsHandles DEF OwnInv
<1>4. \A r \in chain' : r.handle < nextHandle => r \in chain
  BY <1>1, OldHandlesKept
<1>5. \A h \in find_inserted(p, "block", chain') :
         \E r \in chain' : r.handle = h /\ r.pid = p
  BY FindFacts DEF TypeOK
<1>6. \A q \in Pids : \A h \in blockRefs'[q] :
         \/ h \in blockRefs[q]
         \/ q = p /\ h \in find_inserted(p, "block", chain')
  BY <1>1 DEF TypeOK
<1>7. \A q \in Pids : \A h \in blockRefs[q] \cup rateRefs[q] : h \in Nat /\ h < nextHandle
  BY DEF TypeOK, OwnInv, HandlesFresh
<1>8. HandlesFresh'
  BY <1>2, <1>3, <1>5, <1>6, <1>7 DEF HandlesFresh
<1>9. ASSUME NEW q \in Pids, NEW r \in chain', r.handle \in (blockRefs[q] \cup rateRefs[q])'
      PROVE  r.pid = q
  <2>1. CASE r.handle \in blockRefs[q] \cup rateRefs[q]
    <3>1. r \in chain
      BY <1>4, <1>7, <2>1
    <3>2. QED
      BY <2>1, <3>1 DEF OwnInv, TrackedAreOwn
  <2>2. CASE q = p /\ r.handle \in find_inserted(p, "block", chain')
    BY <1>3, <1>5, <2>2 DEF HandlesUnique
  <2>3. QED
    BY <1>2, <1>6, <1>9, <2>1, <2>2
<1>10. TrackedAreOwn'
  BY <1>9 DEF TrackedAreOwn
<1>11. RateTrackedAreRate'
  BY <1>2, <1>4, <1>7 DEF OwnInv, RateTrackedAreRate
<1>12. QED
  BY <1>3, <1>8, <1>10, <1>11 DEF OwnInv

\* The same for rate_limit_process, which tracks under the other key.
LEMMA LimitKeepsOwn ==
    ASSUME TypeOK, TypeOK', OwnInv, NEW p \in Pids, LimitPid(p)
    PROVE  OwnInv'
<1>1. PICK kept \in SUBSET chain, new \in SUBSET Rule :
         /\ Rewrites(p, "rate", RateTargets(p), kept, new)
         /\ \/ rateRefs' = [rateRefs EXCEPT ![p] = {}]
            \/ rateRefs' = [rateRefs EXCEPT ![p] = find_inserted(p, "rate", chain')]
  BY LimitStep
<1>2. nextHandle' = nextHandle + 2 /\ blockRefs' = blockRefs /\ nextHandle \in Nat
  BY DEF LimitPid, TypeOK
<1>3. (\A r \in chain' : r.handle < nextHandle') /\ HandlesUnique'
  BY <1>1, <1>2, RewriteKeepsHandles DEF OwnInv
<1>4. \A r \in chain' : r.handle < nextHandle => r \in chain
  BY <1>1, OldHandlesKept
<1>5. \A h \in find_inserted(p, "rate", chain') :
         \E r \in chain' : /\ r.handle = h
                           /\ r.pid = p
                           /\ r.kind = "rate" \/ p \in RateNamed
  BY FindFacts DEF TypeOK
<1>6. \A q \in Pids : \A h \in rateRefs'[q] :
         \/ h \in rateRefs[q]
         \/ q = p /\ h \in find_inserted(p, "rate", chain')
  BY <1>1 DEF TypeOK
<1>7. \A q \in Pids : \A h \in blockRefs[q] \cup rateRefs[q] : h \in Nat /\ h < nextHandle
  BY DEF TypeOK, OwnInv, HandlesFresh
<1>8. HandlesFresh'
  BY <1>2, <1>3, <1>5, <1>6, <1>7 DEF HandlesFresh
<1>9. ASSUME NEW q \in Pids, NEW r \in chain', r.handle \in (blockRefs[q] \cup rateRefs[q])'
      PROVE  /\ r.pid = q
             /\ r.handle \in rateRefs'[q] => r.kind = "rate" \/ q \in RateNamed
  <2>1. CASE r.handle \in blockRefs[q] \cup rateRefs[q]
    <3>1. r \in chain
      BY <1>4, <1>7, <2>1
    <3>2. r.pid = q
      BY <2>1, <3>1 DEF OwnInv, TrackedAreOwn
    <3>3. CASE r.handle \in rateRefs[q]
      BY <3>1, <3>2, <3>3 DEF OwnInv, RateTrackedAreRate
    <3>4. CASE q = p /\ r.handle \in find_inserted(p, "rate", chain')
      BY <1>3, <1>5, <3>2, <3>4 DEF HandlesUnique
    <3>5. QED
      BY <1>6, <3>2, <3>3, <3>4
  <2>2. CASE q = p /\ r.handle \in find_inserted(p, "rate", chain')
    BY <1>3, <1>5, <2>2 DEF HandlesUnique
  <2>3. QED
    BY <1>2, <1>6, <1>9, <2>1, <2>2
<1>10. TrackedAreOwn' /\ RateTrackedAreRate'
  BY <1>9 DEF TrackedAreOwn, RateTrackedAreRate
<1>11. QED
  BY <1>3, <1>8, <1>10 DEF OwnInv

\* As long as the table is never deleted, OwnInv is an invariant.
LEMMA OwnInvariant ==
    ASSUME "reset" \notin Faults
    PROVE  Spec => []OwnInv
<1>1. TypeOK /\ TypeOK' /\ OwnInv /\ [Next]_vars => OwnInv'
  <2> SUFFICES ASSUME TypeOK, TypeOK', OwnInv, [Next]_vars PROVE OwnInv'
    OBVIOUS
  <2>1. ASSUME NEW p \in Pids, BlockPid(p) PROVE OwnInv'
    BY <2>1, BlockKeepsOwn
  <2>2. ASSUME NEW p \in Pids, UnblockPid(p) PROVE OwnInv'
    BY <2>2, UnblockStep, ShrinkKeepsOwn DEF UnblockPid, TypeOK
  <2>3. ASSUME NEW p \in Pids, LimitPid(p) PROVE OwnInv'
    BY <2>3, LimitKeepsOwn
  <2>4. CASE CleanExit
    BY <2>4, ShrinkKeepsOwn DEF CleanExit, ForgetMemory, unblock_all
  <2>5. CASE Crash
    BY <2>5, ShrinkKeepsOwn DEF Crash, ForgetMemory, kernel
  <2>6. CASE Start
    BY <2>6, ShrinkKeepsOwn DEF Start, memory
  <2>7. ASSUME NEW p \in Pids, Spawn(p) \/ Terminate(p) PROVE OwnInv'
    BY <2>7, ShrinkKeepsOwn DEF Spawn, Terminate, kernel, memory
  <2>8. ASSUME NEW x \in Ports, Close(x) \/ \E p \in Pids : Bind(p, x) PROVE OwnInv'
    BY <2>8, ShrinkKeepsOwn DEF Bind, Close, kernel, memory
  <2>9. CASE UNCHANGED vars
    BY <2>9, ShrinkKeepsOwn DEF vars, kernel, memory
  <2>10. ~AdminReset
    BY DEF AdminReset
  <2>11. QED
    BY <2>1, <2>2, <2>3, <2>4, <2>5, <2>6, <2>7, <2>8, <2>9, <2>10 DEF Next
<1>2. QED
  BY <1>1, OwnInvInit, TypeCorrect, PTL DEF Spec

\* A tracked handle never names a rule of another process or of other
\* software, whatever nft commands fail and whenever the program crashes.
THEOREM TrackedOwn ==
    ASSUME "reset" \notin Faults
    PROVE  Spec => []TrackedAreOwn
<1>1. OwnInv => TrackedAreOwn
  BY DEF OwnInv
<1>2. QED
  BY <1>1, OwnInvariant, PTL

\* The rules a handler deletes for p are rules of p.
LEMMA TargetsAreOwn ==
    ASSUME OwnInv, NEW p \in Pids, NEW r \in chain,
           r.handle \in BlockTargets(p) \cup RateTargets(p)
    PROVE  r.pid = p
<1>1. CASE r.handle \in blockRefs[p] \cup rateRefs[p]
  BY <1>1 DEF OwnInv, TrackedAreOwn
<1>2. CASE \E x \in chain : x.pid = p /\ x.handle = r.handle
  BY <1>2 DEF OwnInv, HandlesUnique
<1>3. QED
  BY <1>1, <1>2 DEF BlockTargets, RateTargets, Chosen, find_rule_handles_for_pid,
                    find_rule_handles_for_pid_comment

\* While the table is never deleted, a handler of the running program removes
\* rules of one process only, and none of other software.
THEOREM OneProcessAtATime ==
    ASSUME "reset" \notin Faults
    PROVE  Spec => RemovalsOfOneProcess
<1> DEFINE Safe == app' = "running" =>
                     \A r, s \in chain \ chain' : r.pid = s.pid /\ r.pid # None
<1>1. TypeOK /\ OwnInv /\ [Next]_vars => [Safe]_vars
  <2> SUFFICES ASSUME TypeOK, OwnInv, [Next]_vars PROVE [Safe]_vars
    OBVIOUS
  <2>1. ASSUME NEW p \in Pids, BlockPid(p) \/ UnblockPid(p) \/ LimitPid(p) PROVE Safe
    <3>1. \A r \in chain \ chain' : r.handle \in BlockTargets(p) \cup RateTargets(p)
      BY <2>1, BlockStep, UnblockStep, LimitStep DEF Rewrites
    <3>2. \A r \in chain \ chain' : r.pid = p
      BY <3>1, TargetsAreOwn
    <3>3. QED
      BY <3>2, NoneAssumption
  <2>2. CASE CleanExit \/ Crash
    BY <2>2 DEF CleanExit, Crash
  <2>3. CASE Start \/ \E p \in Pids : Spawn(p) \/ Terminate(p)
    BY <2>3 DEF Start, Spawn, Terminate, kernel
  <2>4. CASE \E x \in Ports : Close(x) \/ \E p \in Pids : Bind(p, x)
    BY <2>4 DEF Close, Bind, kernel
  <2>5. ~AdminReset
    BY DEF AdminReset
  <2>6. QED
    BY <2>1, <2>2, <2>3, <2>4, <2>5 DEF Next
<1>2. QED
  BY <1>1, TypeCorrect, OwnInvariant, PTL DEF Spec, RemovalsOfOneProcess

\* While the table is never deleted and no process has a name that starts with
\* "rate-limit", changing a bandwidth limit keeps all block rules.
THEOREM LimitSparesBlockRules ==
    ASSUME "reset" \notin Faults, RateNamed = {}
    PROVE  Spec => LimitKeepsBlockRules
<1> DEFINE Spares == \A p \in Pids : LimitPid(p) =>
                       \A q \in Pids : BlockRules(q, chain) \subseteq chain'
<1>1. TypeOK /\ OwnInv /\ [Next]_vars => [Spares]_vars
  <2> SUFFICES ASSUME TypeOK, OwnInv, NEW p \in Pids, LimitPid(p), NEW r \in chain,
                      r.kind = "block"
               PROVE  r \in chain'
    BY DEF BlockRules
  <2>1. r.handle \in RateTargets(p) => r.kind = "rate"
    <3>1. CASE r.handle \in rateRefs[p]
      BY <3>1 DEF OwnInv, RateTrackedAreRate
    <3>2. CASE \E x \in chain : x.kind = "rate" /\ x.handle = r.handle
      BY <3>2 DEF OwnInv, HandlesUnique
    <3>3. QED
      BY <3>1, <3>2 DEF RateTargets, Chosen, find_rule_handles_for_pid_comment
  <2>2. QED
    BY <2>1, LimitStep DEF Rewrites
<1>2. QED
  BY <1>1, TypeCorrect, OwnInvariant, PTL DEF Spec, LimitKeepsBlockRules

-----------------------------------------------------------------------------
(* Leftover rules are adopted, so a successful unblock leaves none.  This  *)
(* holds whatever fails, and even if the table is deleted.                 *)

\* If anything is tracked for a process, all of its block rules are.
THEOREM TrackedAll == Spec => []TrackedAreAll
<1>1. Init => TrackedAreAll
  BY DEF Init, TrackedAreAll
<1>2. TypeOK /\ TypeOK' /\ TrackedAreAll /\ [Next]_vars => TrackedAreAll'
  <2> SUFFICES ASSUME TypeOK, TypeOK', TrackedAreAll, [Next]_vars, NEW q \in Pids,
                      blockRefs'[q] # {}, NEW r \in chain', r.pid = q, r.kind = "block"
               PROVE  r.handle \in blockRefs'[q]
    BY DEF TrackedAreAll, BlockRules, Handles
  <2>1. ASSUME blockRefs'[q] = blockRefs[q], r \in chain
        PROVE  r.handle \in blockRefs'[q]
    BY <2>1 DEF TrackedAreAll, BlockRules, Handles
  <2>2. ASSUME NEW p \in Pids, BlockPid(p) PROVE r.handle \in blockRefs'[q]
    <3>1. PICK kept \in SUBSET chain, new \in SUBSET Rule :
             /\ Rewrites(p, "block", BlockTargets(p), kept, new)
             /\ \/ blockRefs' = [blockRefs EXCEPT ![p] = {}]
                \/ blockRefs' = [blockRefs EXCEPT ![p] = find_inserted(p, "block", chain')]
      BY <2>2, BlockStep
    <3>2. CASE q = p
      <4>1. blockRefs'[q] = find_inserted(p, "block", chain')
        BY <3>1, <3>2 DEF TypeOK
      <4>2. Handles(BlockRules(p, chain')) \subseteq find_inserted(p, "block", chain')
        BY FindFacts DEF TypeOK
      <4>3. QED
        BY <3>2, <4>1, <4>2 DEF Handles, BlockRules
    <3>3. CASE q # p
      BY <2>1, <3>1, <3>3 DEF TypeOK, Rewrites
    <3>4. QED
      BY <3>2, <3>3
  <2>3. ASSUME NEW p \in Pids, UnblockPid(p) PROVE r.handle \in blockRefs'[q]
    <3>1. blockRefs'[q] = blockRefs[q]
      BY <2>3 DEF UnblockPid, TypeOK
    <3>2. QED
      BY <2>1, <2>3, <3>1, UnblockStep
  <2>4. ASSUME NEW p \in Pids, LimitPid(p) PROVE r.handle \in blockRefs'[q]
    <3>1. r \in chain
      BY <2>4, LimitStep DEF Rewrites
    <3>2. QED
      BY <2>1, <2>4, <3>1 DEF LimitPid
  <2>5. ~(CleanExit \/ Crash)
    BY DEF CleanExit, Crash, ForgetMemory
  <2>6. CASE Start
    BY <2>1, <2>6 DEF Start, memory
  <2>7. CASE AdminReset
    <3>1. r.pid = None
      BY <2>7 DEF AdminReset, ForeignRules
    <3>2. QED
      BY <3>1, NoneAssumption
  <2>8. CASE \E p \in Pids : Spawn(p) \/ Terminate(p)
    BY <2>1, <2>8 DEF Spawn, Terminate, kernel, memory
  <2>9. CASE \E x \in Ports : Close(x) \/ \E p \in Pids : Bind(p, x)
    BY <2>1, <2>9 DEF Close, Bind, kernel, memory
  <2>10. CASE UNCHANGED vars
    BY <2>1, <2>10 DEF vars, kernel, memory
  <2>11. QED
    BY <2>2, <2>3, <2>4, <2>5, <2>6, <2>7, <2>8, <2>9, <2>10 DEF Next
<1>3. QED
  BY <1>1, <1>2, TypeCorrect, PTL DEF Spec

\* An unblock of p that reports success leaves no block rule of p.
LEMMA UnblockOkLeavesNone ==
    ASSUME TypeOK, TrackedAreAll, NEW p \in Pids, UnblockPid(p), blocked' # blocked
    PROVE  BlockRules(p, chain') = {}
<1>1. /\ chain' \subseteq chain
      /\ \A r \in chain' : r.handle \notin BlockTargets(p)
  BY UnblockStep
<1>2. \A r \in BlockRules(p, chain) : r.handle \in BlockTargets(p)
  BY DEF TrackedAreAll, BlockTargets, Chosen, find_rule_handles_for_pid, BlockRules, Handles
<1>3. QED
  BY <1>1, <1>2 DEF BlockRules

\* Whenever the GUI stops showing a process as blocked, none of its block
\* rules is left in the kernel.
THEOREM UnblockClears == Spec => UnblockOkClears
<1> DEFINE Clears == \A p \in blocked \ blocked' :
                       app' = "running" => BlockRules(p, chain') = {}
<1>1. TypeOK /\ TrackedAreAll /\ [Next]_vars => [Clears]_vars
  <2> SUFFICES ASSUME TypeOK, TrackedAreAll, [Next]_vars, NEW q \in blocked \ blocked',
                      app' = "running"
               PROVE  BlockRules(q, chain') = {}
    OBVIOUS
  <2>1. ASSUME NEW p \in Pids, BlockPid(p) PROVE FALSE
    BY <2>1, BlockStep
  <2>2. ASSUME NEW p \in Pids, UnblockPid(p) PROVE BlockRules(q, chain') = {}
    <3>1. q = p
      BY <2>2, UnblockStep
    <3>2. QED
      BY <2>2, <3>1, UnblockOkLeavesNone
  <2>3. ~(CleanExit \/ Crash)
    BY DEF CleanExit, Crash
  <2>4. ~(Start \/ AdminReset \/ UNCHANGED vars)
    BY DEF Start, AdminReset, vars, memory
  <2>5. ~\E p \in Pids : LimitPid(p) \/ Spawn(p) \/ Terminate(p)
    BY DEF LimitPid, Spawn, Terminate, memory
  <2>6. ~\E x \in Ports : Close(x) \/ \E p \in Pids : Bind(p, x)
    BY DEF Close, Bind, memory
  <2>7. QED
    BY <2>1, <2>2, <2>3, <2>4, <2>5, <2>6 DEF Next
<1>2. QED
  BY <1>1, TypeCorrect, TrackedAll, PTL DEF Spec, UnblockOkClears

-----------------------------------------------------------------------------
(* Without nft failures: what is left after exit, and what the GUI shows.  *)

\* Without its table there is no chain and no rule.
NoTableNoRules == table \/ chain = {}

\* The table, once set up, is there unless the administrator deletes it.
LEMMA NoTableInvariant ==
    ASSUME ~NftFails
    PROVE  Spec => []NoTableNoRules
<1>1. Init => NoTableNoRules
  BY DEF Init, NoTableNoRules, ForeignRules
<1>2. TypeOK /\ NoTableNoRules /\ [Next]_vars => NoTableNoRules'
  <2> SUFFICES ASSUME TypeOK, NoTableNoRules, [Next]_vars PROVE NoTableNoRules'
    OBVIOUS
  <2>1. ASSUME NEW p \in Pids, BlockPid(p) \/ LimitPid(p) PROVE NoTableNoRules'
    BY <2>1, BlockStep, LimitStep DEF NoTableNoRules
  <2>2. ASSUME NEW p \in Pids, UnblockPid(p) PROVE NoTableNoRules'
    <3>1. table' = table /\ chain' \subseteq chain
      BY <2>2, UnblockStep DEF UnblockPid
    <3>2. QED
      BY <3>1 DEF NoTableNoRules
  <2>3. CASE CleanExit \/ Crash
    BY <2>3 DEF CleanExit, Crash, unblock_all, kernel, NoTableNoRules
  <2>4. CASE Start
    BY <2>4, SetupFacts DEF Start, NoTableNoRules
  <2>5. CASE AdminReset
    BY <2>5 DEF AdminReset, NoTableNoRules
  <2>6. CASE \E p \in Pids : Spawn(p) \/ Terminate(p)
    BY <2>6 DEF Spawn, Terminate, kernel, NoTableNoRules
  <2>7. CASE \E x \in Ports : Close(x) \/ \E p \in Pids : Bind(p, x)
    BY <2>7 DEF Close, Bind, kernel, NoTableNoRules
  <2>8. CASE UNCHANGED vars
    BY <2>8 DEF vars, kernel, NoTableNoRules
  <2>9. QED
    BY <2>1, <2>2, <2>3, <2>4, <2>5, <2>6, <2>7, <2>8 DEF Next
<1>3. QED
  BY <1>1, <1>2, TypeCorrect, PTL DEF Spec

\* If nft works, a clean exit leaves no netmon rule in the kernel, also none of
\* an earlier session that crashed, and whatever the administrator does.
THEOREM CleanExitClears ==
    ASSUME ~NftFails
    PROVE  Spec => []CleanExitRemovesRules
<1>1. Init => CleanExitRemovesRules
  BY DEF Init, CleanExitRemovesRules, ForeignRules
<1>2. NoTableNoRules /\ CleanExitRemovesRules /\ [Next]_vars => CleanExitRemovesRules'
  <2> SUFFICES ASSUME NoTableNoRules, CleanExitRemovesRules, [Next]_vars, app' = "exited"
               PROVE  \A r \in chain' : r.kind = "foreign"
    BY DEF CleanExitRemovesRules
  <2>1. CASE CleanExit
    BY <2>1 DEF CleanExit, unblock_all, NoTableNoRules
  <2>2. CASE AdminReset
    BY <2>2 DEF AdminReset, ForeignRules
  <2>3. CASE \E p \in Pids : Spawn(p) \/ Terminate(p)
    BY <2>3 DEF Spawn, Terminate, kernel, CleanExitRemovesRules
  <2>4. CASE \E x \in Ports : Close(x) \/ \E p \in Pids : Bind(p, x)
    BY <2>4 DEF Close, Bind, kernel, CleanExitRemovesRules
  <2>5. CASE UNCHANGED vars
    BY <2>5 DEF vars, kernel, CleanExitRemovesRules
  <2>6. ~(Crash \/ Start \/ \E p \in Pids : BlockPid(p) \/ UnblockPid(p) \/ LimitPid(p))
    BY DEF Crash, Start, BlockPid, UnblockPid, LimitPid
  <2>7. QED
    BY <2>1, <2>2, <2>3, <2>4, <2>5, <2>6 DEF Next
<1>3. QED
  BY <1>1, <1>2, NoTableInvariant, PTL DEF Spec

\* If nft works, only a crash leaves a process with a block rule and not shown
\* as blocked: no handler of the running program and no clean exit does.
THEOREM RulesAreShown ==
    ASSUME ~NftFails
    PROVE  Spec => OnlyCrashHidesRules
<1>1. /\ TypeOK /\ NoTableNoRules /\ TrackedAreAll /\ [Next]_vars
      => [app' = "crashed" \/ Hidden' \subseteq Hidden]_vars
  <2> SUFFICES ASSUME TypeOK, NoTableNoRules, TrackedAreAll, [Next]_vars, app' # "crashed",
                      NEW q \in Pids, NEW r \in chain', r.pid = q, r.kind = "block",
                      r \in chain => q \in blocked
               PROVE  q \in blocked'
    BY DEF Hidden, BlockRules
  <2>2. ASSUME NEW p \in Pids, BlockPid(p) PROVE q \in blocked'
    BY <2>2, BlockStep DEF Rewrites
  <2>3. ASSUME NEW p \in Pids, UnblockPid(p) PROVE q \in blocked'
    <3>1. q \in blocked
      BY <2>3, UnblockStep
    <3>2. CASE blocked' = blocked
      BY <3>1, <3>2
    <3>3. CASE blocked' # blocked
      <4>1. blocked' = blocked \ {p}
        BY <2>3, <3>3, UnblockStep
      <4>2. q # p
        BY <2>3, <3>3, UnblockOkLeavesNone DEF BlockRules
      <4>3. QED
        BY <3>1, <4>1, <4>2
    <3>4. QED
      BY <3>2, <3>3
  <2>4. ASSUME NEW p \in Pids, LimitPid(p) PROVE q \in blocked'
    <3>1. r \in chain
      BY <2>4, LimitStep DEF Rewrites
    <3>2. QED
      BY <2>4, <3>1 DEF LimitPid
  <2>5. ~CleanExit
    BY DEF CleanExit, unblock_all, NoTableNoRules
  <2>6. CASE Crash
    BY <2>6 DEF Crash
  <2>7. CASE Start
    BY <2>7 DEF Start, memory
  <2>8. ~AdminReset
    <3>1. ~(chain' \subseteq ForeignRules)
      BY DEF ForeignRules
    <3>2. QED
      BY <3>1 DEF AdminReset
  <2>9. CASE \E p \in Pids : Spawn(p) \/ Terminate(p)
    BY <2>9 DEF Spawn, Terminate, kernel, memory
  <2>10. CASE \E x \in Ports : Close(x) \/ \E p \in Pids : Bind(p, x)
    BY <2>10 DEF Close, Bind, kernel, memory
  <2>11. CASE UNCHANGED vars
    BY <2>11 DEF vars, kernel, memory
  <2>12. QED
    BY <2>2, <2>3, <2>4, <2>5, <2>6, <2>7, <2>8, <2>9, <2>10, <2>11 DEF Next
<1>2. QED
  BY <1>1, TypeCorrect, NoTableInvariant, TrackedAll, PTL DEF Spec, OnlyCrashHidesRules

=============================================================================
