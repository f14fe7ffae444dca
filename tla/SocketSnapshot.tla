--------------------------- MODULE SocketSnapshot ---------------------------
(***************************************************************************)
(* What a refresh of the resolver cache promises, whatever it reads in     *)
(* which order and whichever source it ends up with.                       *)
(*                                                                         *)
(* The cache is replaced at once by a regular snapshot: it has every       *)
(* socket whose fds did not change since the refresh began, with a true    *)
(* owner unless an fd of it could not be read, and nothing that nobody     *)
(* held in that time.  A refresh that fails leaves the cache alone.        *)
(***************************************************************************)

CONSTANTS
    Inodes,    \* sockets
    Pids,      \* processes
    Unknown    \* no owner found

VARIABLES
    holders,   \* the processes that have an fd of each socket
    reading,   \* a refresh is under way
    window,    \* the processes that had an fd of each socket since it began
    steady,    \* the sockets open with the same fds since it began
    hidden,    \* the sockets with an fd that it could not read
    entries,   \* the sockets in the cache
    owner      \* their owners

vars == <<holders, reading, window, steady, hidden, entries, owner>>

Nowhere == [i \in Inodes |-> {}]
Held(h) == {i \in Inodes : h[i] # {}}

Init ==
    /\ holders = Nowhere
    /\ reading = FALSE
    /\ window = Nowhere
    /\ steady = {}
    /\ hidden = {}
    /\ entries = {}
    /\ owner = [i \in Inodes |-> Unknown]

\* The fds of one socket change.
Change(i, ps) ==
    /\ holders' = [holders EXCEPT ![i] = ps]
    /\ window' = IF reading THEN [window EXCEPT ![i] = @ \cup ps] ELSE window
    /\ steady' = steady \ {i}
    /\ UNCHANGED <<reading, hidden, entries, owner>>

Begin ==
    /\ ~reading
    /\ reading' = TRUE
    /\ window' = holders
    /\ steady' = Held(holders)
    /\ UNCHANGED <<holders, hidden, entries, owner>>

\* Some fds of these sockets cannot be read.
Hide(sockets) ==
    /\ reading
    /\ hidden' = hidden \cup sockets
    /\ UNCHANGED <<holders, reading, window, steady, entries, owner>>

Over == reading' = FALSE /\ window' = Nowhere /\ steady' = {} /\ hidden' = {}

Fail ==
    /\ reading
    /\ Over
    /\ UNCHANGED <<holders, entries, owner>>

\* The fds of a steady socket are those the processes have now.
Replace ==
    /\ reading
    /\ Over
    /\ entries' \in SUBSET Held(window)
    /\ owner' \in [Inodes -> Pids \cup {Unknown}]
    /\ steady \subseteq entries'
    /\ \A i \in Inodes : owner'[i] \in window[i] \cup {Unknown}
    /\ \A i \in steady \ hidden : owner'[i] \in holders[i]
    /\ \A i \in Inodes \ entries' : owner'[i] = Unknown
    /\ UNCHANGED holders

Next ==
    \/ \E i \in Inodes, ps \in SUBSET Pids : Change(i, ps)
    \/ \E sockets \in SUBSET Inodes : Hide(sockets)
    \/ Begin \/ Fail \/ Replace

Spec == Init /\ [][Next]_vars

=============================================================================
