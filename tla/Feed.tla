--------------------------------- MODULE Feed --------------------------------
(***************************************************************************)
(* What a dashboard may rely on when it opens /ws, with no hub, no buffers *)
(* and no goroutines.  Snapshots are numbered in the order the poller      *)
(* collects them.  A viewer gets at most one greeting, before any update,  *)
(* and then updates that move strictly forward; snapshots may be skipped.  *)
(* Nothing else is promised: the first update may even be older than the   *)
(* greeting, because the two travel separately.                            *)
(***************************************************************************)
EXTENDS Naturals

CONSTANTS Clients, MaxPolls

VARIABLES
    polled,     \* the number of snapshots collected
    greeting,   \* of each viewer: the snapshot it was greeted with, 0 for none
    cursor      \* of each viewer: the last update it got, 0 for none

feedVars == <<polled, greeting, cursor>>

FeedInit ==
    /\ polled = 0
    /\ greeting = [c \in Clients |-> 0]
    /\ cursor = [c \in Clients |-> 0]

Collect ==
    /\ polled < MaxPolls
    /\ polled' = polled + 1
    /\ UNCHANGED <<greeting, cursor>>

\* one frame: the greeting, an update, or both; the last update counts
Receive(c) ==
    \E g \in 0..polled, u \in cursor[c]..polled :
        /\ g # greeting[c] => greeting[c] = 0 /\ cursor[c] = 0
        /\ greeting' = [greeting EXCEPT ![c] = g]
        /\ cursor' = [cursor EXCEPT ![c] = u]
        /\ UNCHANGED polled

FeedNext == Collect \/ \E c \in Clients : Receive(c)

FeedSpec == FeedInit /\ [][FeedNext]_feedVars
=============================================================================
