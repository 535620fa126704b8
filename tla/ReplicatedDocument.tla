-------------------------- MODULE ReplicatedDocument --------------------------
(* What a document on several nodes promises: records are written once, each *)
(* after one that is there; a node that holds the document has a history of  *)
(* it, which it only ever continues unless it starts anew; and once a node   *)
(* takes the history for closed, at a record that may close it, it goes on   *)
(* with anchors only.  How a node comes to the longer history, and which of  *)
(* the nodes take a record that may close for one that does, is left to      *)
(* DocumentSync.                                                             *)
EXTENDS Naturals, Sequences

CONSTANTS
    Nodes,      \* the processes that hold the document
    Records,    \* the records that may ever be written
    Anchors,    \* those that anchor another one
    Closing,    \* those that may close a document
    Genesis,    \* the first record
    None        \* no record

VARIABLES
    tree,       \* what each record that was written points back to
    replica     \* the history each node has, and whether it takes it for closed

Blank == [history |-> <<Genesis>>, closed |-> FALSE]

Init ==
    /\ tree = [r \in Records |-> None]
    /\ replica = [n \in Nodes |-> Blank]

\* A history starts at the first record and follows the tree from there.
Follows(history) ==
    /\ Len(history) > 0
    /\ history[1] = Genesis
    /\ \A i \in 1 .. (Len(history) - 1) : tree[history[i + 1]] = history[i]

OnlyAnchorsAfter(history, i) ==
    \A k \in DOMAIN history : k > i => history[k] \in Anchors

\* A history that is taken for closed has a record that may have closed it.
Justified(later) ==
    later.closed =>
        \E i \in DOMAIN later.history :
            later.history[i] \in Closing /\ OnlyAnchorsAfter(later.history, i)

Continued(earlier, later) ==
    /\ Len(earlier.history) <= Len(later.history)
    /\ \A i \in DOMAIN earlier.history : later.history[i] = earlier.history[i]
    /\ earlier.closed =>
        later.closed /\ OnlyAnchorsAfter(later.history, Len(earlier.history))

Write(r, p) ==
    /\ r # Genesis /\ tree[r] = None
    /\ p = Genesis \/ tree[p] # None
    /\ tree' = [tree EXCEPT ![r] = p]
    /\ UNCHANGED replica

\* Node n takes over a longer history, whichever it is.
Continue(n) ==
    /\ Follows(replica'[n].history) /\ Justified(replica'[n])
    /\ Continued(replica[n], replica'[n])
    /\ replica' = [replica EXCEPT ![n] = replica'[n]]
    /\ UNCHANGED tree

StartAnew(n) ==
    /\ replica' = [replica EXCEPT ![n] = Blank]
    /\ UNCHANGED tree

Next ==
    \/ \E r, p \in Records : Write(r, p)
    \/ \E n \in Nodes : Continue(n) \/ StartAnew(n)

Spec == Init /\ [][Next]_<<tree, replica>>
=============================================================================
