------------------------------ MODULE SaveStore ------------------------------
(***************************************************************************)
(* What the save manager promises to a game: a store of saves that keeps   *)
(* of each the data last committed.  A commit happens at once or not at    *)
(* all, it goes to the save that its game state is of, and only commits    *)
(* that have not happened yet are forgotten when the process dies.  Of a   *)
(* save that the game has deleted nothing more is promised.                *)
(***************************************************************************)
EXTENDS Naturals

CONSTANTS
    Saves,      \* the names a save can have
    States      \* the game states of one run of the process

VARIABLES
    content,    \* the commit that whoever loads a save finds, 0 if there is none
    removed,    \* the saves that have been deleted
    bound,      \* the save a game state is of, "new" or "unused"
    begun,      \* how many commits have been begun
    open        \* those that have not happened, with their game states

vars == <<content, removed, bound, begun, open>>

Init ==
    /\ content = [s \in Saves |-> 0]
    /\ removed = {}
    /\ bound = [o \in States |-> "unused"]
    /\ begun = 0
    /\ open = {}

Create(o) ==
    /\ bound[o] = "unused"
    /\ bound' = [bound EXCEPT ![o] = "new"]
    /\ UNCHANGED <<content, removed, begun, open>>

\* What is loaded has been committed.
Load(o, s) ==
    /\ bound[o] = "unused"
    /\ content[s] # 0 \/ s \in removed
    /\ bound' = [bound EXCEPT ![o] = s]
    /\ UNCHANGED <<content, removed, begun, open>>

Begin(o) ==
    /\ bound[o] \in Saves \union {"new"}
    /\ begun' = begun + 1
    /\ open' = open \union {<<o, begun + 1>>}
    /\ UNCHANGED <<content, removed, bound>>

\* The first commit of a new game state makes a save of its own.
Commit(o, c, s) ==
    /\ <<o, c>> \in open
    /\ IF bound[o] = "new" THEN content[s] = 0 /\ s \notin removed ELSE s = bound[o]
    /\ bound' = [bound EXCEPT ![o] = s]
    /\ content' = IF s \in removed THEN content ELSE [content EXCEPT ![s] = c]
    /\ open' = open \ {<<o, c>>}
    /\ UNCHANGED <<removed, begun>>

Fail(o, c) ==
    /\ <<o, c>> \in open
    /\ open' = open \ {<<o, c>>}
    /\ UNCHANGED <<content, removed, bound, begun>>

Delete(o) ==
    /\ bound[o] \in Saves
    /\ removed' = removed \union {bound[o]}
    /\ content' = [content EXCEPT ![bound[o]] = 0]
    /\ UNCHANGED <<bound, begun, open>>

Restart ==
    /\ bound' = [o \in States |-> "unused"]
    /\ open' = {}
    /\ UNCHANGED <<content, removed, begun>>

Next ==
    \/ \E o \in States :
          \/ Create(o) \/ Begin(o) \/ Delete(o)
          \/ \E s \in Saves : Load(o, s)
          \/ \E c \in 1 .. begun : Fail(o, c) \/ \E s \in Saves : Commit(o, c, s)
    \/ Restart

Spec == Init /\ [][Next]_vars
=============================================================================
