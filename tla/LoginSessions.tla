---------------------------- MODULE LoginSessions ----------------------------
(***************************************************************************)
(* What login, refresh, logout and the removal of members promise about a  *)
(* login session, whatever requests overlap: a session is opened once,     *)
(* stays open while its tokens are exchanged one generation after the      *)
(* other, is closed, and is never opened again.  When a session counts as  *)
(* closed is for the module that implements this one to say: Logins closes *)
(* it when its token is gone and no exchange of it is under way.  A        *)
(* session is what the refresh_tokens table calls a family.                *)
(***************************************************************************)
EXTENDS Naturals

CONSTANT Families

VARIABLES
    open,          \* the sessions in which a new token can still be obtained
    generations    \* the generations of the tokens handed out in each session

vars == <<open, generations>>

Init ==
    /\ open = {}
    /\ generations = [f \in Families |-> {}]

Open(f) ==
    /\ f \notin open /\ generations[f] = {}
    /\ open' = open \cup {f}
    /\ generations' = [generations EXCEPT ![f] = {1}]

Renew(f) ==
    /\ f \in open
    /\ \E g \in generations[f] :
          generations' = [generations EXCEPT ![f] = generations[f] \cup {g + 1}]
    /\ UNCHANGED open

\* One session at a logout, all sessions of a member who is removed.
Close(closed) ==
    /\ open' = open \ closed
    /\ UNCHANGED generations

Next ==
    \/ \E f \in Families : Open(f) \/ Renew(f)
    \/ \E closed \in SUBSET open : Close(closed)

Spec == Init /\ [][Next]_vars
=============================================================================
