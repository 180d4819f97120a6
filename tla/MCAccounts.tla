------------------------------ MODULE MCAccounts ------------------------------
(* Instances of Accounts: accounts and requests are interchangeable.          *)
EXTENDS Accounts, TLC

\* One part at a time, and a request that activates and unbans at once.
MCUpdates ==
    {[NoUpdate EXCEPT !.role = r] : r \in {"admin", "user"}}
        \cup {[NoUpdate EXCEPT !.active = a] : a \in {"yes", "no"}}
        \cup {[NoUpdate EXCEPT !.ban = b] : b \in {"yes", "no"}}
        \cup {[NoUpdate EXCEPT !.active = "no", !.ban = "yes"]}

Symmetry == Permutations(Users) \cup Permutations(Procs)
=============================================================================
