------------------------------ MODULE MCSessions ------------------------------
(***************************************************************************)
(* Sessions for TLC.  All fourteen operations at once are beyond it: each  *)
(* behaviour draws its requests from one group of operations that meet in  *)
(* the same rows, chosen at the start.                                     *)
(***************************************************************************)
EXTENDS Sessions, TLC

VARIABLE group

Groups == {
    {"googleAuth", "refresh", "logoutAll", "logout"},
    {"googleAuth", "refresh", "deactivate"},
    {"googleAuth", "deactivate", "reactivate"},
    {"googleAuth", "reviewDriver"},
    {"register", "login"},
    {"register", "changePassword"},
    {"register", "forgotPassword", "resetPassword"},
    {"register", "verifyEmail", "resendVerification"}}

MCInit == Init /\ group \in Groups

MCNext ==
    /\ \/ \E r \in Reqs : Request(r) \/ Step(r) \/ Abandon(r)
       \/ Tick \/ Expire \/ expiredTokens
    /\ group' = group

MCSpec == MCInit /\ [][MCNext]_<<vars, group>>

InGroup == \A r \in Reqs : req'[r].op \in group \cup {"idle"}

Symmetry == Permutations(Reqs) \cup Permutations(Tokens) \cup Permutations(Links)
              \cup Permutations(Passwords)

\* No action reads the audit log.
Unaudited == <<account, row, owner, age, marker, failures, link, req, ended, cut, group>>
===============================================================================
