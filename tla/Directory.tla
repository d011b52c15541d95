----------------------------- MODULE Directory ------------------------------
(***************************************************************************)
(* What the database promises about identities, without seeds, opaque ids, *)
(* older tables or processes.  A subject that is known has one account: a  *)
(* number, which is nobody else's and stays, and a role, which is reporter *)
(* until another is given.  No account is ever lost.                       *)
(***************************************************************************)
CONSTANTS Subjects, Roles

VARIABLE accounts   \* of each subject: {} or {[id |-> number, role |-> role]}

Numbers(s) == {a.id : a \in accounts[s]}

\* The subjects of an older database are known from the start, as reporters.
Init ==
  /\ DOMAIN accounts = Subjects
  /\ \A s \in Subjects :
       accounts[s] # {} => \E a \in accounts[s] :
                             accounts[s] = {[id |-> a.id, role |-> "reporter"]}
  /\ \A s, t \in Subjects : s # t => Numbers(s) \cap Numbers(t) = {}

Enrol(s) ==
  /\ accounts[s] = {}
  /\ \E a \in accounts'[s] :
       /\ \A t \in Subjects : a.id \notin Numbers(t)
       /\ accounts' = [accounts EXCEPT ![s] = {[id |-> a.id, role |-> "reporter"]}]

Assign(s, role) ==
  \E a \in accounts[s] :
    accounts' = [accounts EXCEPT ![s] = {[id |-> a.id, role |-> role]}]

Next == \E s \in Subjects : Enrol(s) \/ \E role \in Roles : Assign(s, role)

Spec == Init /\ [][Next]_accounts
=============================================================================
