------------------------------- MODULE Access -------------------------------
(***************************************************************************)
(* Requests of authenticated users, composed with Startup.  The middleware *)
(* resolves the subject and keeps the row it got, its role included, in    *)
(* the request's context; the handler later reads role_permissions for     *)
(* that role.  Between the two, administrators give roles, operators edit  *)
(* the table, processes open the database and migrate it, or stop.         *)
(***************************************************************************)
EXTENDS Startup

CONSTANTS Needed,       \* the permission of the endpoint that is called
          MaxRequests   \* bound on the requests under way

ASSUME RequestsAssumption == MaxRequests \in Nat

VARIABLES requests      \* requests between the middleware and their answer

accessVars == <<vars, requests>>

RolesAllowed(table) == {role \in Roles : <<role, Needed>> \in table}

\* held and allowed are history: the roles the subject had, and the roles
\* that had the permission, at some moment since the request came.
Request == [id : Nat, by : Processes, subject : Subjects, user : Nat, role : Roles,
            phase : {"resolved", "allowed"},
            held : SUBSET Roles, allowed : SUBSET Roles]

AccessInit == Init /\ requests = {}

\* What the history of the requests rs becomes with a step.
Observed(rs) ==
  {[r EXCEPT !.held = @ \cup {assigned'[r.subject]},
             !.allowed = @ \cup RolesAllowed(grants')] : r \in rs}

-----------------------------------------------------------------------------
\* A step of Startup; the requests of a process that stops end with it.
StartupStep ==
  /\ Next
  /\ requests' = Observed({r \in requests : pc'[r.by] = "open"})

\* Mutant of Authenticate: the role is the one of the request before it.
AuthenticateEarlier(p, s) ==
  /\ Cardinality(requests) < MaxRequests
  /\ ResolveUser(p, s)
  /\ session[p].user # 0
  /\ requests' = Observed(requests) \cup
       {[id |-> CHOOSE i \in 1 .. MaxRequests : \A r \in requests : r.id # i,
         by |-> p, subject |-> s, user |-> session'[p].user,
         role |-> users[session[p].user].role, phase |-> "resolved",
         held |-> {assigned'[s]}, allowed |-> RolesAllowed(grants')]}

\* Middleware: the role is the one the upsert returns.
Authenticate(p, s) ==
  /\ Cardinality(requests) < MaxRequests
  /\ ResolveUser(p, s)
  /\ requests' = Observed(requests) \cup
       {[id |-> CHOOSE i \in 1 .. MaxRequests : \A r \in requests : r.id # i,
         by |-> p, subject |-> s, user |-> session'[p].user,
         role |-> users'[session'[p].user].role, phase |-> "resolved",
         held |-> {assigned'[s]}, allowed |-> RolesAllowed(grants')]}

\* require: HasPermission reads the table for the role of the context.
Require(r) ==
  /\ r.phase = "resolved"
  /\ <<r.role, Needed>> \in grants
  /\ requests' = (requests \ {r}) \cup {[r EXCEPT !.phase = "allowed"]}
  /\ UNCHANGED vars

\* 403, or 500 when the table could not be read; or the handler's own answer.
Answer(r) ==
  /\ requests' = requests \ {r}
  /\ UNCHANGED vars

AccessNext ==
  \/ StartupStep
  \/ \E p \in Processes, s \in Subjects : Authenticate(p, s)
  \/ \E r \in requests : Require(r) \/ Answer(r)

AccessSpec == AccessInit /\ [][AccessNext]_accessVars

-----------------------------------------------------------------------------
\* The types of Startup's variables and of the requests.
AccessTypeOK == TypeOK /\ requests \subseteq Request

\* db.go:21 "the running app always reads the table": a request is let through
\* only by a role that its own subject had, and that the table gave the
\* permission, while the request was under way, and it acts as the subject's row:
\* no migration, restart, other login or edit lets an older role through.
LetThroughByTheTable ==
  \A r \in requests :
     r.phase = "allowed" => /\ r.role \in r.held \cap r.allowed
                            /\ users[r.user].owner = r.subject
=============================================================================
