------------------------------- MODULE Proposals -------------------------------
(***************************************************************************)
(* Projects and how they come to be: created by an administrator, or from  *)
(* a hunter's proposal that a reviewer approves.  A decision creates the   *)
(* project, assigns the applicant as its hunter, and then marks the        *)
(* proposal, in three separate writes.  Also the hunters of a project,     *)
(* assigned or invited.                                                    *)
(***************************************************************************)
EXTENDS Integers, Sequences, FiniteSetsExt

CONSTANTS Users, NoUser, Names, Deciders, MaxProposals

VARIABLES
  scene, roles, account,
  projects,   \* the owner of the project of each canonical name, NoUser if none
  origin,     \* the proposal a project was made from, 0 if none
  hunting,    \* ProjectHunter rows: <<name, user>>
  invites,    \* the status of the invitation of a user to a project
  proposals,  \* ProjectProposal rows; status "gone" once deleted with the applicant
  deciding    \* calls between two writes

catalogue == <<projects, origin, hunting, invites, proposals>>

Roles(u) == roles[u] \cup (IF roles[u] \cap {"owner", "dev"} # {} THEN {"admin"} ELSE {})
Allowed(u, needed) == account[u] = "active" /\ Roles(u) \cap needed # {}
Exists(name) == projects[name] # NoUser

NoDecision == [pc |-> "idle", index |-> 0, verdict |-> "none", user |-> NoUser, name |-> CHOOSE n \in Names : TRUE]
MayDecide(c) ==
  /\ "proposals" \in scene /\ deciding[c] = NoDecision
  /\ "overlap_decisions" \in scene \/ \A o \in Deciders : deciding[o] = NoDecision
Release(c) == deciding' = [deciding EXCEPT ![c] = NoDecision]

\* assertNoCanonicalConflict and the unique columns behind it: one project of
\* a name.
AddProject(owner, name, from) ==
  /\ projects' = [projects EXCEPT ![name] = owner]
  /\ origin' = [origin EXCEPT ![name] = from]

CreateDirectly(u, name) ==
  /\ "proposals" \in scene /\ Allowed(u, {"owner", "admin"}) /\ ~Exists(name)
  /\ AddProject(u, name, 0)
  /\ UNCHANGED <<hunting, invites, proposals, deciding>>

Propose(u, name) ==
  /\ "proposals" \in scene /\ Len(proposals) < MaxProposals
  /\ Allowed(u, {"owner", "admin", "hunter"}) /\ ~Exists(name)
  /\ \A i \in 1..Len(proposals) :
       ~(proposals[i].by = u /\ proposals[i].name = name /\ proposals[i].status = "pending")
  /\ proposals' = Append(proposals, [by |-> u, name |-> name, status |-> "pending"])
  /\ UNCHANGED <<projects, origin, hunting, invites, deciding>>

Decidable(i) == proposals[i].status = "pending"

BeginDecision(c, u, i, verdict) ==
  /\ MayDecide(c) /\ Allowed(u, {"owner", "admin"}) /\ Decidable(i)
  /\ deciding' = [deciding EXCEPT ![c] =
       [NoDecision EXCEPT !.pc = IF verdict = "approved" THEN "create" ELSE "mark",
                          !.index = i, !.verdict = verdict]]
  /\ UNCHANGED catalogue

\* createProjectForUser: a conflict ends the call.
CreateFromProposal(c) ==
  LET i == deciding[c].index  p == proposals[i] IN
  /\ deciding[c].pc = "create"
  /\ IF Exists(p.name) \/ account[p.by] = "gone"
     THEN Release(c) /\ UNCHANGED <<projects, origin>>
     ELSE /\ AddProject(p.by, p.name, i)
          /\ deciding' = [deciding EXCEPT ![c].pc = "assign"]
  /\ UNCHANGED <<hunting, invites, proposals>>

AssignApplicant(c) ==
  LET p == proposals[deciding[c].index] IN
  /\ deciding[c].pc = "assign"
  /\ hunting' = hunting \cup {<<p.name, p.by>>}
  /\ deciding' = [deciding EXCEPT ![c].pc = "mark"]
  /\ UNCHANGED <<projects, origin, invites, proposals>>

MarkProposal(c) ==
  LET i == deciding[c].index IN
  /\ deciding[c].pc = "mark"
  /\ proposals' = IF proposals[i].status = "gone" THEN proposals
                  ELSE [proposals EXCEPT ![i].status = deciding[c].verdict]
  /\ Release(c) /\ UNCHANGED <<projects, origin, hunting, invites>>

\* The owner of a project, or of the platform, assigns or invites a hunter.
Manages(u, name) == Allowed(u, {"owner", "admin"}) /\ ("owner" \in roles[u] \/ projects[name] = u)

AssignHunter(u, name, hunter) ==
  /\ "proposals" \in scene /\ Exists(name) /\ Manages(u, name) /\ "hunter" \in roles[hunter]
  /\ hunting' = hunting \cup {<<name, hunter>>}
  /\ UNCHANGED <<projects, origin, invites, proposals, deciding>>

InviteHunter(u, name, hunter) ==
  /\ "proposals" \in scene /\ "invites" \in scene
  /\ Exists(name) /\ Manages(u, name) /\ "hunter" \in roles[hunter]
  /\ invites' = [invites EXCEPT ![name][hunter] = "pending"]
  /\ UNCHANGED <<projects, origin, hunting, proposals, deciding>>

\* The invited hunter answers, at any time and more than once; an acceptance is
\* written before the assignment.
Respond(c, u, name, answer) ==
  /\ MayDecide(c) /\ account[u] = "active" /\ invites[name][u] # "none"
  /\ invites' = [invites EXCEPT ![name][u] = answer]
  /\ deciding' = IF answer = "accepted"
                 THEN [deciding EXCEPT ![c] =
                        [NoDecision EXCEPT !.pc = "join", !.user = u, !.name = name]]
                 ELSE deciding
  /\ UNCHANGED <<projects, origin, hunting, proposals>>

Joined_Nobody(c) == hunting
Joined(c) == hunting \cup {<<deciding[c].name, deciding[c].user>>}

JoinProject(c) ==
  /\ deciding[c].pc = "join"
  /\ hunting' = IF account[deciding[c].user] = "gone" THEN hunting ELSE Joined(c)
  /\ Release(c) /\ UNCHANGED <<projects, origin, invites, proposals>>

DecisionError(c) ==
  /\ "decision_error" \in scene /\ deciding[c] # NoDecision
  /\ Release(c) /\ UNCHANGED catalogue

-------------------------------------------------------------------------------
ProposalsInit ==
  /\ projects = [n \in Names |-> NoUser] /\ origin = [n \in Names |-> 0]
  /\ hunting = {} /\ invites = [n \in Names |-> [u \in Users |-> "none"]]
  /\ proposals = <<>> /\ deciding = [c \in Deciders |-> NoDecision]

ProposalStep ==
  \/ \E c \in Deciders :
       \/ CreateFromProposal(c) \/ AssignApplicant(c) \/ MarkProposal(c)
       \/ JoinProject(c) \/ DecisionError(c)
       \/ \E u \in Users :
            \/ \E i \in 1..Len(proposals), verdict \in {"approved", "rejected"} :
                 BeginDecision(c, u, i, verdict)
            \/ \E name \in Names, answer \in {"accepted", "rejected"} : Respond(c, u, name, answer)
  \/ \E u \in Users, name \in Names :
       \/ CreateDirectly(u, name) \/ Propose(u, name)
       \/ \E h \in Users : AssignHunter(u, name, h) \/ InviteHunter(u, name, h)

\* The rows of a profile that is deleted go with it.
ProposalsCascade ==
  LET gone(u) == account'[u] = "gone" IN
  /\ hunting' = {row \in hunting : ~gone(row[2])}
  /\ invites' = [n \in Names |-> [u \in Users |-> IF gone(u) THEN "none" ELSE invites[n][u]]]
  /\ proposals' = [i \in 1..Len(proposals) |->
       IF gone(proposals[i].by) THEN [proposals[i] EXCEPT !.status = "gone"] ELSE proposals[i]]
  /\ UNCHANGED <<projects, origin, deciding>>

ProposalsTypeOK ==
  /\ projects \in [Names -> Users \cup {NoUser}] /\ origin \in [Names -> 0..Len(proposals)]
  /\ hunting \subseteq Names \X Users
  /\ invites \in [Names -> [Users -> {"none", "pending", "accepted", "rejected"}]]
  /\ \A i \in 1..Len(proposals) :
       proposals[i] \in [by : Users, name : Names, status : {"pending", "approved", "rejected", "gone"}]
  /\ deciding \in [Deciders -> [pc : {"idle", "create", "assign", "mark", "join"},
                                index : 0..Len(proposals),
                                verdict : {"none", "approved", "rejected"},
                                user : Users \cup {NoUser}, name : Names]]
===============================================================================
