-------------------------- MODULE ApprovalProtocol --------------------------
(***************************************************************************)
(* What an organization and a client are promised about the sign-off of a  *)
(* milestone: work is submitted in rounds, the one who is the client of    *)
(* the project at that moment decides a round at most once, the approval   *)
(* of the last round ends the rounds, and a closed project stands still.   *)
(* ProjectLifecycle implements it.                                         *)
(***************************************************************************)
EXTENDS Naturals, Sequences

CONSTANTS
    Milestones,
    Users,      \* the people who may become clients
    NoUser

VARIABLES
    open,    \* by milestone: it is created, in a project open to mutation
    client,  \* by milestone: the client of its project
    stage,   \* by milestone: where the protocol is
    rounds   \* by milestone: the decisions on each of its submissions

vars == <<open, client, stage, rounds>>

Stages == {"work", "review", "sentBack", "approved", "completed", "cancelled"}

Decision == [kind : {"approved", "changes_requested"}, by : Users]

TypeOK ==
    /\ open \in [Milestones -> BOOLEAN]
    /\ client \in [Milestones -> Users \cup {NoUser}]
    /\ stage \in [Milestones -> Stages]
    /\ rounds \in [Milestones -> Seq(SUBSET Decision)]

Init ==
    /\ open = [m \in Milestones |-> FALSE]
    /\ client = [m \in Milestones |-> NoUser]
    /\ stage = [m \in Milestones |-> "work"]
    /\ rounds = [m \in Milestones |-> <<>>]

\* Projects are frozen and restored, created, deleted and reassigned.
ChangeProjects ==
    /\ open' \in [Milestones -> BOOLEAN]
    /\ client' \in [Milestones -> Users \cup {NoUser}]
    /\ UNCHANGED <<stage, rounds>>

Move(m, from, to) ==
    /\ open[m]
    /\ stage[m] \in from
    /\ stage' = [stage EXCEPT ![m] = to]

\* A submission opens a round, for the project's client to decide.
Submit(m) ==
    /\ Move(m, {"work", "sentBack"}, "review")
    /\ client[m] # NoUser
    /\ rounds' = [rounds EXCEPT ![m] = Append(@, {})]
    /\ UNCHANGED <<open, client>>

\* The project's client, and nobody else, decides the round under review.
Decide(m, kind) ==
    /\ Move(m, {"review"}, IF kind = "approved" THEN "approved" ELSE "sentBack")
    /\ client[m] # NoUser
    /\ rounds[m] # <<>>
    /\ rounds[m][Len(rounds[m])] = {}
    /\ rounds' = [rounds EXCEPT ![m][Len(rounds[m])] =
            {[kind |-> kind, by |-> client[m]]}]
    /\ UNCHANGED <<open, client>>

\* Staff takes a submission back, or takes up what was sent back.
Resume(m) ==
    /\ Move(m, {"review", "sentBack"}, "work")
    /\ UNCHANGED <<open, client, rounds>>

Complete(m) ==
    /\ Move(m, {"approved"}, "completed")
    /\ UNCHANGED <<open, client, rounds>>

Cancel(m) ==
    /\ Move(m, {"work", "review", "sentBack"}, "cancelled")
    /\ UNCHANGED <<open, client, rounds>>

Next ==
    \/ ChangeProjects
    \/ \E m \in Milestones :
        \/ Submit(m)
        \/ \E kind \in {"approved", "changes_requested"} : Decide(m, kind)
        \/ Resume(m)
        \/ Complete(m)
        \/ Cancel(m)

Spec == Init /\ [][Next]_vars
=============================================================================
