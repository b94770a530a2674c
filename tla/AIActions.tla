------------------------------ MODULE AIActions ------------------------------
(***************************************************************************)
(* application/services/ai_management_service.py and                        *)
(* action_review_service.py with the ai-tools and ai-actions routes: a      *)
(* destructive tool call becomes a pending action that its member reviews   *)
(* and confirms later, from another request.  Between proposal, review and  *)
(* confirmation the target, the member's role and the tool policy may       *)
(* change.  A target is a space, an item or the settings draft base, with   *)
(* a revision that every change raises.                                     *)
(***************************************************************************)
EXTENDS Naturals

CONSTANTS Principals,   \* records: member, kind ("session", "api_key"), cred
          Targets, Proposals, Confirmations,
          MaxRevision   \* bound

ASSUME ActionsAssumption == MaxRevision \in Nat

VARIABLES revision,   \* revision[t] of the target
          may,        \* may[m]: the targets the member's role lets it change
          policy,     \* runtime policy: mutation tools, confirmation required
          action,     \* pending_ai_actions
          confirm     \* confirmation requests under way

actionVars == <<revision, may, policy, action, confirm>>

Members == {p.member : p \in Principals}
Unproposed == [state |-> "none"]
Waiting == [pc |-> "idle"]

ActionsInit == /\ revision = [t \in Targets |-> 1]
               /\ may = [m \in Members |-> Targets]
               /\ policy = [mutation |-> TRUE, confirmation |-> TRUE]
               /\ action = [a \in Proposals |-> Unproposed]
               /\ confirm = [c \in Confirmations |-> Waiting]

\* _validate_proposal: the caller has read the revision the target has now and
\* may change it.
Valid(p, t, expected) == expected = revision[t] /\ t \in may[p.member]

Proposed(p, t, expected, state) ==
  [state |-> state, by |-> p, target |-> t, expected |-> expected, fresh |-> TRUE,
   moved |-> FALSE, ran |-> 0]

\* A tool call that must be confirmed, or may not run directly.
Propose(p, a, t, expected) ==
  /\ action[a] = Unproposed
  /\ policy.mutation
  /\ policy.confirmation \/ p.kind # "session"
  /\ Valid(p, t, expected)
  /\ action' = [action EXCEPT ![a] = Proposed(p, t, expected, "pending")]
  /\ UNCHANGED <<revision, may, policy, confirm>>

Unmoved_Unchecked(t, expected) == TRUE

\* "The space changed after this action was proposed.", and expected_version.
Unmoved(t, expected) == revision[t] = expected

Changed(t) == /\ revision[t] < MaxRevision
              /\ revision' = [revision EXCEPT ![t] = @ + 1]

\* With confirmations switched off a session proposes and executes at once.
ExecuteDirectly(p, a, t, expected) ==
  /\ action[a] = Unproposed
  /\ policy.mutation /\ ~policy.confirmation /\ p.kind = "session"
  /\ Valid(p, t, expected) /\ Unmoved(t, expected)
  /\ Changed(t)
  /\ action' = [action EXCEPT ![a] = [Proposed(p, t, expected, "executed") EXCEPT !.ran = revision[t]]]
  /\ UNCHANGED <<may, policy, confirm>>

Lapse(a) == /\ action[a].state = "pending" /\ action[a].fresh
            /\ action' = [action EXCEPT ![a].fresh = FALSE]
            /\ UNCHANGED <<revision, may, policy, confirm>>

-----------------------------------------------------------------------------
\* review_pending_action shows the member the target as it is now, not as it was
\* when the action was proposed; moved: it was shown another revision.
Review(p, a) ==
  /\ action[a].state = "pending" /\ p.member = action[a].by.member
  /\ action' = [action EXCEPT ![a].moved = @ \/ revision[action[a].target] # action[a].expected]
  /\ UNCHANGED <<revision, may, policy, confirm>>

\* The route reads the policy before the action is locked.
AskToConfirm(c, p, a) ==
  /\ confirm[c] = Waiting /\ action[a] # Unproposed
  /\ confirm' = [confirm EXCEPT ![c] = [pc |-> "asked", by |-> p, action |-> a, enabled |-> policy.mutation]]
  /\ UNCHANGED <<revision, may, policy, action>>

\* The member's own action; a key confirms only what that key proposed.
MayConfirm(p, proposal) ==
  /\ p.member = proposal.by.member
  /\ p.kind = "api_key" => proposal.by.kind = "api_key" /\ proposal.by.cred = p.cred

StillPending(proposal) == proposal.state = "pending" /\ proposal.fresh

\* confirm_and_execute holds the action and the target locked to its commit,
\* and the executing service authorizes the member again.
ConfirmAndExecute(c) ==
  LET r == confirm[c]
      proposal == action[confirm[c].action]
  IN /\ r.pc = "asked" /\ r.enabled
     /\ MayConfirm(r.by, proposal) /\ StillPending(proposal)
     /\ Unmoved(proposal.target, proposal.expected) /\ proposal.target \in may[r.by.member]
     /\ Changed(proposal.target)
     /\ action' = [action EXCEPT ![r.action].state = "executed",
                                 ![r.action].ran = revision[proposal.target]]
     /\ confirm' = [confirm EXCEPT ![c] = Waiting]
     /\ UNCHANGED <<may, policy>>

RefuseConfirmation(c) == /\ confirm[c] # Waiting
                         /\ confirm' = [confirm EXCEPT ![c] = Waiting]
                         /\ UNCHANGED <<revision, may, policy, action>>

-----------------------------------------------------------------------------
\* Everyone else: the target changes, roles come and go, the policy is edited.
ChangeElsewhere(t) == Changed(t) /\ UNCHANGED <<may, policy, action, confirm>>
ChangeRole(m, t) == /\ may' = [may EXCEPT ![m] = IF t \in @ THEN @ \ {t} ELSE @ \cup {t}]
                    /\ UNCHANGED <<revision, policy, action, confirm>>
EditPolicy == /\ policy' \in [mutation : BOOLEAN, confirmation : BOOLEAN]
              /\ UNCHANGED <<revision, may, action, confirm>>

ActionsNext ==
  \/ \E p \in Principals, a \in Proposals, t \in Targets, x \in 1 .. MaxRevision :
       Propose(p, a, t, x) \/ ExecuteDirectly(p, a, t, x)
  \/ \E a \in Proposals : Lapse(a) \/ \E p \in Principals : Review(p, a)
  \/ \E c \in Confirmations : \/ \E p \in Principals, a \in Proposals : AskToConfirm(c, p, a)
                              \/ ConfirmAndExecute(c) \/ RefuseConfirmation(c)
  \/ \E t \in Targets : ChangeElsewhere(t) \/ \E m \in Members : ChangeRole(m, t)
  \/ EditPolicy

ActionsSpec == ActionsInit /\ [][ActionsNext]_actionVars

-----------------------------------------------------------------------------
Executed == {a \in Proposals : action[a].state = "executed"}

\* What was confirmed is what was reviewed: an executed action changed its
\* target from exactly the revision it was proposed for and that all its reviews
\* showed, so of several actions proposed for one revision at most one ever
\* runs, and none runs twice.
ExecutedAsReviewed ==
  /\ \A a \in Executed : /\ action[a].ran = action[a].expected
                         /\ ~action[a].moved
  /\ \A a, b \in Executed : action[a].target = action[b].target /\ action[a].ran = action[b].ran => a = b
=============================================================================
