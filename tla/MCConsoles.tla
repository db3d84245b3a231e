------------------------------ MODULE MCConsoles ------------------------------
(* The keys of a mailbox, its attachments, the support console, the pages of *)
(* mailboxes, recovery and pricing for TLC: they hold separate state, and    *)
(* each behaviour is one of one part, chosen at the start; the others rest.  *)
EXTENDS KeyRing, Attachments, Crm, Rotation, Pricing, Provisioning
CONSTANTS p, q, c1, c2, m1, m2, d1, org, x

VARIABLE part   \* the part that moves

\* Every number of seats up to past the last bracket, and around the slider's end.
AroundBrackets == 1..104 \cup {249, 250, 251, 260}

consoleVars == <<keyVars, attVars, crmVars, rotationVars, pricingVars,
                 provisioningVars, part>>

\* The parts that could start in several ways rest in one of them.
Init ==
  /\ part \in {"keys", "attachments", "crm", "rotation", "pricing", "provisioning"}
  /\ KeyRingInit
  /\ part = "keys" \/ (account.private /\ ~account.claimed)
  /\ AttInit /\ CrmInit /\ RotationInit /\ ProvisioningInit
  /\ PricingInit
  /\ part = "pricing" \/ checkoutLink = [seats |-> 1, cycle |-> "monthly"]

Next ==
  \/ /\ part = "keys" /\ KeyRingNext
     /\ UNCHANGED <<attVars, crmVars, rotationVars, pricingVars, provisioningVars, part>>
  \/ /\ part = "attachments" /\ AttNext
     /\ UNCHANGED <<keyVars, crmVars, rotationVars, pricingVars, provisioningVars, part>>
  \/ /\ part = "crm" /\ CrmNext
     /\ UNCHANGED <<keyVars, attVars, rotationVars, pricingVars, provisioningVars, part>>
  \/ /\ part = "rotation" /\ RotationNext
     /\ UNCHANGED <<keyVars, attVars, crmVars, pricingVars, provisioningVars, part>>
  \/ /\ part = "pricing" /\ PricingNext
     /\ UNCHANGED <<keyVars, attVars, crmVars, rotationVars, provisioningVars, part>>
  \/ /\ part = "provisioning" /\ ProvisioningNext
     /\ UNCHANGED <<keyVars, attVars, crmVars, rotationVars, pricingVars, part>>

\* A part that rests has nothing under way, so its fairness asks for nothing.
FairSpec ==
  /\ Init /\ [][Next]_consoleVars
  /\ AttFairness /\ CrmFairness /\ RotationFairness /\ ProvisioningFairness

----------------------------------------------------------------------------
(* The state of the part that moves is well formed, its pending requests   *)
(* included; the others are as they started.                                *)
ConsolesTypeOK ==
  CASE part = "keys"         -> KeyRingTypeOK
    [] part = "attachments"  -> AttTypeOK
    [] part = "crm"          -> CrmTypeOK
    [] part = "rotation"     -> RotationTypeOK
    [] part = "provisioning" -> ProvisioningTypeOK
    [] part = "pricing"      -> TRUE

(* The pages of operators and administrators and the server hold together: *)
(* the console shows the server's rows (handleToggleSuspend and the others  *)
(* that show a change at once), the mailbox page shows what it was told it  *)
(* did (refetchMailboxes); while requests interleave, mailboxes pass the    *)
(* plan's limit by at most the invitations counted at once beside another   *)
(* (mailboxInviteHandler), aliases keep to theirs (mailboxAliasesHandler),  *)
(* and what was deleted stays so (deleteMailbox, invitationClaimHandler).   *)
PagesAndServerAgree ==
  /\ part = "crm" => ConsoleMatchesServer
  /\ part = "provisioning" =>
       OwnWritesShown /\ OverrunBounded /\ AliasQuotaKept /\ DeletedStaysGone

(* What was begun is brought to an end: a deletion that is asked for again  *)
(* (attachmentsHandler), a row of the stalled queue in processing           *)
(* (handleExecuteIntervention), a rotation (handleRotate), an invitation, a *)
(* deletion or an alias (handleCreate, handleDeleteMailbox,                 *)
(* handleCreateAlias).                                                      *)
RequestsEnd == DeleteConverges /\ []<>(NothingProcessing /\ RotationFree /\ PagesFree)
=============================================================================
