------------------------------- MODULE Rotation -------------------------------
(***************************************************************************)
(* The control plane's recovery page: the recovery phrase, the enrolment   *)
(* of its verifier, the recovery of an account with it, the rotation of a  *)
(* mailbox's root and the organisation's recovery principals, with the     *)
(* handlers of the API they call.                                          *)
(*                                                                         *)
(* A recovery phrase and the root secret derived from it are one number.   *)
(* A wrap or a seal is the number of the root that opens it.  An answer is *)
(* applied by the continuation of the handler that asked; the request may  *)
(* fail before or after the server has done its part.                      *)
(***************************************************************************)
EXTENDS Naturals, FiniteSets

CONSTANTS PrivateBoxes,   \* private mailboxes
          ManagedBoxes,   \* mailboxes managed by the organisation
          Names,          \* names of recovery principals
          MaxRoot,        \* bound on the roots ever generated
          MaxClicks       \* bound on the handlers started

RootBoxes == PrivateBoxes \cup ManagedBoxes

\* The first root of a mailbox; the owner of the private mailboxes holds the
\* phrase of root 1, the organisation's seal of a managed one opens to root 1.
FirstRoot == 1

ASSUME RotationAssumption ==
    /\ PrivateBoxes \cap ManagedBoxes = {}
    /\ MaxRoot \in Nat \ {0}
    /\ MaxClicks \in Nat

VARIABLES
    boxRows,     \* the server's mailboxes: the root opening the wrapped key, the
                 \* version of the root, the root sealed to the organisation, and
                 \* whether device grants and other sessions of the owner are alive
    anchor,      \* ghost: the root each mailbox was last rotated to
    verifier,    \* users.recovery_auth_pk, 0 when none is enrolled
    verifiers,   \* ghost: every verifier ever enrolled
    challenges,  \* issued challenges not consumed yet
    principals,  \* the organisation's recovery principals
    phraseTab,   \* the generated phrase and whether it was verified
    enrollTab,   \* the enrolment form
    recoverTab,  \* the recovery and new password forms
    rotateTab,   \* the rotation form
    princTab,    \* the principals' list and form
    held,        \* the phrases the person knows
    minted,      \* the last root generated
    pending,     \* continuations waiting for an answer
    clicks       \* handlers started

serverVars == <<boxRows, anchor, verifier, verifiers, challenges, principals>>
tabVars == <<phraseTab, enrollTab, recoverTab, rotateTab, princTab>>
rotationVars == <<serverVars, tabVars, held, minted, pending, clicks>>

Root == 0 .. MaxRoot

NoRotation == [box |-> "none", mode |-> "none", loading |-> FALSE, words |-> 0,
               busy |-> FALSE, version |-> 0, phrase |-> 0,
               file |-> FALSE]

RotationInit ==
    /\ boxRows = [b \in RootBoxes |-> [wrap |-> FirstRoot, version |-> 1, trusted |-> TRUE,
                        sealed |-> IF b \in ManagedBoxes THEN FirstRoot ELSE 0]]
    /\ anchor = [b \in RootBoxes |-> FirstRoot]
    /\ verifier = 0 /\ verifiers = {} /\ challenges = {} /\ principals = {}
    /\ phraseTab = [phrase |-> 0, verified |-> FALSE]
    /\ enrollTab = [words |-> 0, busy |-> FALSE, done |-> FALSE]
    /\ recoverTab = [words |-> 0, busy |-> FALSE, done |-> FALSE,
                     pwBusy |-> FALSE, pwDone |-> FALSE]
    /\ rotateTab = NoRotation
    /\ princTab = [list |-> {}, loading |-> FALSE, member |-> FALSE,
                   name |-> "none", file |-> FALSE, busy |-> FALSE]
    /\ held = {FirstRoot} /\ minted = FirstRoot
    /\ pending = {} /\ clicks = 0

-------------------------------------------------------------------------------
(* Starting a handler and applying its answers *)

\* A handler starts: its continuation waits for the first answer.
Started(p) ==
    /\ clicks < MaxClicks
    /\ clicks' = clicks + 1
    /\ pending' = pending \cup {[p EXCEPT !.id = clicks]}

\* The forms are used only while a handler is left to be started.
Filling == clicks < MaxClicks

\* The continuation of a handler, before its number is known.
Continuation(op, box, root, name) ==
    [op |-> op, box |-> box, root |-> root, name |-> name, id |-> 0]

\* The continuation goes on to its next request, or ends.
GoesOn(p, op) == pending' = (pending \ {p}) \cup {[p EXCEPT !.op = op]}
Ends(p) == pending' = pending \ {p}

-------------------------------------------------------------------------------
(* Phrase tab *)

handleGenerate ==
    /\ phraseTab.phrase = 0
    /\ minted < MaxRoot
    /\ minted' = minted + 1
    /\ phraseTab' = [phrase |-> minted + 1, verified |-> FALSE]
    /\ held' = held \cup {minted + 1}
    /\ UNCHANGED <<serverVars, enrollTab, recoverTab, rotateTab, princTab,
                   pending, clicks>>

\* The phrase is shown to open a test key wrapped under it.
handleVerify ==
    /\ phraseTab.phrase # 0
    /\ phraseTab' = [phraseTab EXCEPT !.verified = TRUE]
    /\ UNCHANGED <<serverVars, enrollTab, recoverTab, rotateTab, princTab,
                   held, minted, pending, clicks>>

ClearPhrase ==
    /\ phraseTab.phrase # 0
    /\ phraseTab' = [phrase |-> 0, verified |-> FALSE]
    /\ UNCHANGED <<serverVars, enrollTab, recoverTab, rotateTab, princTab,
                   held, minted, pending, clicks>>

PhraseTab == Filling /\ (handleGenerate \/ handleVerify \/ ClearPhrase)

-------------------------------------------------------------------------------
(* Enrolment of the recovery verifier *)

\* recovery-enroll replaces the verifier whatever it was.
recoveryEnroll(root) ==
    /\ verifier' = root
    /\ verifiers' = verifiers \cup {root}

handleEnroll ==
    /\ enrollTab.words # 0 /\ ~enrollTab.busy
    /\ Started(Continuation("enroll", "none", enrollTab.words, "none"))
    /\ enrollTab' = [enrollTab EXCEPT !.busy = TRUE]
    /\ UNCHANGED <<serverVars, phraseTab, recoverTab, rotateTab, princTab,
                   held, minted>>

\* done: the server enrolled the verifier.  ok: the answer came back.
EnrollAnswer(p, done, ok) ==
    /\ p.op = "enroll"
    /\ IF done THEN recoveryEnroll(p.root) ELSE UNCHANGED <<verifier, verifiers>>
    /\ Ends(p)
    /\ enrollTab' = IF ok
                    THEN [words |-> 0, busy |-> FALSE, done |-> TRUE]
                    ELSE [enrollTab EXCEPT !.busy = FALSE]
    /\ UNCHANGED <<boxRows, anchor, challenges, principals, phraseTab, recoverTab,
                   rotateTab, princTab, held, minted, clicks>>

\* The form is shown until the enrolment has succeeded.
EnrollTab ==
    /\ ~enrollTab.done
    /\ \/ \E r \in held :
            /\ ~enrollTab.busy /\ Filling
            /\ enrollTab' = [enrollTab EXCEPT !.words = r]
            /\ UNCHANGED <<serverVars, phraseTab, recoverTab, rotateTab, princTab, held, minted, pending, clicks>>
       \/ handleEnroll

-------------------------------------------------------------------------------
(* Recovery of the account *)

handleRecover ==
    /\ recoverTab.words # 0 /\ ~recoverTab.busy
    /\ Started(Continuation("challenge", "none", recoverTab.words, "none"))
    /\ recoverTab' = [recoverTab EXCEPT !.busy = TRUE]
    /\ UNCHANGED <<serverVars, phraseTab, enrollTab, rotateTab, princTab,
                   held, minted>>

RecoverFails(p) ==
    /\ Ends(p)
    /\ recoverTab' = [recoverTab EXCEPT !.busy = FALSE, !.done = FALSE]

\* A challenge is persisted only for a user with a verifier; the answer looks
\* the same for one without.
ChallengeAnswer(p, ok) ==
    /\ p.op = "challenge"
    /\ challenges' = IF verifier # 0 THEN challenges \cup {p.id} ELSE challenges
    /\ IF ok
       THEN GoesOn(p, "verify") /\ UNCHANGED recoverTab
       ELSE RecoverFails(p)
    /\ UNCHANGED <<boxRows, anchor, verifier, verifiers, principals, phraseTab,
                   enrollTab, rotateTab, princTab, held, minted, clicks>>

\* The signature must be that of the verifier enrolled NOW; the challenge is
\* consumed by the first one that is.
recoveryVerify(p) == p.id \in challenges /\ p.root = verifier

VerifyAnswer(p, ok) ==
    /\ p.op = "verify"
    /\ challenges' = IF recoveryVerify(p) THEN challenges \ {p.id} ELSE challenges
    /\ IF recoveryVerify(p) /\ ok
       THEN /\ Ends(p)
            /\ recoverTab' = [recoverTab EXCEPT !.busy = FALSE, !.done = TRUE,
                                                !.words = 0]
       ELSE RecoverFails(p)
    /\ UNCHANGED <<boxRows, anchor, verifier, verifiers, principals, phraseTab,
                   enrollTab, rotateTab, princTab, held, minted, clicks>>

handleChangePasswordRecovery ==
    /\ ~recoverTab.pwBusy
    /\ Started(Continuation("password", "none", 0, "none"))
    /\ recoverTab' = [recoverTab EXCEPT !.pwBusy = TRUE]
    /\ UNCHANGED <<serverVars, phraseTab, enrollTab, rotateTab, princTab,
                   held, minted>>

\* Authentication only: no mailbox key is touched.
PasswordAnswer(p, ok) ==
    /\ p.op = "password"
    /\ Ends(p)
    /\ recoverTab' = [recoverTab EXCEPT !.pwBusy = FALSE, !.pwDone = @ \/ ok]
    /\ UNCHANGED <<serverVars, phraseTab, enrollTab, rotateTab, princTab,
                   held, minted, clicks>>

\* The new password form replaces the recovery form once that has succeeded.
RecoverTab ==
    /\ \/ \E r \in held :
            /\ ~recoverTab.done /\ ~recoverTab.busy /\ Filling
            /\ recoverTab' = [recoverTab EXCEPT !.words = r]
            /\ UNCHANGED <<serverVars, phraseTab, enrollTab, rotateTab, princTab, held, minted, pending, clicks>>
       \/ ~recoverTab.done /\ handleRecover
       \/ recoverTab.done /\ ~recoverTab.pwDone /\ handleChangePasswordRecovery

-------------------------------------------------------------------------------
(* Rotation of a root *)

ModeOf(b) == IF b \in PrivateBoxes THEN "private" ELSE "org_managed"

handleLoadRotBox ==
    /\ rotateTab.box # "none" /\ ~rotateTab.loading
    /\ Started(Continuation("load", rotateTab.box, 0, "none"))
    /\ rotateTab' = [rotateTab EXCEPT !.loading = TRUE,
                                      !.mode = "none"]
    /\ UNCHANGED <<serverVars, phraseTab, enrollTab, recoverTab, princTab,
                   held, minted>>

LoadAnswer(p, ok) ==
    /\ p.op = "load"
    /\ Ends(p)
    /\ rotateTab' = IF ok
                    THEN [rotateTab EXCEPT !.loading = FALSE, !.mode = ModeOf(p.box)]
                    ELSE [rotateTab EXCEPT !.loading = FALSE]
    /\ UNCHANGED <<serverVars, phraseTab, enrollTab, recoverTab, princTab,
                   held, minted, clicks>>

handleRotate ==
    /\ rotateTab.mode = "private" /\ rotateTab.words # 0 /\ ~rotateTab.busy
    /\ Started(Continuation("private", rotateTab.box, rotateTab.words, "none"))
    /\ rotateTab' = [rotateTab EXCEPT !.busy = TRUE]
    /\ UNCHANGED <<serverVars, phraseTab, enrollTab, recoverTab, princTab,
                   held, minted>>

handleRotateOrgManaged ==
    /\ rotateTab.mode \notin {"none", "private"} /\ rotateTab.file /\ ~rotateTab.busy
    /\ Started(Continuation("managed", rotateTab.box, 0, "none"))
    /\ rotateTab' = [rotateTab EXCEPT !.busy = TRUE]
    /\ UNCHANGED <<serverVars, phraseTab, enrollTab, recoverTab, princTab,
                   held, minted>>

\* Mutant: RotateFails without the finally.
StaysBusy(p) ==
    /\ Ends(p)
    /\ rotateTab' = [rotateTab EXCEPT !.version = 0, !.phrase = 0]

\* catch and finally of the two rotation handlers.
RotateFails(p) ==
    /\ Ends(p)
    /\ rotateTab' = [rotateTab EXCEPT !.busy = FALSE,
                                      !.version = 0, !.phrase = 0]

\* The mailbox is read; the words must open its wrapped key.  A fresh root is
\* generated and the key wrapped under it, as a check only: the new wrap goes
\* nowhere.
RotateRead(p, ok) ==
    /\ p.op = "private"
    /\ IF ok /\ p.box \in PrivateBoxes /\ boxRows[p.box].wrap = p.root /\ minted < MaxRoot
       THEN /\ minted' = minted + 1
            /\ pending' = (pending \ {p})
                    \cup {[p EXCEPT !.op = "rotate", !.root = minted + 1]}
            /\ UNCHANGED rotateTab
       ELSE RotateFails(p) /\ UNCHANGED minted
    /\ UNCHANGED <<serverVars, phraseTab, enrollTab, recoverTab, princTab,
                   held, clicks>>

\* The organisation's secret opens the sealed root, and that root must open the
\* mailbox's wrapped key.
recoverMailboxSecret(b) == boxRows[b].sealed # 0 /\ boxRows[b].sealed = boxRows[b].wrap

RotateManagedRead(p, ok) ==
    /\ p.op = "managed"
    /\ IF ok /\ p.box \in ManagedBoxes /\ recoverMailboxSecret(p.box) /\ minted < MaxRoot
       THEN /\ minted' = minted + 1
            /\ pending' = (pending \ {p})
                    \cup {[p EXCEPT !.op = "rotateManaged", !.root = minted + 1]}
            /\ UNCHANGED rotateTab
       ELSE RotateFails(p) /\ UNCHANGED minted
    /\ UNCHANGED <<serverVars, phraseTab, enrollTab, recoverTab, princTab,
                   held, clicks>>

\* rotate-root: a new root row, the seal of a managed mailbox with it; the
\* wrapped key of the mailbox stays.  In the same transaction the device grants
\* of the mailbox and its owner's other sessions are revoked; the session of the
\* page that asks stays.
rootRotation(b, root) ==
    /\ boxRows' = [boxRows EXCEPT
            ![b].version = @ + 1,
            ![b].trusted = FALSE,
            ![b].sealed = IF b \in ManagedBoxes THEN root ELSE 0]
    /\ anchor' = [anchor EXCEPT ![b] = root]

\* Mutant: the new phrase is shown as soon as the rotation has answered.
ShownAtOnce(p, done, ok) ==
    /\ p.op = "rotate"
    /\ IF done THEN rootRotation(p.box, p.root) ELSE UNCHANGED <<boxRows, anchor>>
    /\ IF ok
       THEN /\ GoesOn(p, "reenroll")
            /\ rotateTab' = [rotateTab EXCEPT !.phrase = p.root, !.version = 1]
       ELSE RotateFails(p)
    /\ UNCHANGED <<verifier, verifiers, challenges, principals, phraseTab, enrollTab,
                   recoverTab, princTab, held, minted, clicks>>

\* The rotation of a private mailbox is followed by the enrolment of the new
\* verifier; nothing is shown before both have answered.
RotateAnswer(p, done, ok) ==
    /\ p.op = "rotate"
    /\ IF done THEN rootRotation(p.box, p.root) ELSE UNCHANGED <<boxRows, anchor>>
    /\ IF ok
       THEN GoesOn(p, "reenroll") /\ UNCHANGED rotateTab
       ELSE RotateFails(p)
    /\ UNCHANGED <<verifier, verifiers, challenges, principals, phraseTab, enrollTab,
                   recoverTab, princTab, held, minted, clicks>>

ReenrollAnswer(p, done, ok) ==
    /\ p.op = "reenroll"
    /\ IF done THEN recoveryEnroll(p.root) ELSE UNCHANGED <<verifier, verifiers>>
    /\ IF ok
       THEN /\ Ends(p)
            /\ rotateTab' = [rotateTab EXCEPT !.busy = FALSE, !.words = 0,
                                 !.version = boxRows[p.box].version, !.phrase = p.root]
            /\ held' = held \cup {p.root}
       ELSE RotateFails(p) /\ UNCHANGED held
    /\ UNCHANGED <<boxRows, anchor, challenges, principals, phraseTab, enrollTab,
                   recoverTab, princTab, minted, clicks>>

RotateManagedAnswer(p, done, ok) ==
    /\ p.op = "rotateManaged"
    /\ IF done THEN rootRotation(p.box, p.root) ELSE UNCHANGED <<boxRows, anchor>>
    /\ IF ok
       THEN /\ Ends(p)
            /\ rotateTab' = [rotateTab EXCEPT !.busy = FALSE, !.file = FALSE,
                                 !.version = boxRows'[p.box].version, !.phrase = 0]
       ELSE RotateFails(p)
    /\ UNCHANGED <<verifier, verifiers, challenges, principals, phraseTab, enrollTab,
                   recoverTab, princTab, held, minted, clicks>>

\* The box field and "Clear"; the fields are disabled while a request is out.
RotateFields ==
    /\ \/ /\ rotateTab.version = 0 /\ ~rotateTab.busy /\ ~rotateTab.loading /\ Filling
          /\ \E b \in RootBoxes : rotateTab' = [rotateTab EXCEPT !.box = b,
                                                                 !.mode = "none"]
       \/ /\ rotateTab.version = 0 /\ ~rotateTab.busy /\ rotateTab.mode = "private" /\ Filling
          /\ \E r \in held : rotateTab' = [rotateTab EXCEPT !.words = r]
       \/ /\ rotateTab.version = 0 /\ ~rotateTab.busy /\ Filling
          /\ rotateTab.mode = "org_managed"
          /\ rotateTab' = [rotateTab EXCEPT !.file = TRUE]
       \/ /\ rotateTab.version # 0
          /\ rotateTab' = [rotateTab EXCEPT !.version = 0, !.phrase = 0, !.box = "none",
                                !.mode = "none", !.file = FALSE,
                                !.words = IF rotateTab.phrase # 0 THEN 0 ELSE @]
    /\ UNCHANGED <<serverVars, phraseTab, enrollTab, recoverTab, princTab,
                   held, minted, pending, clicks>>

RotateTab ==
    /\ \/ RotateFields
       \/ /\ rotateTab.version = 0
          /\ handleLoadRotBox \/ handleRotate \/ handleRotateOrgManaged

-------------------------------------------------------------------------------
(* Recovery principals *)

refreshPrincipals == Continuation("list", "none", 0, "none")

\* Mutant: the names alone are kept.
NamesOnly(p, ok) ==
    /\ p.op = "list"
    /\ Ends(p)
    /\ princTab' = IF ok THEN [princTab EXCEPT !.list = {q.name : q \in principals},
                                               !.loading = FALSE, !.member = TRUE]
                   ELSE [princTab EXCEPT !.loading = FALSE]
    /\ UNCHANGED <<serverVars, phraseTab, enrollTab, recoverTab, rotateTab,
                   held, minted, clicks>>

\* The list is read when its answer is applied.
ListAnswer(p, ok) ==
    /\ p.op = "list"
    /\ Ends(p)
    /\ princTab' = IF ok THEN [princTab EXCEPT !.list = principals, !.loading = FALSE,
                                               !.member = TRUE]
                   ELSE [princTab EXCEPT !.loading = FALSE]
    /\ UNCHANGED <<serverVars, phraseTab, enrollTab, recoverTab, rotateTab,
                   held, minted, clicks>>

handleEnrollPrincipal ==
    /\ princTab.member /\ princTab.name # "none" /\ princTab.file /\ ~princTab.busy
    /\ Started(Continuation("addPrincipal", "none", 0, princTab.name))
    /\ princTab' = [princTab EXCEPT !.busy = TRUE]
    /\ UNCHANGED <<serverVars, phraseTab, enrollTab, recoverTab, rotateTab,
                   held, minted>>

handleRevokePrincipal(q) ==
    /\ q \in princTab.list /\ q.active
    /\ Started(Continuation("revoke", "none", 0, q.name))
    /\ UNCHANGED <<serverVars, phraseTab, enrollTab, recoverTab, rotateTab, princTab, held, minted>>

\* One active principal per name; revocation keeps the row.
ActiveNames == {q.name : q \in {r \in principals : r.active}}

AddPrincipalAnswer(p, ok) ==
    /\ p.op = "addPrincipal"
    /\ LET added == p.name \notin ActiveNames
       IN  /\ principals' = IF added
                            THEN principals \cup {[name |-> p.name, active |-> TRUE]}
                            ELSE principals
           /\ IF ok /\ added
              THEN /\ GoesOn(p, "listBusy")
                   /\ princTab' = [princTab EXCEPT !.name = "none", !.file = FALSE,
                                                   !.loading = TRUE]
              ELSE /\ Ends(p)
                   /\ princTab' = [princTab EXCEPT !.busy = FALSE]
    /\ UNCHANGED <<boxRows, anchor, verifier, verifiers, challenges, phraseTab,
                   enrollTab, recoverTab, rotateTab, held, minted, clicks>>

\* The list awaited by handleEnrollPrincipal, whose finally ends the busy state.
BusyListAnswer(p, ok) ==
    /\ p.op = "listBusy"
    /\ Ends(p)
    /\ princTab' = IF ok THEN [princTab EXCEPT !.list = principals, !.loading = FALSE,
                                               !.member = TRUE, !.busy = FALSE]
                   ELSE [princTab EXCEPT !.loading = FALSE, !.busy = FALSE]
    /\ UNCHANGED <<serverVars, phraseTab, enrollTab, recoverTab, rotateTab,
                   held, minted, clicks>>

RevokeAnswer(p, ok) ==
    /\ p.op = "revoke"
    /\ principals' = {IF q.name = p.name THEN [q EXCEPT !.active = FALSE] ELSE q :
                            q \in principals}
    /\ IF ok
       THEN GoesOn(p, "list") /\ princTab' = [princTab EXCEPT !.loading = TRUE]
       ELSE Ends(p) /\ UNCHANGED princTab
    /\ UNCHANGED <<boxRows, anchor, verifier, verifiers, challenges, phraseTab,
                   enrollTab, recoverTab, rotateTab, held, minted, clicks>>

PrincipalsTab ==
    /\ \/ \E n \in Names :
            /\ ~princTab.busy /\ Filling
            /\ princTab' = [princTab EXCEPT !.name = n, !.file = TRUE]
            /\ UNCHANGED <<serverVars, phraseTab, enrollTab, recoverTab, rotateTab, held, minted, pending, clicks>>
       \/ handleEnrollPrincipal
       \/ ~princTab.loading /\ \E q \in princTab.list : handleRevokePrincipal(q)

\* The tabs are switched freely, their forms keep what was typed, and opening the
\* principals' tab loads their list: what matters of the tab shown is that.
OpenPrincipals ==
    /\ Started(refreshPrincipals)
    /\ princTab' = [princTab EXCEPT !.loading = TRUE]
    /\ UNCHANGED <<serverVars, phraseTab, enrollTab, recoverTab, rotateTab, held, minted>>

-------------------------------------------------------------------------------

\* One answer of the server, or its loss.  An answer cannot arrive from a server
\* that did nothing, but a server may have acted and its answer be lost.
RotationAnswer(p) ==
    \E done, ok \in BOOLEAN :
        /\ ok => done
        /\ \/ EnrollAnswer(p, done, ok)
           \/ RotateAnswer(p, done, ok)
           \/ ReenrollAnswer(p, done, ok)
           \/ RotateManagedAnswer(p, done, ok)
           \/ /\ done
              /\ \/ ChallengeAnswer(p, ok) \/ VerifyAnswer(p, ok)
                 \/ PasswordAnswer(p, ok) \/ LoadAnswer(p, ok)
                 \/ RotateRead(p, ok) \/ RotateManagedRead(p, ok)
                 \/ ListAnswer(p, ok) \/ BusyListAnswer(p, ok)
                 \/ AddPrincipalAnswer(p, ok) \/ RevokeAnswer(p, ok)

RotationNext ==
    \/ PhraseTab \/ EnrollTab \/ RecoverTab \/ RotateTab \/ PrincipalsTab
    \/ OpenPrincipals
    \/ \E p \in pending : RotationAnswer(p)

RotationSpec == RotationInit /\ [][RotationNext]_rotationVars

\* Every request is answered or fails in the end, so a waiting handler resumes.
RotationFairness == WF_rotationVars(\E p \in pending : RotationAnswer(p))

-------------------------------------------------------------------------------
(* Properties *)

\* The server's rows, the page's forms and the continuations in flight are well
\* formed.
RotationTypeOK ==
    /\ boxRows \in [RootBoxes -> [wrap : Root, version : Nat, trusted : BOOLEAN,
                              sealed : Root]]
    /\ anchor \in [RootBoxes -> Root]
    /\ verifier \in Root /\ verifiers \subseteq Root /\ held \subseteq Root
    /\ minted \in Root /\ challenges \subseteq 0 .. MaxClicks
    /\ principals \subseteq [name : Names, active : BOOLEAN]
    /\ phraseTab \in [phrase : Root, verified : BOOLEAN]
    /\ enrollTab \in [words : Root, busy : BOOLEAN, done : BOOLEAN]
    /\ recoverTab \in [words : Root, busy : BOOLEAN, done : BOOLEAN,
                       pwBusy : BOOLEAN, pwDone : BOOLEAN]
    /\ rotateTab \in [box : RootBoxes \cup {"none"},
                      mode : {"none", "private", "org_managed"}, loading : BOOLEAN,
                      words : Root, busy : BOOLEAN, version : Nat,
                      phrase : Root, file : BOOLEAN]
    /\ princTab \in [list : SUBSET [name : Names, active : BOOLEAN], member : BOOLEAN,
                     loading : BOOLEAN, name : Names \cup {"none"},
                     file : BOOLEAN, busy : BOOLEAN]
    /\ clicks \in 0 .. MaxClicks

\* A phrase is shown as the new one of a mailbox only when the server has both
\* rotated a mailbox to its root and enrolled its verifier, whatever requests of
\* the other tabs and losses came between the two (handleRotate shows it last).
PhraseShownIsEnrolled ==
    rotateTab.phrase # 0 =>
        /\ rotateTab.phrase \in verifiers
        /\ \E b \in PrivateBoxes : anchor[b] = rotateTab.phrase

\* The rotation form is free: each of the up to three requests of a rotation has
\* ended, and the finally of the handler has freed it.
RotationFree == ~rotateTab.busy

\* The comment of handleRotate: a rotation "re-anchors the same mailbox key under
\* the new root", so the root a mailbox was rotated to opens its wrapped key.
AnchorOpensKey == \A b \in RootBoxes : boxRows[b].wrap = anchor[b]

===============================================================================
