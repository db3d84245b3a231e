--------------------------- MODULE KeyRingProofs ---------------------------
(***************************************************************************)
(* What holds of the keys of a mailbox for any number of browsers,         *)
(* passwords, key pairs and phrases; and, in the second part, of the       *)
(* recovery page for any number of mailboxes, roots, principals and        *)
(* requests.                                                               *)
(***************************************************************************)
EXTENDS KeyRing, Rotation, TLAPS

(* No wrapped key, as a column holds it, has the type of one. *)
LEMMA NoWrapTyped == NoWrap \in Wrapped
BY KeyRingAssumption DEF NoWrap, Wrapped, Keys, Pws, Phrases

(* The pages of the wizard and of the dialog are numbered within their ranges. *)
LEMMA StepsTyped ==
  /\ \A n \in {0, 1, 2, 3, 4} : n \in WizardSteps
  /\ \A n \in {0, 1, 2} : n \in ForgotSteps
BY DEF WizardSteps, ForgotSteps

(* A page that was just opened has the type of a page. *)
LEMMA BlankPagesTyped ==
  NoWizard \in WizardPage /\ NoForgot \in ForgotDialog /\ NoTab \in SecurityTab
BY KeyRingAssumption, NoWrapTyped, StepsTyped
   DEF NoWizard, WizardPage, NoForgot, ForgotDialog, NoTab, SecurityTab, Keys, Pws, Phrases

(* The counters are natural numbers, and what they number is in its set. *)
LEMMA CountersAreNumbers ==
  ASSUME made \in Counters
  PROVE  /\ made.pw \in Nat /\ made.key \in Nat /\ made.phrase \in Nat
         /\ \A n \in 0..made.pw : n \in Pws
         /\ \A n \in 0..made.phrase : n \in Phrases
BY KeyRingAssumption DEF Counters, Pws, Keys, Phrases

(* wrapMailboxKeyWithPassphrase yields a wrapped key. *)
LEMMA PassphraseWrapTyped ==
  ASSUME NEW pw \in Pws, NEW sk \in Keys
  PROVE  wrapMailboxKeyWithPassphrase(pw, sk) \in Wrapped
BY KeyRingAssumption DEF wrapMailboxKeyWithPassphrase, Wrapped, Phrases

(* The rows an invitation or an early mailbox starts with are typed. *)
LEMMA InitTyped == KeyRingInit => KeyRingTypeOK
<1> SUFFICES ASSUME KeyRingInit PROVE KeyRingTypeOK
  OBVIOUS
<1> USE KeyRingAssumption, NoWrapTyped, BlankPagesTyped
<1>1. account \in AccountRow /\ made \in Counters
  BY DEF KeyRingInit, AccountRow, Counters, Pws, Keys, Phrases
<1>2. wizard \in WizardPage /\ forgot \in [Browsers -> ForgotDialog] /\ tab \in SecurityTab
  BY DEF KeyRingInit
<1>2a. heal \in [Browsers -> Pws]
  BY DEF KeyRingInit, Pws
<1>3. born \in [Keys -> Pws]
  BY DEF KeyRingInit, Pws
<1>4. shown \subseteq Keys /\ restored \in BOOLEAN
  BY DEF KeyRingInit
<1> QED
  BY <1>1, <1>2, <1>2a, <1>3, <1>4 DEF KeyRingTypeOK

(* The activation page keeps the types. *)
LEMMA WizardTyped == KeyRingTypeOK /\ WizardStep => KeyRingTypeOK'
<1> SUFFICES ASSUME KeyRingTypeOK, WizardStep PROVE KeyRingTypeOK'
  OBVIOUS
<1> USE StepsTyped DEF KeyRingTypeOK, OnlyWizard
<1>1. CASE OpenSetup
  BY <1>1, BlankPagesTyped DEF OpenSetup
<1>2. CASE verifyInvitation
  <2>1. wizard' \in WizardPage
    BY <1>2 DEF verifyInvitation, WizardPage
  <2> QED
    BY <1>2, <2>1 DEF verifyInvitation
<1>3. CASE isPasswordValid
  <2>1. wizard' \in WizardPage /\ made' \in Counters
    BY <1>3 DEF isPasswordValid, WizardPage, Counters
  <2> QED
    BY <1>3, <2>1 DEF isPasswordValid
<1>4. CASE handleProceedToKeys
  <2> DEFINE key == IF account.private THEN NewKey ELSE 1
  <2>1. key \in Keys /\ NewPhrase \in Phrases
    BY <1>4, KeyRingAssumption DEF handleProceedToKeys, Keys
  <2> DEFINE wrap == [sk |-> key, pw |-> wizard.pw, root |-> NewPhrase]
  <2>2. wrap \in Wrapped
    BY <2>1 DEF Wrapped, WizardPage
  <2>3. wizard' = [wizard EXCEPT !.step = 2, !.phrase = NewPhrase, !.pk = key, !.wrap = wrap]
    BY <1>4 DEF handleProceedToKeys
  <2>4. made' \in Counters
    BY <1>4, <2>1 DEF handleProceedToKeys, Counters
  <2>5. wizard' \in WizardPage
    <3> HIDE DEF key, wrap
    <3> QED
      BY <2>1, <2>2, <2>3 DEF WizardPage
  <2> QED
    BY <1>4, <2>4, <2>5 DEF handleProceedToKeys
<1>5. CASE ConfirmSaved
  <2>1. wizard' \in WizardPage
    BY <1>5 DEF ConfirmSaved, WizardPage
  <2> QED
    BY <1>5, <2>1 DEF ConfirmSaved
<1>6. CASE BackToPassword \/ handleProceedTo2FA \/ BackToPhrase
  <2>1. wizard' \in WizardPage
    BY <1>6 DEF BackToPassword, handleProceedTo2FA, BackToPhrase, WizardPage
  <2> QED
    BY <1>6, <2>1 DEF BackToPassword, handleProceedTo2FA, BackToPhrase
<1>7. CASE is2FAValid \/ handleFinalizeActivation \/ ClaimRefused
  <2>1. wizard' \in WizardPage
    BY <1>7 DEF is2FAValid, handleFinalizeActivation, ClaimRefused, WizardPage
  <2> QED
    BY <1>7, <2>1 DEF is2FAValid, handleFinalizeActivation, ClaimRefused
<1>8. ASSUME NEW answered \in BOOLEAN, Claim(answered)
      PROVE  KeyRingTypeOK'
  <2>a. wizard.pw \in Pws /\ wizard.pk \in Keys /\ wizard.wrap \in Wrapped
    BY DEF WizardPage
  <2>1. account' \in AccountRow
    BY <1>8, <2>a DEF Claim, AccountRow
  <2>2. wizard' \in WizardPage
    <3>1. [wizard EXCEPT !.step = 4] \in WizardPage
      BY DEF WizardPage
    <3>2. [wizard EXCEPT !.busy = FALSE] \in WizardPage
      BY DEF WizardPage
    <3> QED
      BY <1>8, <3>1, <3>2 DEF Claim
  <2>3. born' \in [Keys -> Pws]
    BY <1>8 DEF Claim, WizardPage
  <2> QED
    BY <1>8, <2>1, <2>2, <2>3 DEF Claim
<1>9. CASE SealPhrase
  <2>1. account' \in AccountRow
    BY <1>9 DEF SealPhrase, AccountRow, WizardPage
  <2> QED
    BY <1>9, <2>1, BlankPagesTyped DEF SealPhrase
<1> QED
  BY <1>1, <1>2, <1>3, <1>4, <1>5, <1>6, <1>7, <1>8, <1>9
     DEF WizardStep, PasswordPage, PhrasePage, FactorPage

(* rewrapOldKey never yields a wrap: the id it passes is twice too long. *)
LEMMA RewrapThrows == ASSUME NEW f PROVE rewrapOldKey(f) = NoWrap
BY DEF rewrapOldKey, RootWrapAccepts

(* The forgotten-password dialog keeps the types. *)
LEMMA ForgotTyped ==
  ASSUME KeyRingTypeOK, NEW b \in Browsers, ForgotStep(b) PROVE KeyRingTypeOK'
<1> USE StepsTyped DEF KeyRingTypeOK, OnlyForgot
<1>1. CASE handleOpenForgotPassword(b)
  <2>1. [NoForgot EXCEPT !.step = 1] \in ForgotDialog
    BY BlankPagesTyped DEF ForgotDialog
  <2> QED
    BY <1>1, <2>1 DEF handleOpenForgotPassword
<1>2. CASE handleRequestRecoveryCode(b)
  <2>1. account.wrap \in Wrapped
    BY DEF AccountRow
  <2>2. forgot'[b] \in ForgotDialog
    BY <1>2, <2>1 DEF handleRequestRecoveryCode, ForgotDialog
  <2>3. forgot' \in [Browsers -> ForgotDialog]
    BY <1>2, <2>2 DEF handleRequestRecoveryCode
  <2> QED
    BY <1>2, <2>3 DEF handleRequestRecoveryCode
<1>3. CASE BackToMethods(b)
  <2>1. forgot'[b] \in ForgotDialog
    BY <1>3 DEF BackToMethods, ForgotDialog
  <2> QED
    BY <1>3, <2>1 DEF BackToMethods
<1>4. CASE TypeReset(b)
  <2>1. PICK phrase \in 0..made.phrase :
               forgot' = [forgot EXCEPT ![b] = [@ EXCEPT !.pw = NewPw, !.phrase = phrase]]
    BY <1>4 DEF TypeReset
  <2>2. NewPw \in Pws /\ phrase \in Phrases
    BY <1>4, <2>1, CountersAreNumbers DEF TypeReset
  <2>3. forgot'[b] \in ForgotDialog
    BY <2>1, <2>2 DEF ForgotDialog
  <2>4. made' \in Counters
    BY <1>4, <2>2 DEF TypeReset, Counters
  <2> QED
    BY <1>4, <2>1, <2>3, <2>4 DEF TypeReset
<1>5. CASE handleResetPasswordWithRecovery(b)
  <2> DEFINE f == forgot[b]
  <2>1. f.pw \in Pws
    BY DEF ForgotDialog
  <2>2. rewrapOldKey(f) = NoWrap
    BY RewrapThrows
  <2>3. NewKey \in Keys
    BY <1>5, <2>2 DEF handleResetPasswordWithRecovery
  <2>4. wrapMailboxKeyWithPassphrase(f.pw, NewKey) \in Wrapped
    BY <2>1, <2>3, PassphraseWrapTyped
  <2>5. ServerReset(f, NoWrap)
    BY <1>5, <2>2 DEF handleResetPasswordWithRecovery
  <2>6. account' \in AccountRow
    <3> HIDE DEF f
    <3> QED
      BY <2>1, <2>3, <2>4, <2>5 DEF ServerReset, AccountRow
  <2>7. made' \in Counters /\ born' \in [Keys -> Pws] /\ shown' = shown
    BY <1>5, <2>1, <2>2, <2>3 DEF handleResetPasswordWithRecovery, Counters
  <2>8. forgot'[b] \in ForgotDialog
    <3>1. f \in ForgotDialog
      BY DEF ForgotDialog
    <3>2. NoForgot \in ForgotDialog
      BY BlankPagesTyped
    <3>3. [f EXCEPT !.challenge = FALSE] \in ForgotDialog
      <4> HIDE DEF f
      <4> QED
        BY <3>1 DEF ForgotDialog
    <3>4. \/ forgot'[b] = NoForgot
          \/ forgot'[b] = [f EXCEPT !.challenge = FALSE]
      BY <1>5 DEF handleResetPasswordWithRecovery
    <3> QED
      BY <3>2, <3>3, <3>4
  <2>9. forgot' \in [Browsers -> ForgotDialog]
    BY <1>5, <2>8 DEF handleResetPasswordWithRecovery
  <2>10. heal' \in [Browsers -> Pws] /\ tab' \in SecurityTab
    BY <1>5, BlankPagesTyped, KeyRingAssumption
       DEF handleResetPasswordWithRecovery, RevokeSessions, Pws
  <2> QED
    BY <1>5, <2>6, <2>7, <2>9, <2>10 DEF handleResetPasswordWithRecovery
<1> QED
  BY <1>1, <1>2, <1>3, <1>4, <1>5 DEF ForgotStep, MethodsPage, ResetPage

(* The registration of a key pair at login keeps the types. *)
LEMMA HealTyped ==
  ASSUME KeyRingTypeOK, NEW b \in Browsers, HealStep(b) PROVE KeyRingTypeOK'
<1> USE DEF KeyRingTypeOK
<1>a. 0 \in Pws
  BY KeyRingAssumption DEF Pws
<1>1. CASE LoginFindsNoKey(b)
  <2>1. heal' \in [Browsers -> Pws]
    BY <1>1 DEF LoginFindsNoKey, AccountRow
  <2> QED BY <1>1, <2>1 DEF LoginFindsNoKey
<1>2. CASE HealFails(b)
  <2>1. heal' \in [Browsers -> Pws]
    BY <1>2, <1>a DEF HealFails
  <2> QED BY <1>2, <2>1 DEF HealFails
<1>3. CASE SelfHeal(b)
  <2>1. heal[b] \in Pws /\ NewKey \in Keys
    BY <1>3 DEF SelfHeal
  <2>2. wrapMailboxKeyWithPassphrase(heal[b], NewKey) \in Wrapped
    BY <2>1, PassphraseWrapTyped
  <2>3. account' \in AccountRow
    BY <1>3, <2>1, <2>2 DEF SelfHeal, AccountRow
  <2>4. made' \in Counters
    BY <1>3, <2>1 DEF SelfHeal, Counters
  <2>5. born' \in [Keys -> Pws]
    BY <1>3, <2>1 DEF SelfHeal
  <2>6. heal' \in [Browsers -> Pws]
    BY <1>3, <1>a DEF SelfHeal
  <2> QED
    BY <1>3, <2>3, <2>4, <2>5, <2>6 DEF SelfHeal
<1> QED
  BY <1>1, <1>2, <1>3 DEF HealStep

(* The key handleReactivateKeys restores is the one the tab was opened with. *)
LEMMA ReactivatedKey ==
  ASSUME KeyRingTypeOK, handleReactivateKeys
  PROVE  \E pass \in Pws :
           /\ account' = [account EXCEPT
                !.wrap = wrapMailboxKeyWithPassphrase(pass, tab.prev.sk), !.prev = NoWrap]
           /\ shown' = shown \cup {tab.prev.sk}
<1>1. PICK phrase \in 0..made.phrase, pw, pass \in 1..made.pw :
        LET byPhrase == unwrapMailboxKeyWithRecoveryPhrase(phrase, tab.prev)
            sk == IF byPhrase # 0 THEN byPhrase ELSE autoUnwrapMailboxKey(pw, tab.prev)
        IN /\ sk # 0
           /\ account' = [account EXCEPT !.wrap = wrapMailboxKeyWithPassphrase(pass, sk),
                                         !.prev = NoWrap]
           /\ shown' = shown \cup {sk}
  BY DEF handleReactivateKeys
<1>2. pass \in Pws
  BY <1>1, CountersAreNumbers DEF KeyRingTypeOK
<1> QED
  BY <1>1, <1>2 DEF unwrapMailboxKeyWithRecoveryPhrase, autoUnwrapMailboxKey

(* The security tab keeps the types. *)
LEMMA TabTyped == KeyRingTypeOK /\ TabStep => KeyRingTypeOK'
<1> SUFFICES ASSUME KeyRingTypeOK, TabStep PROVE KeyRingTypeOK'
  OBVIOUS
<1> USE DEF KeyRingTypeOK, OnlyTab
<1>1. CASE loadData
  <2>1. account.prev \in Wrapped
    BY DEF AccountRow
  <2>2. tab' \in SecurityTab
    BY <1>1, <2>1, BlankPagesTyped DEF loadData, SecurityTab
  <2> QED
    BY <1>1, <2>2 DEF loadData
<1>2. CASE CloseTab
  BY <1>2, BlankPagesTyped DEF CloseTab
<1>3. CASE VerifyCurrentPassword \/ KeyDialogs
  <2>1. tab' \in SecurityTab
    BY <1>3 DEF VerifyCurrentPassword, KeyDialogs, handleExportPrivateKey, handleRevealPhrase,
                SecurityTab
  <2> QED
    BY <1>3, <2>1 DEF VerifyCurrentPassword, KeyDialogs, handleExportPrivateKey,
                      handleRevealPhrase
<1>4. CASE handleChangePassword
  <2>1. NewPw \in Pws
    BY <1>4 DEF handleChangePassword
  <2>2. account' \in AccountRow
    BY <1>4, <2>1 DEF handleChangePassword, AccountRow
  <2>3. tab' \in SecurityTab
    BY <1>4 DEF handleChangePassword, SecurityTab
  <2>4. made' \in Counters
    BY <1>4, <2>1 DEF handleChangePassword, Counters
  <2> QED
    BY <1>4, <2>2, <2>3, <2>4 DEF handleChangePassword
<1>5. CASE handleReactivateKeys
  <2>1. PICK pass \in Pws :
          /\ account' = [account EXCEPT
               !.wrap = wrapMailboxKeyWithPassphrase(pass, tab.prev.sk), !.prev = NoWrap]
          /\ shown' = shown \cup {tab.prev.sk}
    BY <1>5, ReactivatedKey
  <2>2. tab.prev.sk \in Keys
    BY DEF SecurityTab, Wrapped
  <2>3. wrapMailboxKeyWithPassphrase(pass, tab.prev.sk) \in Wrapped
    BY <2>2, PassphraseWrapTyped
  <2>4. account' \in AccountRow
    BY <2>1, <2>3, NoWrapTyped DEF AccountRow
  <2>5. tab' \in SecurityTab
    BY <1>5, NoWrapTyped DEF handleReactivateKeys, SecurityTab
  <2> QED
    BY <1>5, <2>1, <2>2, <2>4, <2>5 DEF handleReactivateKeys
<1> QED
  BY <1>1, <1>2, <1>3, <1>4, <1>5 DEF TabStep, ChangePasswordDialog

(* Every variable keeps its type. *)
THEOREM KeyRingTyped == KeyRingSpec => []KeyRingTypeOK
<1>1. KeyRingTypeOK /\ [KeyRingNext]_keyVars => KeyRingTypeOK'
  <2> SUFFICES ASSUME KeyRingTypeOK, [KeyRingNext]_keyVars PROVE KeyRingTypeOK'
    OBVIOUS
  <2>1. CASE UNCHANGED keyVars
    BY <2>1 DEF keyVars, KeyRingTypeOK
  <2> QED
    BY <2>1, WizardTyped, ForgotTyped, HealTyped, TabTyped DEF KeyRingNext
<1> QED
  BY <1>1, InitTyped, PTL DEF KeyRingSpec

-----------------------------------------------------------------------------
(* What the wizard holds, and which keys the row may name: the keys of the  *)
(* row and of the tab were made before now, a row that is not claimed has   *)
(* none, and the dialogs that change a row are open on a claimed one only.  *)

WizardHolds ==
  wizard.step \in 2..4 =>
    /\ wizard.wrap = [sk |-> wizard.pk, pw |-> wizard.pw, root |-> wizard.phrase]
    /\ wizard.phrase # 0
    /\ wizard.pk <= made.key

KeysAreMade ==
  /\ account.wrap.sk <= made.key
  /\ account.prev.sk <= made.key
  /\ tab.prev.sk <= made.key
  /\ ~account.private => 1 <= made.key

ClaimedFirst ==
  /\ account.claimed \/ (account.wrap = NoWrap /\ account.prev = NoWrap)
  /\ tab.open => account.claimed
  /\ \A b \in Browsers : forgot[b].step # 0 => account.claimed
  /\ \A b \in Browsers : heal[b] # 0 => account.claimed

KeyRingInv ==
  KeyRingTypeOK /\ WizardHolds /\ KeysAreMade /\ ClaimedFirst
    /\ PublicKeyOpens /\ ResetDoesNotRecover

(* What the wizard holds opens with what its screens show. *)
LEMMA HeldWrapOpens == KeyRingTypeOK /\ WizardHolds => WizardWrapOpens
<1> SUFFICES ASSUME KeyRingTypeOK, WizardHolds, wizard.step \in 2..4
             PROVE  /\ autoUnwrapMailboxKey(wizard.pw, wizard.wrap) = wizard.pk
                    /\ unwrapMailboxKeyWithRecoveryPhrase(wizard.phrase, wizard.wrap) = wizard.pk
  BY DEF WizardWrapOpens
<1>1. /\ wizard.wrap = [sk |-> wizard.pk, pw |-> wizard.pw, root |-> wizard.phrase]
      /\ wizard.phrase # 0
  BY DEF WizardHolds
<1>2. wizard.wrap # NoWrap
  BY <1>1 DEF NoWrap
<1> QED
  BY <1>1, <1>2 DEF autoUnwrapMailboxKey, unwrapMailboxKeyWithRecoveryPhrase

(* The invariant holds when the account is created. *)
LEMMA InitHolds == KeyRingInit => KeyRingInv
<1> SUFFICES ASSUME KeyRingInit PROVE KeyRingInv
  OBVIOUS
<1>1. wizard.step = 0 /\ account.wrap = NoWrap /\ account.prev = NoWrap /\ tab = NoTab
  BY DEF KeyRingInit, NoWizard
<1>2. WizardHolds
  BY <1>1 DEF WizardHolds
<1>3. made.key \in Nat /\ (~account.private => 1 <= made.key)
  BY DEF KeyRingInit
<1>4. KeysAreMade
  BY <1>1, <1>3 DEF KeysAreMade, NoTab, NoWrap
<1>5. ClaimedFirst
  BY <1>1 DEF ClaimedFirst, KeyRingInit, NoTab, NoForgot
<1>6. PublicKeyOpens /\ ResetDoesNotRecover
  BY <1>1 DEF PublicKeyOpens, ResetDoesNotRecover
<1> QED
  BY <1>2, <1>4, <1>5, <1>6, InitTyped DEF KeyRingInv

(* The steps that change neither the row, the tab nor what was made. *)
LEMMA RowUntouched ==
  ASSUME KeyRingInv, KeyRingTypeOK', UNCHANGED <<account, tab, born, shown, restored>>,
         made'.key >= made.key, WizardHolds',
         \A b \in Browsers : forgot'[b].step # 0 => account.claimed,
         \A b \in Browsers : heal'[b] # 0 => account.claimed
  PROVE  KeyRingInv'
<1>1. KeysAreMade'
  BY DEF KeyRingInv, KeysAreMade, KeyRingTypeOK, AccountRow, SecurityTab, Wrapped, Counters, Keys
<1>2. ClaimedFirst'
  BY DEF KeyRingInv, ClaimedFirst
<1>3. PublicKeyOpens' /\ ResetDoesNotRecover'
  BY DEF KeyRingInv, PublicKeyOpens, ResetDoesNotRecover
<1> QED
  BY <1>1, <1>2, <1>3 DEF KeyRingInv

(* The activation page keeps the invariant. *)
LEMMA WizardKeeps == KeyRingInv /\ WizardStep => KeyRingInv'
<1> SUFFICES ASSUME KeyRingInv, WizardStep PROVE KeyRingInv'
  OBVIOUS
<1>a. KeyRingTypeOK /\ KeyRingTypeOK'
  BY WizardTyped DEF KeyRingInv
<1>b. \A b \in Browsers : (forgot[b].step # 0 => account.claimed)
                         /\ (heal[b] # 0 => account.claimed)
  BY DEF KeyRingInv, ClaimedFirst
<1>c. made.key \in Nat /\ made.phrase \in Nat
  BY <1>a, CountersAreNumbers DEF KeyRingTypeOK
<1>1. CASE OpenSetup \/ verifyInvitation
  <2>1. WizardHolds'
    BY <1>1, <1>a DEF OpenSetup, NoWizard, verifyInvitation, WizardHolds, KeyRingTypeOK, WizardPage
  <2> QED
    BY <1>1, <1>a, <1>b, <1>c, <2>1, RowUntouched DEF OpenSetup, verifyInvitation, OnlyWizard
<1>2. CASE isPasswordValid
  <2>1. WizardHolds'
    BY <1>2, <1>a DEF isPasswordValid, WizardHolds, KeyRingTypeOK, WizardPage
  <2>2. made'.key = made.key
    BY <1>2, <1>a DEF isPasswordValid, KeyRingTypeOK, Counters
  <2> QED
    BY <1>2, <1>a, <1>b, <1>c, <2>1, <2>2, RowUntouched DEF isPasswordValid, OnlyWizard
<1>3. CASE handleProceedToKeys
  <2> DEFINE key == IF account.private THEN NewKey ELSE 1
  <2>1. made'.key = (IF account.private THEN NewKey ELSE made.key) /\ NewPhrase # 0
    BY <1>3, <1>a, <1>c DEF handleProceedToKeys, KeyRingTypeOK, Counters, NewPhrase
  <2>2. key <= made'.key /\ made'.key >= made.key
    BY <1>c, <2>1 DEF KeyRingInv, KeysAreMade, NewKey
  <2>3. /\ wizard'.pk = key /\ wizard'.pw = wizard.pw /\ wizard'.phrase = NewPhrase
        /\ wizard'.wrap = [sk |-> key, pw |-> wizard.pw, root |-> NewPhrase]
    BY <1>3, <1>a DEF handleProceedToKeys, KeyRingTypeOK, WizardPage
  <2>4. WizardHolds'
    BY <2>1, <2>2, <2>3 DEF WizardHolds
  <2> QED
    BY <1>3, <1>a, <1>b, <2>2, <2>4, RowUntouched DEF handleProceedToKeys, OnlyWizard
<1>4. CASE PhrasePage \/ FactorPage \/ ClaimRefused
  <2> USE DEF PhrasePage, FactorPage, ConfirmSaved, BackToPassword, handleProceedTo2FA,
              BackToPhrase, is2FAValid, handleFinalizeActivation, ClaimRefused
  <2>1. /\ wizard'.step \in 2..4 => wizard.step \in 2..4
        /\ wizard'.wrap = wizard.wrap /\ wizard'.pk = wizard.pk /\ wizard'.pw = wizard.pw
        /\ wizard'.phrase = wizard.phrase
    BY <1>4, <1>a DEF KeyRingTypeOK, WizardPage
  <2>2. UNCHANGED <<account, forgot, heal, tab, made, born, shown, restored>>
    BY <1>4 DEF OnlyWizard
  <2>3. WizardHolds'
    BY <2>1, <2>2 DEF KeyRingInv, WizardHolds
  <2> QED
    BY <1>a, <1>b, <1>c, <2>2, <2>3, RowUntouched
<1>5. ASSUME NEW answered \in BOOLEAN, Claim(answered)
      PROVE  KeyRingInv'
  <2>1. wizard.step = 3 /\ ~account.claimed /\ UNCHANGED <<forgot, heal, tab, made, shown, restored>>
    BY <1>5 DEF Claim
  <2>2. /\ wizard.wrap = [sk |-> wizard.pk, pw |-> wizard.pw, root |-> wizard.phrase]
        /\ wizard.phrase # 0 /\ wizard.pk <= made.key
    BY <2>1 DEF KeyRingInv, WizardHolds
  <2>3. account.prev = NoWrap /\ ~tab.open /\ \A b \in Browsers : forgot[b].step = 0
    BY <2>1 DEF KeyRingInv, ClaimedFirst
  <2>4. /\ account'.claimed /\ account'.pk = wizard.pk /\ account'.wrap = wizard.wrap
        /\ account'.prev = account.prev /\ account'.private = account.private
    BY <1>5, <1>a DEF Claim, KeyRingTypeOK, AccountRow
  <2>5. /\ wizard'.wrap = wizard.wrap /\ wizard'.pk = wizard.pk /\ wizard'.pw = wizard.pw
        /\ wizard'.phrase = wizard.phrase
    BY <1>5, <1>a DEF Claim, KeyRingTypeOK, WizardPage
  <2>6. born'[wizard.pk] = wizard.pw
    BY <1>5, <1>a DEF Claim, KeyRingTypeOK, WizardPage
  <2>7. WizardHolds'
    BY <2>1, <2>2, <2>5 DEF WizardHolds
  <2>8. KeysAreMade'
    BY <2>1, <2>2, <2>4 DEF KeyRingInv, KeysAreMade
  <2>9. ClaimedFirst'
    BY <2>4 DEF ClaimedFirst
  <2>10. PublicKeyOpens'
    BY <2>2, <2>4 DEF PublicKeyOpens
  <2>11. ResetDoesNotRecover'
    BY <2>2, <2>3, <2>4, <2>6 DEF ResetDoesNotRecover
  <2> QED
    BY <1>a, <2>7, <2>8, <2>9, <2>10, <2>11 DEF KeyRingInv
<1>6. CASE SealPhrase
  <2>1. /\ account'.claimed = account.claimed /\ account'.private = account.private
        /\ account'.pk = account.pk /\ account'.wrap = account.wrap /\ account'.prev = account.prev
    BY <1>6, <1>a DEF SealPhrase, KeyRingTypeOK, AccountRow
  <2>2. wizard' = NoWizard /\ UNCHANGED <<forgot, heal, tab, made, born, shown, restored>>
    BY <1>6 DEF SealPhrase
  <2>3. WizardHolds'
    BY <2>2 DEF WizardHolds, NoWizard
  <2>4. KeysAreMade'
    BY <2>1, <2>2 DEF KeyRingInv, KeysAreMade
  <2>5. ClaimedFirst'
    BY <2>1, <2>2 DEF KeyRingInv, ClaimedFirst
  <2>6. PublicKeyOpens' /\ ResetDoesNotRecover'
    BY <2>1, <2>2 DEF KeyRingInv, PublicKeyOpens, ResetDoesNotRecover
  <2> QED
    BY <1>a, <2>3, <2>4, <2>5, <2>6 DEF KeyRingInv
<1> QED
  BY <1>1, <1>2, <1>3, <1>4, <1>5, <1>6 DEF WizardStep, PasswordPage

(* The steps that put a fresh key pair into the row: a reset, whatever      *)
(* phrase came with it, and the registration at login.                      *)
LEMMA FreshKeyKeeps ==
  ASSUME KeyRingInv, KeyRingTypeOK', account.claimed, NEW pw \in Pws, NewKey \in Keys,
         /\ account'.claimed = account.claimed /\ account'.private = account.private
         /\ account'.pk = NewKey
         /\ account'.wrap = wrapMailboxKeyWithPassphrase(pw, NewKey)
         /\ account'.prev \in {account.wrap, account.prev},
         made' = [made EXCEPT !.key = NewKey],
         born' = [born EXCEPT ![NewKey] = pw],
         tab' \in {tab, NoTab}, UNCHANGED <<wizard, shown, restored>>
  PROVE  KeyRingInv'
<1>1. KeyRingTypeOK /\ made.key \in Nat /\ made'.key = NewKey
  BY CountersAreNumbers DEF KeyRingInv, KeyRingTypeOK, Counters
<1>2. account'.wrap.sk = NewKey /\ account'.wrap.pw = pw
  BY DEF wrapMailboxKeyWithPassphrase
<1>3. /\ account.wrap.sk \in Nat /\ account.prev.sk \in Nat /\ tab.prev.sk \in Nat
      /\ wizard.pk \in Nat
  BY <1>1, KeyRingAssumption
     DEF KeyRingTypeOK, AccountRow, SecurityTab, WizardPage, Wrapped, Keys
<1>4. WizardHolds'
  BY <1>1, <1>3 DEF KeyRingInv, WizardHolds, NewKey
<1>5. KeysAreMade'
  <2>1. tab'.prev.sk \in {0, tab.prev.sk}
    BY DEF NoTab, NoWrap
  <2> QED BY <1>1, <1>2, <1>3, <2>1 DEF KeyRingInv, KeysAreMade, NewKey
<1>6. ClaimedFirst'
  BY DEF ClaimedFirst
<1>7. PublicKeyOpens'
  BY <1>2 DEF PublicKeyOpens
<1>8. ResetDoesNotRecover'
  <2>1. born'[NewKey] = pw
    BY <1>1 DEF KeyRingTypeOK
  <2>2. account'.prev.sk # NewKey
    BY <1>1, <1>3 DEF KeyRingInv, KeysAreMade, NewKey
  <2>3. born'[account'.prev.sk] = born[account'.prev.sk]
    BY <1>1, <2>2 DEF KeyRingTypeOK, AccountRow, Wrapped
  <2> QED
    BY <1>2, <2>1, <2>3 DEF KeyRingInv, ResetDoesNotRecover
<1> QED
  BY <1>4, <1>5, <1>6, <1>7, <1>8 DEF KeyRingInv

(* The forgotten-password dialog keeps the invariant: the key it puts *)
(* into the row is always a fresh one.                                *)
LEMMA ForgotKeeps ==
  ASSUME KeyRingInv, NEW b \in Browsers, ForgotStep(b) PROVE KeyRingInv'
<1>a. KeyRingTypeOK /\ KeyRingTypeOK'
  BY ForgotTyped DEF KeyRingInv
<1>b. \A c \in Browsers : (forgot[c].step # 0 => account.claimed)
                         /\ (heal[c] # 0 => account.claimed)
  BY DEF KeyRingInv, ClaimedFirst
<1>1. CASE handleOpenForgotPassword(b) \/ handleRequestRecoveryCode(b) \/ BackToMethods(b)
           \/ TypeReset(b)
  <2> USE DEF handleOpenForgotPassword, handleRequestRecoveryCode, BackToMethods, TypeReset,
              OnlyForgot
  <2>1. UNCHANGED <<wizard, account, heal, tab, born, shown, restored>>
    BY <1>1
  <2>2. account.claimed
    <3>1. 1 # 0 /\ 2 # 0
      OBVIOUS
    <3>2. account.claimed \/ forgot[b].step # 0
      BY <1>1, <3>1
    <3> QED
      BY <3>2, <1>b
  <2>3. made'.key = made.key /\ made.key \in Nat
    BY <1>1, <1>a, CountersAreNumbers DEF KeyRingTypeOK, Counters
  <2>4. WizardHolds'
    BY <2>1, <2>3 DEF KeyRingInv, WizardHolds
  <2> QED
    BY <1>a, <2>1, <2>2, <2>3, <2>4, RowUntouched
<1>2. CASE handleResetPasswordWithRecovery(b)
  <2> DEFINE f == forgot[b]
  <2>1. rewrapOldKey(f) = NoWrap
    BY RewrapThrows
  <2>2. /\ NewKey \in Keys /\ ServerReset(f, NoWrap)
        /\ made' = [made EXCEPT !.key = NewKey] /\ born' = [born EXCEPT ![NewKey] = f.pw]
        /\ tab' = NoTab /\ UNCHANGED <<wizard, shown, restored>>
    BY <1>2, <2>1 DEF RevokeSessions, handleResetPasswordWithRecovery
  <2>3. account.claimed /\ f.pw \in Pws
    BY <1>2, <1>a, <1>b DEF handleResetPasswordWithRecovery, KeyRingTypeOK, ForgotDialog
  <2>4. /\ account'.claimed = account.claimed /\ account'.private = account.private
        /\ account'.pk = NewKey
        /\ account'.wrap = wrapMailboxKeyWithPassphrase(f.pw, NewKey)
        /\ account'.prev \in {account.wrap, account.prev}
    <3> HIDE DEF f
    <3> QED
      BY <1>a, <2>2 DEF ServerReset, KeyRingTypeOK, AccountRow
  <2> QED
    BY <1>a, <2>2, <2>3, <2>4, FreshKeyKeeps
<1> QED
  BY <1>1, <1>2 DEF ForgotStep, MethodsPage, ResetPage

(* The registration of a key pair at login keeps the invariant. *)
LEMMA HealKeeps ==
  ASSUME KeyRingInv, NEW b \in Browsers, HealStep(b) PROVE KeyRingInv'
<1>a. KeyRingTypeOK /\ KeyRingTypeOK' /\ made.key \in Nat
  BY HealTyped, CountersAreNumbers DEF KeyRingInv, KeyRingTypeOK
<1>b. \A c \in Browsers : (forgot[c].step # 0 => account.claimed)
                         /\ (heal[c] # 0 => account.claimed)
  BY DEF KeyRingInv, ClaimedFirst
<1>1. CASE LoginFindsNoKey(b) \/ HealFails(b)
  <2>1. UNCHANGED <<wizard, account, forgot, tab, made, born, shown, restored>>
    BY <1>1 DEF LoginFindsNoKey, HealFails
  <2>2. \A c \in Browsers : heal'[c] # 0 => account.claimed
    BY <1>1, <1>a, <1>b DEF LoginFindsNoKey, HealFails, KeyRingTypeOK
  <2>3. WizardHolds'
    BY <2>1 DEF KeyRingInv, WizardHolds
  <2> QED
    BY <1>a, <1>b, <2>1, <2>2, <2>3, RowUntouched
<1>2. CASE SelfHeal(b)
  <2>1. heal[b] \in Pws /\ account.claimed
    BY <1>2, <1>a, <1>b DEF SelfHeal, KeyRingTypeOK
  <2>2. /\ account'.claimed = account.claimed /\ account'.private = account.private
        /\ account'.pk = NewKey
        /\ account'.wrap = wrapMailboxKeyWithPassphrase(heal[b], NewKey)
        /\ account'.prev \in {account.wrap, account.prev}
    BY <1>2, <1>a DEF SelfHeal, KeyRingTypeOK, AccountRow
  <2> QED
    BY <1>2, <1>a, <2>1, <2>2, FreshKeyKeeps DEF SelfHeal
<1> QED
  BY <1>1, <1>2 DEF HealStep

(* The security tab keeps the invariant; only handleReactivateKeys puts an *)
(* older key back, and it has been shown the phrase or a password of it.   *)
LEMMA TabKeeps == KeyRingInv /\ TabStep => KeyRingInv'
<1> SUFFICES ASSUME KeyRingInv, TabStep PROVE KeyRingInv'
  OBVIOUS
<1>a. KeyRingTypeOK /\ KeyRingTypeOK'
  BY TabTyped DEF KeyRingInv
<1>b. \A c \in Browsers : (forgot[c].step # 0 => account.claimed)
                         /\ (heal[c] # 0 => account.claimed)
  BY DEF KeyRingInv, ClaimedFirst
<1>c. made.key \in Nat
  BY <1>a, CountersAreNumbers DEF KeyRingTypeOK
<1>1. CASE loadData \/ CloseTab \/ VerifyCurrentPassword \/ KeyDialogs
  <2> USE DEF loadData, CloseTab, VerifyCurrentPassword, KeyDialogs, handleExportPrivateKey,
              handleRevealPhrase, OnlyTab
  <2>1. UNCHANGED <<wizard, account, forgot, heal, made, born, shown, restored>>
    BY <1>1
  <2>2. /\ tab'.prev \in {tab.prev, account.prev, NoWrap}
        /\ tab'.open => account.claimed
    <3>0. tab.open => account.claimed
      BY DEF KeyRingInv, ClaimedFirst
    <3>1. CASE loadData
      BY <3>1 DEF NoTab
    <3>2. CASE CloseTab
      BY <3>2 DEF NoTab
    <3>3. CASE VerifyCurrentPassword
      BY <3>0, <3>3, <1>a DEF KeyRingTypeOK, SecurityTab
    <3>4. CASE handleExportPrivateKey \/ handleRevealPhrase
      BY <3>0, <3>4, <1>a DEF KeyRingTypeOK, SecurityTab
    <3> QED
      BY <1>1, <3>1, <3>2, <3>3, <3>4
  <2>3. WizardHolds'
    BY <2>1 DEF KeyRingInv, WizardHolds
  <2>4. KeysAreMade'
    BY <1>c, <2>1, <2>2 DEF KeyRingInv, KeysAreMade, NoWrap
  <2>5. ClaimedFirst'
    BY <2>1, <2>2 DEF KeyRingInv, ClaimedFirst
  <2>6. PublicKeyOpens' /\ ResetDoesNotRecover'
    BY <2>1 DEF KeyRingInv, PublicKeyOpens, ResetDoesNotRecover
  <2> QED
    BY <1>a, <2>3, <2>4, <2>5, <2>6 DEF KeyRingInv
<1>2. CASE handleChangePassword
  <2>1. /\ account'.claimed = account.claimed /\ account'.private = account.private
        /\ account'.pk = account.pk /\ account'.wrap = account.wrap /\ account'.prev = account.prev
    BY <1>2, <1>a DEF handleChangePassword, KeyRingTypeOK, AccountRow
  <2>2. tab'.prev = tab.prev /\ tab'.open = tab.open
    BY <1>2, <1>a DEF handleChangePassword, KeyRingTypeOK, SecurityTab
  <2>3. made'.key = made.key /\ UNCHANGED <<wizard, forgot, heal, born, shown, restored>>
    BY <1>2, <1>a DEF handleChangePassword, OnlyTab, KeyRingTypeOK, Counters
  <2>4. WizardHolds'
    BY <2>3 DEF KeyRingInv, WizardHolds
  <2>5. KeysAreMade'
    BY <2>1, <2>2, <2>3 DEF KeyRingInv, KeysAreMade
  <2>6. ClaimedFirst'
    BY <2>1, <2>2, <2>3 DEF KeyRingInv, ClaimedFirst
  <2>7. PublicKeyOpens' /\ ResetDoesNotRecover'
    BY <2>1, <2>3 DEF KeyRingInv, PublicKeyOpens, ResetDoesNotRecover
  <2> QED
    BY <1>a, <2>4, <2>5, <2>6, <2>7 DEF KeyRingInv
<1>3. CASE handleReactivateKeys
  <2>1. PICK pass \in Pws :
          /\ account' = [account EXCEPT
               !.wrap = wrapMailboxKeyWithPassphrase(pass, tab.prev.sk), !.prev = NoWrap]
          /\ shown' = shown \cup {tab.prev.sk}
    BY <1>3, <1>a, ReactivatedKey
  <2>2. /\ account'.claimed = account.claimed /\ account'.private = account.private
        /\ account'.wrap = wrapMailboxKeyWithPassphrase(pass, tab.prev.sk)
        /\ account'.prev = NoWrap
    BY <1>a, <2>1 DEF KeyRingTypeOK, AccountRow
  <2>3. account'.wrap.sk = tab.prev.sk
    BY <2>2 DEF wrapMailboxKeyWithPassphrase
  <2>4. tab'.prev = NoWrap /\ tab'.open /\ tab.open
    BY <1>3, <1>a DEF handleReactivateKeys, KeyRingTypeOK, SecurityTab
  <2>5. restored' /\ UNCHANGED <<wizard, forgot, heal, made, born>>
    BY <1>3 DEF handleReactivateKeys
  <2>6. WizardHolds'
    BY <2>5 DEF KeyRingInv, WizardHolds
  <2>7. KeysAreMade'
    BY <1>c, <2>2, <2>3, <2>4, <2>5 DEF KeyRingInv, KeysAreMade, NoWrap
  <2>8. ClaimedFirst'
    BY <2>2, <2>4, <2>5 DEF KeyRingInv, ClaimedFirst
  <2>9. PublicKeyOpens'
    BY <2>5 DEF PublicKeyOpens
  <2>10. ResetDoesNotRecover'
    BY <2>1, <2>2, <2>3 DEF ResetDoesNotRecover
  <2> QED
    BY <1>a, <2>6, <2>7, <2>8, <2>9, <2>10 DEF KeyRingInv
<1> QED
  BY <1>1, <1>2, <1>3 DEF TabStep, ChangePasswordDialog

(* The invariant holds in every reachable state. *)
LEMMA KeyRingInvariant == KeyRingSpec => []KeyRingInv
<1>1. KeyRingInv /\ [KeyRingNext]_keyVars => KeyRingInv'
  <2> SUFFICES ASSUME KeyRingInv, [KeyRingNext]_keyVars PROVE KeyRingInv'
    OBVIOUS
  <2>1. CASE UNCHANGED keyVars
    BY <2>1 DEF keyVars, KeyRingInv, KeyRingTypeOK, WizardHolds, KeysAreMade, ClaimedFirst,
                PublicKeyOpens, ResetDoesNotRecover
  <2> QED
    BY <2>1, WizardKeeps, ForgotKeeps, HealKeeps, TabKeeps DEF KeyRingNext
<1> QED
  BY <1>1, InitHolds, PTL DEF KeyRingSpec

(* However often the user of the activation page goes back and forth, what  *)
(* handleFinalizeActivation sends opens with the password and the phrase on *)
(* its screens.                                                             *)
THEOREM ActivationWrapOpens == KeyRingSpec => []WizardWrapOpens
<1>1. KeyRingInv => WizardWrapOpens
  BY HeldWrapOpens DEF KeyRingInv
<1> QED
  BY <1>1, KeyRingInvariant, PTL

(* Until handleReactivateKeys has restored a key, the public key senders    *)
(* encrypt to belongs to the secret key the row holds, whatever resets and  *)
(* logins overlap.                                                          *)
THEOREM RegisteredKeyOpens == KeyRingSpec => []PublicKeyOpens
<1>1. KeyRingInv => PublicKeyOpens
  BY DEF KeyRingInv
<1> QED
  BY <1>1, KeyRingInvariant, PTL

(* No sequence of resets re-wraps a key under a new password without its    *)
(* phrase or an old password having been presented.                         *)
THEOREM ResetsRecoverNothing == KeyRingSpec => []ResetDoesNotRecover
<1>1. KeyRingInv => ResetDoesNotRecover
  BY DEF KeyRingInv
<1> QED
  BY <1>1, KeyRingInvariant, PTL

-----------------------------------------------------------------------------
(* The recovery page: what is under way when a phrase is shown.            *)

(* The sets the recovery page's state and its continuations range over. *)
RotationOps == {"private", "managed", "rotate", "reenroll", "rotateManaged"}
PageOps == {"enroll", "challenge", "verify", "password", "load", "list", "listBusy",
            "addPrincipal", "revoke"}
RootRow == [wrap : Root, version : Nat, trusted : BOOLEAN, sealed : Root]
RootRows == [RootBoxes -> RootRow]
Anchors == [RootBoxes -> Root]
Principals == [name : Names, active : BOOLEAN]
PhraseForm == [phrase : Root, verified : BOOLEAN]
EnrollForm == [words : Root, busy : BOOLEAN, done : BOOLEAN]
RecoverForm == [words : Root, busy : BOOLEAN, done : BOOLEAN,
                pwBusy : BOOLEAN, pwDone : BOOLEAN]
RotateForm == [box : RootBoxes \cup {"none"}, mode : {"none", "private", "org_managed"},
               loading : BOOLEAN, words : Root, busy : BOOLEAN, version : Nat,
               phrase : Root, file : BOOLEAN]
PrincForm == [list : SUBSET Principals, member : BOOLEAN, loading : BOOLEAN,
              name : Names \cup {"none"}, file : BOOLEAN, busy : BOOLEAN]
Continuations == [op : RotationOps \cup PageOps, box : RootBoxes \cup {"none"},
                  root : Root, name : Names \cup {"none"}, id : 0 .. MaxClicks]

(* The type invariant, over the named sets. *)
RotationTyped ==
  /\ boxRows \in RootRows
  /\ anchor \in Anchors
  /\ verifier \in Root /\ verifiers \subseteq Root /\ held \subseteq Root
  /\ minted \in Root /\ challenges \subseteq 0 .. MaxClicks
  /\ principals \subseteq Principals
  /\ phraseTab \in PhraseForm
  /\ enrollTab \in EnrollForm
  /\ recoverTab \in RecoverForm
  /\ rotateTab \in RotateForm
  /\ princTab \in PrincForm
  /\ clicks \in 0 .. MaxClicks
  /\ pending \subseteq Continuations

(* A request of the principals' form carries a name, one of a rotation the *)
(* mailbox it is for.                                                       *)
RequestNamed(c) ==
  /\ c.op \in {"addPrincipal", "revoke"} => c.name \in Names
  /\ c.op \in {"rotate", "reenroll"} => c.box \in PrivateBoxes
  /\ c.op = "rotateManaged" => c.box \in ManagedBoxes

(* Every request under way is named so. *)
RequestsNamed == \A c \in pending : RequestNamed(c)

(* At most one continuation belongs to a rotation, and the form is busy then. *)
OneRotation ==
  /\ \A c \in pending : c.op \in RotationOps => rotateTab.busy
  /\ \A c, d \in pending : c.op \in RotationOps /\ d.op \in RotationOps => c = d

(* A mailbox whose new verifier is being enrolled was rotated to that root. *)
EnrolledAfterRotation == \A c \in pending : c.op = "reenroll" => anchor[c.box] = c.root

(* A phrase on show comes with a version, and no rotation is under way then. *)
ShownAtRest ==
  /\ \A b \in RootBoxes : boxRows[b].version # 0
  /\ rotateTab.phrase # 0 => rotateTab.version # 0 /\ ~rotateTab.busy

(* What makes PhraseShownIsEnrolled inductive: the phrase of a rotation is *)
(* shown only when its last continuation ends, and that one carries the    *)
(* root its mailbox was rotated to.                                        *)
RotationSafe ==
  /\ RequestsNamed
  /\ OneRotation
  /\ EnrolledAfterRotation
  /\ ShownAtRest
  /\ PhraseShownIsEnrolled

(* The inductive invariant of the recovery page. *)
RotationInv == RotationTyped /\ RotationSafe

(* The roots are numbers, zero standing for none. *)
LEMMA RootFacts == 0 \in Root /\ FirstRoot \in Root /\ Root \subseteq Nat
BY RotationAssumption DEF Root, FirstRoot

(* The named sets are those of Rotation's type invariant. *)
LEMMA RotationTypedImplies == RotationTyped => RotationTypeOK
BY DEF RotationTyped, RotationTypeOK, RootRows, RootRow, Anchors, Principals, PhraseForm, EnrollForm,
       RecoverForm, RotateForm, PrincForm

(* The page that was just opened, nothing under way. *)
LEMMA RotationInitHolds == RotationInit => RotationInv
<1> SUFFICES ASSUME RotationInit PROVE RotationInv
  OBVIOUS
<1>1. boxRows \in RootRows /\ anchor \in Anchors
  BY RootFacts DEF RotationInit, RootRows, RootRow, Anchors, FirstRoot
<1>2. rotateTab \in RotateForm /\ princTab \in PrincForm
  BY RootFacts DEF RotationInit, RotateForm, PrincForm, NoRotation
<1>3. phraseTab \in PhraseForm /\ enrollTab \in EnrollForm /\ recoverTab \in RecoverForm
  BY RootFacts DEF RotationInit, PhraseForm, EnrollForm, RecoverForm
<1>4. RotationTyped
  BY <1>1, <1>2, <1>3, RootFacts, RotationAssumption DEF RotationInit, RotationTyped
<1>5. RotationSafe
  BY DEF RotationInit, RotationSafe, RequestsNamed, OneRotation, EnrolledAfterRotation,
         ShownAtRest, PhraseShownIsEnrolled, NoRotation
<1> QED BY <1>4, <1>5 DEF RotationInv

(* A handler that starts leaves the continuations and the count well formed. *)
LEMMA StartTyped ==
  ASSUME RotationTyped, NEW c \in Continuations, Started(c)
  PROVE  /\ pending' \subseteq Continuations /\ clicks' \in 0 .. MaxClicks
         /\ \E d \in Continuations : /\ pending' = pending \cup {d}
                                     /\ d.op = c.op /\ d.box = c.box /\ d.name = c.name
<1>1. clicks \in 0 .. MaxClicks /\ pending \subseteq Continuations
  BY DEF RotationTyped
<1>2. clicks' \in 0 .. MaxClicks
  BY <1>1, RotationAssumption DEF Started
<1> DEFINE d == [c EXCEPT !.id = clicks]
<1>3. d \in Continuations /\ d.op = c.op /\ d.box = c.box /\ d.name = c.name
  BY <1>1 DEF Continuations
<1>4. pending' = pending \cup {d}
  BY DEF Started
<1> QED BY <1>1, <1>2, <1>3, <1>4

(* A continuation that moves on or ends leaves the others. *)
LEMMA AnswerTyped ==
  ASSUME RotationTyped, NEW c \in pending, NEW op \in RotationOps \cup PageOps
  PROVE  /\ Ends(c) => pending' \subseteq Continuations
         /\ GoesOn(c, op) => /\ pending' \subseteq Continuations
                             /\ \E d \in Continuations :
                                  /\ pending' = (pending \ {c}) \cup {d}
                                  /\ d.op = op /\ d.box = c.box /\ d.name = c.name
                                  /\ d.root = c.root
<1> DEFINE d == [c EXCEPT !.op = op]
<1>1. d \in Continuations /\ d.op = op /\ d.box = c.box /\ d.name = c.name /\ d.root = c.root
  BY DEF RotationTyped, Continuations
<1>2. GoesOn(c, op) => pending' = (pending \ {c}) \cup {d}
  BY DEF GoesOn
<1> QED BY <1>1, <1>2 DEF RotationTyped, Ends

(* A step that leaves the rotated rows and the rotation's part of the form   *)
(* alone, takes no verifier back and adds no request of a rotation is safe. *)
LEMMA QuietSafe ==
  ASSUME RotationTyped, RotationSafe, UNCHANGED <<boxRows, anchor>>,
         verifiers \subseteq verifiers',
         rotateTab'.busy = rotateTab.busy, rotateTab'.phrase = rotateTab.phrase,
         rotateTab'.version = rotateTab.version,
         \A d \in pending' \ pending : d.op \in PageOps /\ RequestNamed(d)
  PROVE  RotationSafe'
<1>1. PageOps \cap RotationOps = {} /\ "reenroll" \notin PageOps
  BY DEF PageOps, RotationOps
<1>2. RequestsNamed'
  BY DEF RotationSafe, RequestsNamed, RequestNamed
<1>3. OneRotation'
  BY <1>1 DEF RotationSafe, OneRotation
<1>4. EnrolledAfterRotation'
  BY <1>1 DEF RotationSafe, EnrolledAfterRotation
<1>5. ShownAtRest' /\ PhraseShownIsEnrolled'
  BY DEF RotationSafe, ShownAtRest, PhraseShownIsEnrolled
<1> QED BY <1>2, <1>3, <1>4, <1>5 DEF RotationSafe

(* Phrase tab: generating, verifying and clearing a phrase. *)
LEMMA PhraseTabStep ==
  ASSUME RotationInv, PhraseTab
  PROVE  RotationInv'
<1> USE DEF RotationInv
<1>1. CASE handleGenerate
  <2>1. minted' \in Root /\ phraseTab' \in PhraseForm /\ held' \subseteq Root
    BY <1>1, RotationAssumption DEF handleGenerate, RotationTyped, Root, PhraseForm
  <2>2. UNCHANGED <<boxRows, anchor, verifier, verifiers, challenges, principals, enrollTab,
                    recoverTab, rotateTab, princTab, pending, clicks>>
    BY <1>1 DEF handleGenerate, serverVars
  <2>3. RotationTyped'
    BY <2>1, <2>2 DEF RotationTyped
  <2>4. RotationSafe'
    BY <2>1, <2>2, QuietSafe
  <2> QED BY <2>3, <2>4 DEF RotationInv
<1>2. CASE handleVerify
  <2>1. phraseTab' \in PhraseForm
    BY <1>2 DEF handleVerify, RotationTyped, PhraseForm
  <2>2. UNCHANGED <<boxRows, anchor, verifier, verifiers, challenges, principals, enrollTab,
                    recoverTab, rotateTab, princTab, held, minted, pending, clicks>>
    BY <1>2 DEF handleVerify, serverVars
  <2>3. RotationTyped'
    BY <2>1, <2>2 DEF RotationTyped
  <2>4. RotationSafe'
    BY <2>1, <2>2, QuietSafe
  <2> QED BY <2>3, <2>4 DEF RotationInv
<1>3. CASE ClearPhrase
  <2>1. phraseTab' \in PhraseForm
    BY <1>3, RootFacts DEF ClearPhrase, RotationTyped, PhraseForm
  <2>2. UNCHANGED <<boxRows, anchor, verifier, verifiers, challenges, principals, enrollTab,
                    recoverTab, rotateTab, princTab, held, minted, pending, clicks>>
    BY <1>3 DEF ClearPhrase, serverVars
  <2>3. RotationTyped'
    BY <2>1, <2>2 DEF RotationTyped
  <2>4. RotationSafe'
    BY <2>1, <2>2, QuietSafe
  <2> QED BY <2>3, <2>4 DEF RotationInv
<1> QED BY <1>1, <1>2, <1>3 DEF PhraseTab

(* Enrolment: the form is filled, or its request sent. *)
LEMMA EnrollTabStep ==
  ASSUME RotationInv, EnrollTab
  PROVE  RotationInv'
<1> USE DEF RotationInv
<1>1. CASE \E r \in held : /\ enrollTab' = [enrollTab EXCEPT !.words = r]
                          /\ UNCHANGED <<serverVars, phraseTab, recoverTab, rotateTab, princTab,
                                         held, minted, pending, clicks>>
  <2>1. enrollTab' \in EnrollForm
    BY <1>1 DEF EnrollForm, RotationTyped
  <2>2. UNCHANGED <<boxRows, anchor, verifier, verifiers, challenges, principals, phraseTab,
                    recoverTab, rotateTab, princTab, held, minted, pending, clicks>>
    BY <1>1 DEF EnrollForm, serverVars
  <2>3. RotationTyped'
    BY <2>1, <2>2 DEF RotationTyped
  <2>4. RotationSafe'
    BY <2>1, <2>2, QuietSafe
  <2> QED BY <2>3, <2>4 DEF RotationInv
<1>2. CASE handleEnroll
  <2>1. Continuation("enroll", "none", enrollTab.words, "none") \in Continuations
    BY <1>2, RootFacts, RotationAssumption DEF handleEnroll, Continuation, Continuations, PageOps,
                                               RotationOps, RotationTyped, EnrollForm
  <2>2. /\ pending' \subseteq Continuations /\ clicks' \in 0 .. MaxClicks
        /\ \A d \in pending' \ pending : d.op \in PageOps /\ RequestNamed(d)
    BY <1>2, <2>1, StartTyped DEF handleEnroll, Continuation, PageOps, RequestNamed
  <2>3. enrollTab' \in EnrollForm
    BY <1>2 DEF handleEnroll, EnrollForm, RotationTyped
  <2>4. UNCHANGED <<boxRows, anchor, verifier, verifiers, challenges, principals, phraseTab,
                    recoverTab, rotateTab, princTab, held, minted>>
    BY <1>2 DEF handleEnroll, serverVars
  <2>5. RotationTyped'
    BY <2>1, <2>2, <2>3, <2>4 DEF RotationTyped
  <2>6. RotationSafe'
    BY <2>1, <2>2, <2>3, <2>4, QuietSafe
  <2> QED BY <2>5, <2>6 DEF RotationInv
<1> QED BY <1>1, <1>2 DEF EnrollTab

(* Recovery: the forms are filled, or their requests sent. *)
LEMMA RecoverTabStep ==
  ASSUME RotationInv, RecoverTab
  PROVE  RotationInv'
<1> USE DEF RotationInv
<1>1. CASE \E r \in held : /\ recoverTab' = [recoverTab EXCEPT !.words = r]
                          /\ UNCHANGED <<serverVars, phraseTab, enrollTab, rotateTab, princTab,
                                         held, minted, pending, clicks>>
  <2>1. recoverTab' \in RecoverForm
    BY <1>1 DEF RecoverForm, RotationTyped
  <2>2. UNCHANGED <<boxRows, anchor, verifier, verifiers, challenges, principals, phraseTab,
                    enrollTab, rotateTab, princTab, held, minted, pending, clicks>>
    BY <1>1 DEF RecoverForm, serverVars
  <2>3. RotationTyped'
    BY <2>1, <2>2 DEF RotationTyped
  <2>4. RotationSafe'
    BY <2>1, <2>2, QuietSafe
  <2> QED BY <2>3, <2>4 DEF RotationInv
<1>2. CASE handleRecover
  <2>1. Continuation("challenge", "none", recoverTab.words, "none") \in Continuations
    BY <1>2, RootFacts, RotationAssumption DEF handleRecover, Continuation, Continuations, PageOps,
                                               RotationOps, RotationTyped, RecoverForm
  <2>2. /\ pending' \subseteq Continuations /\ clicks' \in 0 .. MaxClicks
        /\ \A d \in pending' \ pending : d.op \in PageOps /\ RequestNamed(d)
    BY <1>2, <2>1, StartTyped DEF handleRecover, Continuation, PageOps, RequestNamed
  <2>3. recoverTab' \in RecoverForm
    BY <1>2 DEF handleRecover, RecoverForm, RotationTyped
  <2>4. UNCHANGED <<boxRows, anchor, verifier, verifiers, challenges, principals, phraseTab,
                    enrollTab, rotateTab, princTab, held, minted>>
    BY <1>2 DEF handleRecover, serverVars
  <2>5. RotationTyped'
    BY <2>1, <2>2, <2>3, <2>4 DEF RotationTyped
  <2>6. RotationSafe'
    BY <2>1, <2>2, <2>3, <2>4, QuietSafe
  <2> QED BY <2>5, <2>6 DEF RotationInv
<1>3. CASE handleChangePasswordRecovery
  <2>1. Continuation("password", "none", 0, "none") \in Continuations
    BY <1>3, RootFacts, RotationAssumption DEF handleChangePasswordRecovery, Continuation,
                                               Continuations, PageOps, RotationOps, RotationTyped
  <2>2. /\ pending' \subseteq Continuations /\ clicks' \in 0 .. MaxClicks
        /\ \A d \in pending' \ pending : d.op \in PageOps /\ RequestNamed(d)
    BY <1>3, <2>1, StartTyped DEF handleChangePasswordRecovery, Continuation, PageOps, RequestNamed
  <2>3. recoverTab' \in RecoverForm
    BY <1>3 DEF handleChangePasswordRecovery, RecoverForm, RotationTyped
  <2>4. UNCHANGED <<boxRows, anchor, verifier, verifiers, challenges, principals, phraseTab,
                    enrollTab, rotateTab, princTab, held, minted>>
    BY <1>3 DEF handleChangePasswordRecovery, serverVars
  <2>5. RotationTyped'
    BY <2>1, <2>2, <2>3, <2>4 DEF RotationTyped
  <2>6. RotationSafe'
    BY <2>1, <2>2, <2>3, <2>4, QuietSafe
  <2> QED BY <2>5, <2>6 DEF RotationInv
<1> QED BY <1>1, <1>2, <1>3 DEF RecoverTab

(* Principals: the tab is opened, its form filled or its requests sent. *)
LEMMA PrincipalsStep ==
  ASSUME RotationInv, PrincipalsTab \/ OpenPrincipals
  PROVE  RotationInv'
<1> USE DEF RotationInv
<1>1. CASE \E n \in Names : /\ princTab' = [princTab EXCEPT !.name = n, !.file = TRUE]
                           /\ UNCHANGED <<serverVars, phraseTab, enrollTab, recoverTab, rotateTab,
                                          held, minted, pending, clicks>>
  <2>1. princTab' \in PrincForm
    BY <1>1 DEF PrincForm, RotationTyped
  <2>2. UNCHANGED <<boxRows, anchor, verifier, verifiers, challenges, principals, phraseTab,
                    enrollTab, recoverTab, rotateTab, held, minted, pending, clicks>>
    BY <1>1 DEF PrincForm, serverVars
  <2>3. RotationTyped'
    BY <2>1, <2>2 DEF RotationTyped
  <2>4. RotationSafe'
    BY <2>1, <2>2, QuietSafe
  <2> QED BY <2>3, <2>4 DEF RotationInv
<1>2. CASE handleEnrollPrincipal
  <2>1. Continuation("addPrincipal", "none", 0, princTab.name) \in Continuations
    BY <1>2, RootFacts, RotationAssumption DEF handleEnrollPrincipal, Continuation, Continuations,
                                               PageOps, RotationOps, RotationTyped, PrincForm
  <2>2. /\ pending' \subseteq Continuations /\ clicks' \in 0 .. MaxClicks
        /\ \A d \in pending' \ pending : d.op \in PageOps /\ RequestNamed(d)
    BY <1>2, <2>1, StartTyped DEF handleEnrollPrincipal, Continuation, PageOps, RequestNamed,
                                  RotationTyped, PrincForm
  <2>3. princTab' \in PrincForm
    BY <1>2 DEF handleEnrollPrincipal, PrincForm, RotationTyped
  <2>4. UNCHANGED <<boxRows, anchor, verifier, verifiers, challenges, principals, phraseTab,
                    enrollTab, recoverTab, rotateTab, held, minted>>
    BY <1>2 DEF handleEnrollPrincipal, serverVars
  <2>5. RotationTyped'
    BY <2>1, <2>2, <2>3, <2>4 DEF RotationTyped
  <2>6. RotationSafe'
    BY <2>1, <2>2, <2>3, <2>4, QuietSafe
  <2> QED BY <2>5, <2>6 DEF RotationInv
<1>3. ASSUME NEW r \in princTab.list, handleRevokePrincipal(r) PROVE RotationInv'
  <2>1. r.name \in Names
    BY DEF RotationTyped, PrincForm, Principals
  <2>2. Continuation("revoke", "none", 0, r.name) \in Continuations
    BY <2>1, RootFacts, RotationAssumption DEF Continuation, Continuations, PageOps
  <2>3. /\ pending' \subseteq Continuations /\ clicks' \in 0 .. MaxClicks
        /\ \A d \in pending' \ pending : d.op \in PageOps /\ RequestNamed(d)
    BY <1>3, <2>1, <2>2, StartTyped
       DEF handleRevokePrincipal, Continuation, PageOps, RequestNamed
  <2>4. UNCHANGED <<boxRows, anchor, verifier, verifiers, challenges, principals, phraseTab,
                    enrollTab, recoverTab, rotateTab, princTab, held, minted>>
    BY <1>3 DEF handleRevokePrincipal, serverVars
  <2>5. RotationTyped'
    BY <2>3, <2>4 DEF RotationTyped
  <2>6. RotationSafe'
    BY <2>3, <2>4, QuietSafe
  <2> QED BY <2>5, <2>6
<1>4. CASE OpenPrincipals
  <2>1. refreshPrincipals \in Continuations
    BY <1>4, RootFacts, RotationAssumption DEF OpenPrincipals, Continuation, Continuations,
                                               PageOps, RotationOps, RotationTyped, refreshPrincipals
  <2>2. /\ pending' \subseteq Continuations /\ clicks' \in 0 .. MaxClicks
        /\ \A d \in pending' \ pending : d.op \in PageOps /\ RequestNamed(d)
    BY <1>4, <2>1, StartTyped DEF OpenPrincipals, Continuation, PageOps, RequestNamed,
                                  refreshPrincipals
  <2>3. princTab' \in PrincForm
    BY <1>4 DEF OpenPrincipals, PrincForm, RotationTyped
  <2>4. UNCHANGED <<boxRows, anchor, verifier, verifiers, challenges, principals, phraseTab,
                    enrollTab, recoverTab, rotateTab, held, minted>>
    BY <1>4 DEF OpenPrincipals, serverVars
  <2>5. RotationTyped'
    BY <2>1, <2>2, <2>3, <2>4 DEF RotationTyped
  <2>6. RotationSafe'
    BY <2>1, <2>2, <2>3, <2>4, QuietSafe
  <2> QED BY <2>5, <2>6 DEF RotationInv
<1> QED BY <1>1, <1>2, <1>3, <1>4 DEF PrincipalsTab

(* Rotation: the form is filled, the mailbox is loaded, a rotation starts. *)
LEMMA RotateTabStep ==
  ASSUME RotationInv, RotateTab
  PROVE  RotationInv'
<1> USE DEF RotationInv
<1>1. CASE RotateFields
  <2>1. UNCHANGED <<boxRows, anchor, verifier, verifiers, challenges, principals, phraseTab,
                    enrollTab, recoverTab, princTab, held, minted, pending, clicks>>
    BY <1>1 DEF RotateFields, serverVars
  <2>2. ASSUME NEW b \in RootBoxes, rotateTab' = [rotateTab EXCEPT !.box = b, !.mode = "none"]
        PROVE  RotationInv'
    <3>1. rotateTab' \in RotateForm
      BY <2>2 DEF RotationTyped, RotateForm
    <3>2. RotationSafe'
      BY <2>1, <2>2, QuietSafe DEF RotationTyped, RotateForm
    <3> QED BY <2>1, <3>1, <3>2 DEF RotationTyped
  <2>3. ASSUME NEW r \in held, rotateTab' = [rotateTab EXCEPT !.words = r]
        PROVE  RotationInv'
    <3>1. rotateTab' \in RotateForm
      BY <2>3 DEF RotationTyped, RotateForm
    <3>2. RotationSafe'
      BY <2>1, <2>3, QuietSafe DEF RotationTyped, RotateForm
    <3> QED BY <2>1, <3>1, <3>2 DEF RotationTyped
  <2>4. ASSUME rotateTab' = [rotateTab EXCEPT !.file = TRUE]
        PROVE  RotationInv'
    <3>1. rotateTab' \in RotateForm
      BY <2>4 DEF RotationTyped, RotateForm
    <3>2. RotationSafe'
      BY <2>1, <2>4, QuietSafe DEF RotationTyped, RotateForm
    <3> QED BY <2>1, <3>1, <3>2 DEF RotationTyped
  <2>5. ASSUME rotateTab' = [rotateTab EXCEPT !.version = 0, !.phrase = 0, !.box = "none",
                                !.mode = "none", !.file = FALSE,
                                !.words = IF rotateTab.phrase # 0 THEN 0 ELSE @]
        PROVE  RotationInv'
    <3>1. rotateTab' \in RotateForm
      BY <2>5, RootFacts DEF RotationTyped, RotateForm
    <3>2. rotateTab'.phrase = 0 /\ rotateTab'.busy = rotateTab.busy
      BY <2>5 DEF RotationTyped, RotateForm
    <3>3. RotationSafe'
      BY <2>1, <3>2 DEF RotationSafe, RequestsNamed, RequestNamed, OneRotation,
                        EnrolledAfterRotation, ShownAtRest, PhraseShownIsEnrolled
    <3> QED BY <2>1, <3>1, <3>3 DEF RotationTyped
  <2> QED BY <1>1, <2>2, <2>3, <2>4, <2>5 DEF RotateFields
<1>2. CASE handleLoadRotBox
  <2>1. Continuation("load", rotateTab.box, 0, "none") \in Continuations
    BY RootFacts, RotationAssumption
       DEF Continuation, Continuations, PageOps, RotationTyped, RotateForm
  <2>2. /\ pending' \subseteq Continuations /\ clicks' \in 0 .. MaxClicks
        /\ \A d \in pending' \ pending : d.op \in PageOps /\ RequestNamed(d)
    BY <1>2, <2>1, StartTyped DEF handleLoadRotBox, Continuation, PageOps, RequestNamed
  <2>3. /\ rotateTab' \in RotateForm /\ rotateTab'.busy = rotateTab.busy
        /\ rotateTab'.phrase = rotateTab.phrase /\ rotateTab'.version = rotateTab.version
    BY <1>2 DEF handleLoadRotBox, RotateForm, RotationTyped
  <2>4. UNCHANGED <<boxRows, anchor, verifier, verifiers, challenges, principals, phraseTab,
                    enrollTab, recoverTab, princTab, held, minted>>
    BY <1>2 DEF handleLoadRotBox, serverVars
  <2>5. RotationTyped'
    BY <2>2, <2>3, <2>4 DEF RotationTyped
  <2>6. RotationSafe'
    BY <2>2, <2>3, <2>4, QuietSafe
  <2> QED BY <2>5, <2>6
<1>3. ASSUME rotateTab.version = 0, handleRotate \/ handleRotateOrgManaged
      PROVE  RotationInv'
  <2>1. PICK c \in Continuations : Started(c) /\ c.op \in {"private", "managed"}
    <3>1. /\ Continuation("private", rotateTab.box, rotateTab.words, "none") \in Continuations
          /\ Continuation("managed", rotateTab.box, 0, "none") \in Continuations
      BY RootFacts, RotationAssumption
         DEF Continuation, Continuations, RotationOps, RotationTyped, RotateForm
    <3> QED BY <1>3, <3>1 DEF handleRotate, handleRotateOrgManaged, Continuation
  <2>2. PICK d \in Continuations : pending' = pending \cup {d} /\ d.op \in {"private", "managed"}
    BY <2>1, StartTyped
  <2>3. pending' \subseteq Continuations /\ clicks' \in 0 .. MaxClicks
    BY <2>1, StartTyped
  <2>4. /\ rotateTab' \in RotateForm /\ ~rotateTab.busy /\ rotateTab'.busy
        /\ rotateTab'.phrase = rotateTab.phrase
    BY <1>3 DEF handleRotate, handleRotateOrgManaged, RotateForm, RotationTyped
  <2>5. UNCHANGED <<boxRows, anchor, verifier, verifiers, challenges, principals, phraseTab,
                    enrollTab, recoverTab, princTab, held, minted>>
    BY <1>3 DEF handleRotate, handleRotateOrgManaged, serverVars
  <2>6. RotationTyped'
    BY <2>3, <2>4, <2>5 DEF RotationTyped
  <2>7. rotateTab.phrase = 0
    BY <1>3 DEF RotationSafe, ShownAtRest
  <2>8. OneRotation'
    BY <2>2, <2>4 DEF RotationSafe, OneRotation
  <2>9. RequestsNamed' /\ EnrolledAfterRotation'
    BY <2>2, <2>5 DEF RotationSafe, RequestsNamed, RequestNamed, EnrolledAfterRotation
  <2>10. ShownAtRest' /\ PhraseShownIsEnrolled'
    BY <2>4, <2>5, <2>7 DEF RotationSafe, ShownAtRest, PhraseShownIsEnrolled
  <2> QED BY <2>6, <2>8, <2>9, <2>10 DEF RotationSafe
<1> QED BY <1>1, <1>2, <1>3 DEF RotateTab


(* Answers of the requests that are no part of a rotation. *)
LEMMA PageAnswerStep ==
  ASSUME RotationInv, NEW c \in pending, NEW done \in BOOLEAN, NEW ok \in BOOLEAN,
         \/ EnrollAnswer(c, done, ok) \/ ChallengeAnswer(c, ok) \/ VerifyAnswer(c, ok)
         \/ PasswordAnswer(c, ok) \/ LoadAnswer(c, ok) \/ ListAnswer(c, ok)
         \/ BusyListAnswer(c, ok) \/ AddPrincipalAnswer(c, ok) \/ RevokeAnswer(c, ok)
  PROVE  RotationInv'
<1> USE DEF RotationInv
<1>0. c \in Continuations /\ RequestNamed(c)
  BY DEF RotationTyped, RotationSafe, RequestsNamed
<1>1. CASE EnrollAnswer(c, done, ok)
  <2>1. /\ pending' \subseteq Continuations
        /\ \A d \in pending' \ pending : d.op \in PageOps /\ RequestNamed(d)
    BY <1>1, AnswerTyped DEF EnrollAnswer, Ends, PageOps
  <2>2. /\ verifier' \in Root /\ verifiers' \subseteq Root /\ verifiers \subseteq verifiers'
    BY <1>1, <1>0 DEF EnrollAnswer, recoveryEnroll, RotationTyped, Continuations
  <2>3. enrollTab' \in EnrollForm
    BY <1>1, RootFacts DEF EnrollAnswer, EnrollForm, RotationTyped
  <2>4. UNCHANGED <<boxRows, anchor, challenges, principals, phraseTab, recoverTab, rotateTab,
                    princTab, held, minted, clicks>>
    BY <1>1 DEF EnrollAnswer, serverVars
  <2>5. RotationTyped'
    BY <2>1, <2>2, <2>3, <2>4 DEF RotationTyped
  <2>6. RotationSafe'
    BY <2>1, <2>2, <2>3, <2>4, QuietSafe
  <2> QED BY <2>5, <2>6 DEF RotationInv
<1>2. CASE ChallengeAnswer(c, ok)
  <2>1. /\ pending' \subseteq Continuations
        /\ \A d \in pending' \ pending : d.op \in PageOps /\ RequestNamed(d)
    BY <1>2, <1>0, AnswerTyped DEF ChallengeAnswer, Ends, PageOps, RequestNamed, RecoverFails
  <2>2. challenges' \subseteq 0 .. MaxClicks
    BY <1>2, <1>0 DEF ChallengeAnswer, RotationTyped, Continuations
  <2>3. recoverTab' \in RecoverForm
    BY <1>2 DEF ChallengeAnswer, RecoverFails, RecoverForm, RotationTyped
  <2>4. UNCHANGED <<boxRows, anchor, verifier, verifiers, principals, phraseTab, enrollTab,
                    rotateTab, princTab, held, minted, clicks>>
    BY <1>2 DEF ChallengeAnswer, serverVars
  <2>5. RotationTyped'
    BY <2>1, <2>2, <2>3, <2>4 DEF RotationTyped
  <2>6. RotationSafe'
    BY <2>1, <2>2, <2>3, <2>4, QuietSafe
  <2> QED BY <2>5, <2>6 DEF RotationInv
<1>3. CASE VerifyAnswer(c, ok)
  <2>1. /\ pending' \subseteq Continuations
        /\ \A d \in pending' \ pending : d.op \in PageOps /\ RequestNamed(d)
    BY <1>3, AnswerTyped DEF VerifyAnswer, Ends, PageOps, RecoverFails
  <2>2. challenges' \subseteq 0 .. MaxClicks
    BY <1>3 DEF VerifyAnswer, RotationTyped
  <2>3. recoverTab' \in RecoverForm
    BY <1>3, RootFacts DEF VerifyAnswer, RecoverFails, RecoverForm, RotationTyped
  <2>4. UNCHANGED <<boxRows, anchor, verifier, verifiers, principals, phraseTab, enrollTab,
                    rotateTab, princTab, held, minted, clicks>>
    BY <1>3 DEF VerifyAnswer, serverVars
  <2>5. RotationTyped'
    BY <2>1, <2>2, <2>3, <2>4 DEF RotationTyped
  <2>6. RotationSafe'
    BY <2>1, <2>2, <2>3, <2>4, QuietSafe
  <2> QED BY <2>5, <2>6 DEF RotationInv
<1>4. CASE PasswordAnswer(c, ok)
  <2>1. /\ pending' \subseteq Continuations
        /\ \A d \in pending' \ pending : d.op \in PageOps /\ RequestNamed(d)
    BY <1>4, AnswerTyped DEF PasswordAnswer, Ends, PageOps
  <2>2. recoverTab' \in RecoverForm
    BY <1>4 DEF PasswordAnswer, RecoverForm, RotationTyped
  <2>3. UNCHANGED <<boxRows, anchor, verifier, verifiers, challenges, principals, phraseTab,
                    enrollTab, rotateTab, princTab, held, minted, clicks>>
    BY <1>4 DEF PasswordAnswer, serverVars
  <2>4. RotationTyped'
    BY <2>1, <2>2, <2>3 DEF RotationTyped
  <2>5. RotationSafe'
    BY <2>1, <2>2, <2>3, QuietSafe
  <2> QED BY <2>4, <2>5 DEF RotationInv
<1>5. CASE LoadAnswer(c, ok)
  <2>1. /\ pending' \subseteq Continuations
        /\ \A d \in pending' \ pending : d.op \in PageOps /\ RequestNamed(d)
    BY <1>5, AnswerTyped DEF LoadAnswer, Ends, PageOps
  <2>2. /\ rotateTab' \in RotateForm /\ rotateTab'.busy = rotateTab.busy
        /\ rotateTab'.phrase = rotateTab.phrase /\ rotateTab'.version = rotateTab.version
    BY <1>5 DEF LoadAnswer, ModeOf, RotateForm, RotationTyped
  <2>3. UNCHANGED <<boxRows, anchor, verifier, verifiers, challenges, principals, phraseTab,
                    enrollTab, recoverTab, princTab, held, minted, clicks>>
    BY <1>5 DEF LoadAnswer, serverVars
  <2>4. RotationTyped'
    BY <2>1, <2>2, <2>3 DEF RotationTyped
  <2>5. RotationSafe'
    BY <2>1, <2>2, <2>3, QuietSafe
  <2> QED BY <2>4, <2>5 DEF RotationInv
<1>6. CASE ListAnswer(c, ok)
  <2>1. /\ pending' \subseteq Continuations
        /\ \A d \in pending' \ pending : d.op \in PageOps /\ RequestNamed(d)
    BY <1>6, AnswerTyped DEF ListAnswer, Ends, PageOps
  <2>2. princTab' \in PrincForm
    BY <1>6 DEF ListAnswer, PrincForm, RotationTyped
  <2>3. UNCHANGED <<boxRows, anchor, verifier, verifiers, challenges, principals, phraseTab,
                    enrollTab, recoverTab, rotateTab, held, minted, clicks>>
    BY <1>6 DEF ListAnswer, serverVars
  <2>4. RotationTyped'
    BY <2>1, <2>2, <2>3 DEF RotationTyped
  <2>5. RotationSafe'
    BY <2>1, <2>2, <2>3, QuietSafe
  <2> QED BY <2>4, <2>5 DEF RotationInv
<1>7. CASE BusyListAnswer(c, ok)
  <2>1. /\ pending' \subseteq Continuations
        /\ \A d \in pending' \ pending : d.op \in PageOps /\ RequestNamed(d)
    BY <1>7, AnswerTyped DEF BusyListAnswer, Ends, PageOps
  <2>2. princTab' \in PrincForm
    BY <1>7 DEF BusyListAnswer, PrincForm, RotationTyped
  <2>3. UNCHANGED <<boxRows, anchor, verifier, verifiers, challenges, principals, phraseTab,
                    enrollTab, recoverTab, rotateTab, held, minted, clicks>>
    BY <1>7 DEF BusyListAnswer, serverVars
  <2>4. RotationTyped'
    BY <2>1, <2>2, <2>3 DEF RotationTyped
  <2>5. RotationSafe'
    BY <2>1, <2>2, <2>3, QuietSafe
  <2> QED BY <2>4, <2>5 DEF RotationInv
<1>8. CASE AddPrincipalAnswer(c, ok)
  <2>1. /\ pending' \subseteq Continuations
        /\ \A d \in pending' \ pending : d.op \in PageOps /\ RequestNamed(d)
    BY <1>8, <1>0, AnswerTyped DEF AddPrincipalAnswer, Ends, PageOps, RequestNamed
  <2>2. principals' \subseteq principals \cup {[name |-> c.name,
                                               active |-> TRUE]} /\ c.name \in Names
    BY <1>8, <1>0 DEF AddPrincipalAnswer, RequestNamed
  <2>3. [name |-> c.name, active |-> TRUE] \in Principals
    BY <2>2 DEF Principals
  <2>4. principals' \subseteq Principals
    BY <2>2, <2>3 DEF RotationTyped
  <2>5. princTab' \in PrincForm
    BY <1>8 DEF AddPrincipalAnswer, PrincForm, RotationTyped
  <2>6. UNCHANGED <<boxRows, anchor, verifier, verifiers, challenges, phraseTab, enrollTab,
                    recoverTab, rotateTab, held, minted, clicks>>
    BY <1>8 DEF AddPrincipalAnswer, serverVars
  <2>7. RotationTyped'
    BY <2>1, <2>2, <2>3, <2>4, <2>5, <2>6 DEF RotationTyped
  <2>8. RotationSafe'
    BY <2>1, <2>2, <2>3, <2>4, <2>5, <2>6, QuietSafe
  <2> QED BY <2>7, <2>8 DEF RotationInv
<1>9. CASE RevokeAnswer(c, ok)
  <2>1. /\ pending' \subseteq Continuations
        /\ \A d \in pending' \ pending : d.op \in PageOps /\ RequestNamed(d)
    BY <1>9, <1>0, AnswerTyped DEF RevokeAnswer, Ends, PageOps, RequestNamed
  <2>2. principals' \subseteq Principals
    BY <1>9 DEF RevokeAnswer, Principals, RotationTyped
  <2>3. princTab' \in PrincForm
    BY <1>9 DEF RevokeAnswer, PrincForm, RotationTyped
  <2>4. UNCHANGED <<boxRows, anchor, verifier, verifiers, challenges, phraseTab, enrollTab,
                    recoverTab, rotateTab, held, minted, clicks>>
    BY <1>9 DEF RevokeAnswer, serverVars
  <2>5. RotationTyped'
    BY <2>1, <2>2, <2>3, <2>4 DEF RotationTyped
  <2>6. RotationSafe'
    BY <2>1, <2>2, <2>3, <2>4, QuietSafe
  <2> QED BY <2>5, <2>6 DEF RotationInv
<1> QED BY <1>1, <1>2, <1>3, <1>4, <1>5, <1>6, <1>7, <1>8, <1>9

(* Answers of the requests of a rotation. *)
LEMMA RotationAnswerStep ==
  ASSUME RotationInv, NEW c \in pending, NEW done \in BOOLEAN, NEW ok \in BOOLEAN, ok => done,
         \/ RotateRead(c, ok) \/ RotateManagedRead(c, ok) \/ RotateAnswer(c, done, ok)
         \/ ReenrollAnswer(c, done, ok) \/ RotateManagedAnswer(c, done, ok)
  PROVE  RotationInv'
<1> USE DEF RotationInv
<1>0. /\ c \in Continuations /\ RequestNamed(c) /\ c.op \in RotationOps /\ rotateTab.busy
      /\ rotateTab.phrase = 0
      /\ \A d \in pending : d.op \in RotationOps => d = c
  <2>1. c.op \in RotationOps
    BY DEF RotationOps, RotateRead, RotateManagedRead, RotateAnswer, ReenrollAnswer,
           RotateManagedAnswer
  <2> QED
    BY <2>1 DEF RotationTyped, RotationSafe, RequestsNamed, OneRotation, ShownAtRest
<1>1. RotationOps \cap PageOps = {} /\ "reenroll" \in RotationOps /\ "rotate" \in RotationOps
        /\ "rotateManaged" \in RotationOps
  BY DEF RotationOps, PageOps
<1>f. RotateFails(c) => /\ pending' = pending \ {c} /\ pending' \subseteq Continuations
                        /\ rotateTab' \in RotateForm /\ rotateTab'.phrase = 0
  BY RootFacts DEF RotateFails, Ends, RotationTyped, RotateForm
<1>d. (\A d \in pending' : d \in pending /\ d # c) =>
        RequestsNamed' /\ OneRotation' /\ EnrolledAfterRotation'
  BY <1>0, <1>1 DEF RotationSafe, RequestsNamed, RequestNamed, OneRotation, EnrolledAfterRotation
<1>2. CASE RotateRead(c, ok) \/ RotateManagedRead(c, ok)
  <2>1. UNCHANGED <<boxRows, anchor, verifier, verifiers, challenges, principals, phraseTab,
                    enrollTab, recoverTab, princTab, held, clicks>>
    BY <1>2 DEF RotateRead, RotateManagedRead, serverVars
  <2>2. CASE RotateFails(c) /\ UNCHANGED minted
    <3>1. RotationTyped'
      BY <1>f, <2>1, <2>2 DEF RotationTyped
    <3>2. RequestsNamed' /\ OneRotation' /\ EnrolledAfterRotation'
      BY <1>d, <1>f, <2>2
    <3>3. ShownAtRest' /\ PhraseShownIsEnrolled'
      BY <1>f, <2>1, <2>2 DEF RotationSafe, ShownAtRest, PhraseShownIsEnrolled
    <3> QED BY <3>1, <3>2, <3>3 DEF RotationSafe
  <2>3. CASE ~(RotateFails(c) /\ UNCHANGED minted)
    <3> DEFINE op == IF RotateRead(c, ok) THEN "rotate" ELSE "rotateManaged"
               d == [c EXCEPT !.op = op, !.root = minted + 1]
    <3>1. /\ minted' = minted + 1 /\ minted < MaxRoot /\ UNCHANGED rotateTab
          /\ pending' = (pending \ {c}) \cup {d}
          /\ op = "rotate" => c.box \in PrivateBoxes
          /\ op = "rotateManaged" => c.box \in ManagedBoxes
      BY <1>2, <2>3 DEF RotateRead, RotateManagedRead
    <3>2. minted' \in Root
      BY <3>1, RotationAssumption DEF Root, RotationTyped
    <3>3. d \in Continuations /\ d.op = op /\ d.box = c.box
      BY <1>0, <3>1, <3>2 DEF Continuations, RotationOps
    <3> HIDE DEF d
    <3>4. RotationTyped'
      BY <2>1, <3>1, <3>2, <3>3 DEF RotationTyped
    <3>5. RequestsNamed' /\ EnrolledAfterRotation'
      BY <2>1, <3>1, <3>3 DEF RotationSafe, RequestsNamed, RequestNamed, EnrolledAfterRotation
    <3>6. OneRotation'
      BY <1>0, <3>1, <3>3 DEF OneRotation
    <3>7. ShownAtRest' /\ PhraseShownIsEnrolled'
      BY <2>1, <3>1 DEF RotationSafe, ShownAtRest, PhraseShownIsEnrolled
    <3> QED BY <3>4, <3>5, <3>6, <3>7 DEF RotationSafe
  <2> QED BY <2>2, <2>3
<1>r. ASSUME c.box \in RootBoxes,
             IF done THEN rootRotation(c.box, c.root) ELSE UNCHANGED <<boxRows, anchor>>
      PROVE  /\ boxRows' \in RootRows /\ anchor' \in Anchors
             /\ \A b \in RootBoxes : boxRows'[b].version # 0
             /\ done => anchor'[c.box] = c.root
  <2>1. CASE ~done
    BY <1>r, <2>1 DEF RotationTyped, RotationSafe, ShownAtRest
  <2>2. CASE done
    <3>1. c.root \in Root
      BY <1>0 DEF Continuations
    <3>2. anchor' \in Anchors /\ anchor'[c.box] = c.root
      BY <1>r, <2>2, <3>1 DEF rootRotation, RotationTyped, Anchors
    <3> DEFINE old == boxRows[c.box]
               seal == IF c.box \in ManagedBoxes THEN c.root ELSE 0
               row == [old EXCEPT !.version = old.version + 1, !.trusted = FALSE,
                                  !.sealed = seal]
    <3>4. boxRows' = [boxRows EXCEPT ![c.box] = row]
      BY <1>r, <2>2 DEF rootRotation, RotationTyped, RootRows, RootRow
    <3>3. row \in RootRow /\ row.version # 0
      <4>1. old \in RootRow
        BY <1>r DEF RotationTyped, RootRows
      <4>2. seal \in Root
        BY <3>1, RootFacts
      <4>3. old.version + 1 \in Nat /\ old.version + 1 # 0
        BY <4>1 DEF RootRow
      <4> HIDE DEF old, seal
      <4>4. row \in RootRow
        BY <4>1, <4>2, <4>3 DEF RootRow
      <4>5. row.version = old.version + 1
        BY <4>1 DEF RootRow
      <4> QED BY <4>3, <4>4, <4>5
    <3> HIDE DEF row
    <3>5. boxRows' \in RootRows /\ \A b \in RootBoxes : boxRows'[b].version # 0
      BY <1>r, <3>3, <3>4 DEF RotationTyped, RootRows, RotationSafe, ShownAtRest
    <3> QED BY <2>2, <3>2, <3>5
  <2> QED BY <2>1, <2>2
<1>3. CASE RotateAnswer(c, done, ok)
  <2>1. /\ UNCHANGED <<verifier, verifiers, challenges, principals, phraseTab, enrollTab,
                       recoverTab, princTab, held, minted, clicks>>
        /\ IF done THEN rootRotation(c.box, c.root) ELSE UNCHANGED <<boxRows, anchor>>
        /\ c.op = "rotate"
    BY <1>3 DEF RotateAnswer
  <2>2. c.box \in PrivateBoxes /\ c.box \in RootBoxes
    BY <1>0, <2>1 DEF RequestNamed, RootBoxes
  <2>3. /\ boxRows' \in RootRows /\ anchor' \in Anchors
        /\ \A b \in RootBoxes : boxRows'[b].version # 0
        /\ done => anchor'[c.box] = c.root
    BY <1>r, <2>1, <2>2
  <2>4. CASE RotateFails(c)
    <3>1. RotationTyped'
      BY <1>f, <2>1, <2>3, <2>4 DEF RotationTyped
    <3>2. RequestsNamed' /\ OneRotation'
      BY <1>f, <1>0, <2>4 DEF RotationSafe, RequestsNamed, RequestNamed, OneRotation
    <3>3. EnrolledAfterRotation'
      BY <1>f, <1>0, <1>1, <2>4 DEF EnrolledAfterRotation
    <3>4. ShownAtRest' /\ PhraseShownIsEnrolled'
      BY <1>f, <2>3, <2>4 DEF ShownAtRest, PhraseShownIsEnrolled
    <3> QED BY <3>1, <3>2, <3>3, <3>4 DEF RotationSafe
  <2>5. CASE ok /\ GoesOn(c, "reenroll") /\ UNCHANGED rotateTab
    <3>1. PICK d \in Continuations : /\ pending' = (pending \ {c}) \cup {d} /\ d.op = "reenroll"
                                     /\ d.box = c.box /\ d.root = c.root
      BY <1>1, <2>5, AnswerTyped
    <3>2. RotationTyped'
      BY <2>1, <2>3, <2>5, <3>1 DEF RotationTyped
    <3>3. RequestsNamed'
      BY <2>2, <3>1 DEF RotationSafe, RequestsNamed, RequestNamed
    <3>4. OneRotation' /\ EnrolledAfterRotation'
      BY <1>0, <1>1, <2>3, <2>5, <3>1 DEF OneRotation, EnrolledAfterRotation
    <3>5. ShownAtRest' /\ PhraseShownIsEnrolled'
      BY <1>0, <2>3, <2>5 DEF ShownAtRest, PhraseShownIsEnrolled
    <3> QED BY <3>2, <3>3, <3>4, <3>5 DEF RotationSafe
  <2> QED BY <1>3, <2>4, <2>5 DEF RotateAnswer
<1>4. CASE ReenrollAnswer(c, done, ok)
  <2>1. /\ UNCHANGED <<boxRows, anchor, challenges, principals, phraseTab, enrollTab,
                       recoverTab, princTab, minted, clicks>>
        /\ c.op = "reenroll"
    BY <1>4 DEF ReenrollAnswer
  <2>2. c.box \in PrivateBoxes /\ c.box \in RootBoxes /\ anchor[c.box] = c.root /\ c.root \in Root
    BY <1>0, <2>1 DEF RequestNamed, RootBoxes, RotationSafe, EnrolledAfterRotation, Continuations
  <2>3. /\ verifier' \in Root /\ verifiers' \subseteq Root
        /\ done => c.root \in verifiers'
    BY <1>4, <2>2 DEF ReenrollAnswer, recoveryEnroll, RotationTyped
  <2>4. boxRows[c.box].version \in Nat \ {0}
    BY <2>2 DEF RotationTyped, RootRows, RootRow, RotationSafe, ShownAtRest
  <2>5. CASE ok
    <3>1. /\ pending' = pending \ {c} /\ held' \subseteq Root
          /\ rotateTab' = [rotateTab EXCEPT !.busy = FALSE, !.words = 0,
                                !.version = boxRows[c.box].version, !.phrase = c.root]
      BY <1>4, <2>2, <2>5 DEF ReenrollAnswer, Ends, RotationTyped
    <3>2. /\ rotateTab' \in RotateForm /\ rotateTab'.phrase = c.root /\ rotateTab'.busy = FALSE
          /\ rotateTab'.version # 0
      BY <2>2, <2>4, <3>1, RootFacts DEF RotationTyped, RotateForm
    <3>3. RotationTyped'
      BY <2>1, <2>3, <3>1, <3>2 DEF RotationTyped
    <3>4. RequestsNamed' /\ OneRotation' /\ EnrolledAfterRotation'
      BY <1>0, <1>1, <2>1, <3>1 DEF RotationSafe, RequestsNamed, RequestNamed, OneRotation,
                                    EnrolledAfterRotation
    <3>5. ShownAtRest' /\ PhraseShownIsEnrolled'
      BY <2>1, <2>2, <2>3, <2>5, <3>2 DEF RotationSafe, ShownAtRest, PhraseShownIsEnrolled
    <3> QED BY <3>3, <3>4, <3>5 DEF RotationSafe
  <2>6. CASE ~ok
    <3>1. RotateFails(c) /\ UNCHANGED held
      BY <1>4, <2>6 DEF ReenrollAnswer
    <3>2. RotationTyped'
      BY <1>f, <2>1, <2>3, <3>1 DEF RotationTyped
    <3>3. RequestsNamed' /\ OneRotation' /\ EnrolledAfterRotation'
      BY <1>0, <1>1, <1>f, <2>1, <3>1 DEF RotationSafe, RequestsNamed, RequestNamed, OneRotation,
                                          EnrolledAfterRotation
    <3>4. ShownAtRest' /\ PhraseShownIsEnrolled'
      BY <1>f, <2>1, <3>1 DEF RotationSafe, ShownAtRest, PhraseShownIsEnrolled
    <3> QED BY <3>2, <3>3, <3>4 DEF RotationSafe
  <2> QED BY <2>5, <2>6
<1>5. CASE RotateManagedAnswer(c, done, ok)
  <2>1. /\ UNCHANGED <<verifier, verifiers, challenges, principals, phraseTab, enrollTab,
                       recoverTab, princTab, held, minted, clicks>>
        /\ IF done THEN rootRotation(c.box, c.root) ELSE UNCHANGED <<boxRows, anchor>>
        /\ c.op = "rotateManaged"
    BY <1>5 DEF RotateManagedAnswer
  <2>2. c.box \in RootBoxes
    BY <1>0, <2>1 DEF RequestNamed, RootBoxes
  <2>3. /\ boxRows' \in RootRows /\ anchor' \in Anchors
        /\ \A b \in RootBoxes : boxRows'[b].version # 0
    BY <1>r, <2>1, <2>2
  <2>4. /\ pending' = pending \ {c} /\ pending' \subseteq Continuations
        /\ rotateTab' \in RotateForm /\ rotateTab'.phrase = 0
    <3>1. CASE ok
      <4>1. boxRows'[c.box].version \in Nat
        BY <2>2, <2>3 DEF RootRows, RootRow
      <4> QED BY <1>5, <3>1, <4>1, RootFacts DEF RotateManagedAnswer, Ends, RotationTyped,
                                                 RotateForm
    <3>2. CASE ~ok
      BY <1>5, <1>f, <3>2 DEF RotateManagedAnswer
    <3> QED BY <3>1, <3>2
  <2>5. RotationTyped'
    BY <2>1, <2>3, <2>4 DEF RotationTyped
  <2>6. RequestsNamed' /\ OneRotation' /\ EnrolledAfterRotation'
    BY <1>0, <1>1, <2>4 DEF RotationSafe, RequestsNamed, RequestNamed, OneRotation,
                            EnrolledAfterRotation
  <2>7. ShownAtRest' /\ PhraseShownIsEnrolled'
    BY <2>3, <2>4 DEF ShownAtRest, PhraseShownIsEnrolled
  <2> QED BY <2>5, <2>6, <2>7 DEF RotationSafe
<1> QED BY <1>2, <1>3, <1>4, <1>5

(* Every handler of the recovery page and every continuation keeps the *)
(* invariant.                                                          *)
LEMMA RotationStep == RotationInv /\ [RotationNext]_rotationVars => RotationInv'
<1> SUFFICES ASSUME RotationInv, [RotationNext]_rotationVars PROVE RotationInv'
  OBVIOUS
<1>1. CASE UNCHANGED rotationVars
  BY <1>1 DEF rotationVars, serverVars, tabVars, RotationInv, RotationTyped, RotationSafe,
              RequestsNamed, RequestNamed, OneRotation, EnrolledAfterRotation, ShownAtRest,
              PhraseShownIsEnrolled
<1>2. ASSUME NEW c \in pending, RotationAnswer(c) PROVE RotationInv'
  <2> PICK done \in BOOLEAN, ok \in BOOLEAN :
        /\ ok => done
        /\ \/ EnrollAnswer(c, done, ok) \/ RotateAnswer(c, done, ok)
           \/ ReenrollAnswer(c, done, ok) \/ RotateManagedAnswer(c, done, ok)
           \/ ChallengeAnswer(c, ok) \/ VerifyAnswer(c, ok)
           \/ PasswordAnswer(c, ok) \/ LoadAnswer(c, ok)
           \/ RotateRead(c, ok) \/ RotateManagedRead(c, ok)
           \/ ListAnswer(c, ok) \/ BusyListAnswer(c, ok)
           \/ AddPrincipalAnswer(c, ok) \/ RevokeAnswer(c, ok)
    BY <1>2 DEF RotationAnswer
  <2> QED BY PageAnswerStep, RotationAnswerStep
<1> QED
  BY <1>1, <1>2, PhraseTabStep, EnrollTabStep, RecoverTabStep, RotateTabStep, PrincipalsStep
     DEF RotationNext

(* handleRotate shows the new phrase last *)
THEOREM RotatedPhraseEnrolled == RotationSpec => []PhraseShownIsEnrolled
<1>1. RotationInv => PhraseShownIsEnrolled
  BY DEF RotationInv, RotationSafe
<1> QED BY <1>1, RotationInitHolds, RotationStep, PTL DEF RotationSpec

=============================================================================
