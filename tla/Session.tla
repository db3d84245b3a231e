------------------------------ MODULE Session ------------------------------
(***************************************************************************)
(* Who is signed in to the webmail application, and whose key it holds:    *)
(* apps/webmail/src/App.tsx (mount, login, second factor, passkey, unlock, *)
(* account switch, logout), components/AddMailboxModal.tsx,                *)
(* components/AccountSwitcher.tsx and the session part of api.ts.          *)
(* A handler is an async function: it runs from one await to the next, and *)
(* between two of its awaits any other handler may run. A task is a        *)
(* handler waiting at an await; the step that resumes it is its answer.    *)
(* Session tokens, passwords, wrapped keys and secret keys are named by    *)
(* the account they belong to.                                             *)
(***************************************************************************)
EXTENDS Naturals, Sequences, FiniteSets, ArrayFilter

CONSTANTS
  Accounts,   \* the accounts of this browser, each with its mailbox
  None,       \* null
  TwoFactor,  \* the accounts whose login answers with a challenge
  MaxTasks,   \* bound on handlers waiting at once
  MaxOps      \* bound on what the user and the other tabs start

ASSUME SessionAssumption ==
  /\ None \notin Accounts
  /\ IsFiniteSet(Accounts) /\ TwoFactor \subseteq Accounts
  /\ MaxTasks \in Nat \ {0}
  /\ MaxOps \in Nat

VARIABLES
  user,       \* currentUser
  shape,      \* what currentUser carries, see Shapes
  box,        \* selectedMailbox
  key,        \* mailboxKey
  unlocked,   \* unlockedBoxId
  list,       \* connectedAccounts and its copy in sessionStorage
  durable,    \* byos_connected_accounts in localStorage
  stored,     \* byos_mailbox_sk_<id> in sessionStorage
  token,      \* byos_active_session_token
  stand,      \* byos_impersonation_token
  cookie,     \* the HttpOnly session cookie
  vault,      \* byos_passkey_vault_<credential of the account> in localStorage:
              \* the mailbox kept with the credential, and its key
  loading,    \* isLoading
  loginBusy,
  codeBusy,   \* twoFactorBusy
  challenge,  \* twoFactorChallenge
  cached,     \* cachedPassword is not empty
  joining,    \* twoFactorChallenge of AddMailboxModal
  joinBusy,   \* loading or twoFactorBusy of AddMailboxModal
  tasks,      \* the handlers waiting at an await
  ops         \* operations started so far

memory == <<user, shape, box, key, unlocked>>
stores == <<list, durable, stored, token, stand, cookie, vault>>
flags == <<loading, loginBusy, codeBusy, challenge, cached>>
modal == <<joining, joinBusy>>
sessionVars == <<memory, stores, flags, modal, tasks, ops>>

Maybe == Accounts \cup {None}

(* What a user record carries: the organisation, the local part of its     *)
(* mailbox, its wrapped key. handleSwitchAccount builds one that has only  *)
(* the organisation of the user before it, if there was one.               *)
Shapes == [org : BOOLEAN, part : BOOLEAN, wrapped : BOOLEAN]
Full == [org |-> TRUE, part |-> TRUE, wrapped |-> TRUE]

Handlers == {"mount", "login", "verify", "resend", "passkey", "unlock", "phrase", "switch",
             "logoutAll", "logoutOne", "add", "exit", "enroll"}
Awaits == {"auth", "me", "boxes", "wasm", "load", "revoke", "register"}

VaultEntry == [box : Maybe, sk : Maybe]
NoEntry == [box |-> None, sk |-> None]

(* An entry of connectedAccounts: its mailbox, its session token, its key. *)
ConnectedAccount == [id : Accounts, tok : Maybe, sk : Maybe]
Lists == UNION {[1..n -> ConnectedAccount] : n \in 0..Cardinality(Accounts)}

(* A handler at an await: the account it is about, the accounts whose     *)
(* password and wrapped key it holds, the token of its login answer, and  *)
(* what it read before the await.                                         *)
Task == [op : Handlers, at : Awaits, acc : Maybe, pass : Maybe, wrap : Maybe, tok : Maybe,
         shape : Shapes, modal : BOOLEAN, snap : Lists, cur : Maybe]

SessionTypeOK ==
  /\ {user, box, key, unlocked, token, stand, cookie, challenge, joining} \subseteq Maybe
  /\ {loading, loginBusy, codeBusy, cached, joinBusy} \subseteq BOOLEAN
  /\ shape \in Shapes
  /\ {list, durable} \subseteq Lists
  /\ stored \in [Accounts -> Maybe]
  /\ vault \in [Accounts -> VaultEntry]
  /\ tasks \subseteq Task
  /\ Cardinality(tasks) <= MaxTasks
  /\ ops \in 0..MaxOps

----------------------------------------------------------------------------
(* Lists of connected accounts.                                            *)

Without(l, a) == Filtered(l, {i \in DOMAIN l : l[i].id # a})
Pushed(l, e) == <<e>> \o l
OnTop(l, e) == <<e>> \o Without(l, e.id)

(* The list written to localStorage carries no secret key. *)
Durable(l) == [i \in DOMAIN l |-> [l[i] EXCEPT !.sk = None]]

(* The list of sessionStorage, or the one of localStorage when it has none. *)
SavedAccounts == IF list = <<>> THEN durable ELSE list

(* Whom the API takes a request for: the active token, else the           *)
(* impersonation token, else the cookie.                                   *)
Caller ==
  IF token # None THEN token ELSE IF stand # None THEN stand ELSE cookie

----------------------------------------------------------------------------
(* What is on screen.                                                      *)

MainScreen == (user # None /\ key # None) \/ loading
SignInScreen == ~MainScreen /\ user = None /\ challenge = None
CodeScreen == ~MainScreen /\ user = None /\ challenge # None
UnlockScreen == ~MainScreen /\ user # None

(* The user or another tab starts something: counted, and a handler that  *)
(* awaits needs a free task.                                               *)
Op == ops < MaxOps /\ ops' = ops + 1
Room == Cardinality(tasks) < MaxTasks

NewTask(op, at, acc) ==
  [op |-> op, at |-> at, acc |-> acc, pass |-> None, wrap |-> acc, tok |-> None,
   shape |-> Full, modal |-> FALSE, snap |-> <<>>, cur |-> None]
Start(t) == Room /\ tasks' = tasks \cup {t}
Continue(t, u) == tasks' = (tasks \ {t}) \cup {u}
Done(t) == tasks' = tasks \ {t}

(* The finally clauses of the handlers. *)
SignIns == {"login", "passkey", "unlock", "phrase"}
LoadingStays(t) ==
  /\ Done(t)
  /\ loginBusy' = (loginBusy /\ t.op \notin SignIns)
  /\ codeBusy' = (codeBusy /\ t.op \notin {"verify", "resend"})
  /\ UNCHANGED loading
Finally(t) ==
  /\ Done(t)
  /\ loading' = (loading /\ t.op \notin (SignIns \ {"phrase"}) \cup {"mount", "verify", "switch"})
  /\ loginBusy' = (loginBusy /\ t.op \notin SignIns)
  /\ codeBusy' = (codeBusy /\ t.op \notin {"verify", "resend"})
Finish(t) == Finally(t) /\ UNCHANGED <<challenge, cached>>

Load(t) == [t EXCEPT !.at = "load"]

----------------------------------------------------------------------------
(* Mount.                                                                  *)

(* The page forgets what it held; an empty session starts from the list of  *)
(* localStorage and the token of its first entry, and asks who is signed in. *)
Mount(standIn) ==
  /\ LET saved == SavedAccounts
         tok == IF token = None /\ saved # <<>> THEN saved[1].tok ELSE token
         caller == IF tok # None THEN tok ELSE IF standIn # None THEN standIn ELSE cookie
     IN /\ list' = saved
        /\ token' = tok
        /\ tasks' = {NewTask("mount", "me", caller)}
  /\ stand' = standIn
  /\ user' = None /\ shape' = Full /\ box' = None /\ key' = None /\ unlocked' = None
  /\ loading' = TRUE
  /\ loginBusy' = FALSE /\ codeBusy' = FALSE /\ challenge' = None /\ cached' = FALSE
  /\ joining' = None /\ joinBusy' = FALSE
  /\ UNCHANGED <<durable, stored, cookie, vault>>

(* The page is loaded again: every handler waiting at an await is gone. *)
Reload == Op /\ Mount(stand)

(* The page is opened from the control plane with an impersonation token. *)
OpenImpersonation(a) == Op /\ Mount(a)

SessionInit ==
  /\ user = None /\ shape = Full /\ box = None /\ key = None /\ unlocked = None
  /\ list = <<>> /\ durable = <<>>
  /\ stored = [a \in Accounts |-> None]
  /\ vault = [a \in Accounts |-> NoEntry]
  /\ token = None /\ stand = None /\ cookie = None
  /\ loading = TRUE
  /\ loginBusy = FALSE /\ codeBusy = FALSE /\ challenge = None /\ cached = FALSE
  /\ joining = None /\ joinBusy = FALSE
  /\ tasks = {NewTask("mount", "me", None)}
  /\ ops = 0

----------------------------------------------------------------------------
(* bootstrapSession, from its call to its last await.                      *)

(* fetchCurrentUser has answered; on failure it returns null. *)
MeAnswer(t) ==
  /\ t.at = "me"
  /\ \/ /\ t.acc # None
        /\ user' = t.acc /\ shape' = Full
        /\ Continue(t, [t EXCEPT !.at = "boxes"])
        /\ UNCHANGED flags
     \/ Finish(t) /\ UNCHANGED <<user, shape>>
  /\ UNCHANGED <<box, key, unlocked, stores, ops>>

(* The entry of the mailbox that was found is put on top of the saved list  *)
(* and both copies are written.                                             *)
EntryAsToken(t, a, sk) ==
  LET e == [id |-> a, tok |-> t.tok, sk |-> sk]
  IN /\ list' = OnTop(SavedAccounts, [e EXCEPT !.tok = e])
     /\ durable' = Durable(list')
     /\ Continue(t, Load(t))
     /\ UNCHANGED <<token, stand, cookie, vault>>
SyncAccounts(t, a, sk) ==
  LET tok == IF t.tok # None THEN t.tok ELSE token
      l == OnTop(SavedAccounts, [id |-> a, tok |-> tok, sk |-> sk])
  IN /\ token' = tok
     /\ list' = l
     /\ durable' = Durable(l)
     /\ Continue(t, Load([t EXCEPT !.acc = a]))
     /\ UNCHANGED <<stand, cookie, vault>>

(* The mailbox a session opens: the user's own, when the organisation lists *)
(* it or the user record names it; else the one impersonated or the first   *)
(* of the organisation's, which may be anybody's.                           *)
TargetBoxes(t) ==
  IF t.shape.part THEN {t.acc} ELSE IF t.shape.org THEN Accounts ELSE {}

(* fetchMailboxes has answered; on failure it returns no mailbox. Without *)
(* a password the key of an earlier visit is restored.                     *)
MailboxesAnswer(t) ==
  /\ t.at = "boxes"
  /\ \/ \E a \in TargetBoxes(t) :
          /\ box' = a
          /\ t.pass # None
          /\ Continue(t, [t EXCEPT !.at = "wasm", !.acc = a])
          /\ UNCHANGED <<key, unlocked, stores, flags>>
     \/ \E a \in TargetBoxes(t) :
          /\ box' = a
          /\ t.pass = None
          /\ IF stored[a] # None
               THEN key' = stored[a] /\ unlocked' = a
               ELSE UNCHANGED <<key, unlocked>>
          /\ SyncAccounts(t, a, stored[a])
          /\ UNCHANGED <<stored, flags>>
     \/ /\ ~t.shape.part            \* no mailbox listed and none named by the user
        /\ box' = None
        /\ Finish(t)
        /\ UNCHANGED <<key, unlocked, stores>>
  /\ UNCHANGED <<user, shape, ops>>

(* The key is unwrapped with the password of the login, or it is not: the *)
(* failure is only logged.                                                 *)
AutoUnwrap(t) ==
  /\ t.at = "wasm" /\ t.op # "phrase"
  /\ \/ /\ t.wrap = t.pass
        /\ key' = t.wrap /\ unlocked' = t.acc
        /\ stored' = [stored EXCEPT ![t.acc] = t.wrap]
        /\ SyncAccounts(t, t.acc, t.wrap)
     \/ SyncAccounts(t, t.acc, None) /\ UNCHANGED <<key, unlocked, stored>>
  /\ UNCHANGED <<user, shape, box, flags, ops>>

(* loadMailboxData has returned, which it does whatever its requests answer. *)
LoadAnswer(t) ==
  /\ t.at = "load"
  /\ Finally(t)
  /\ IF t.op = "verify"
       THEN challenge' = None /\ cached' = FALSE
       ELSE UNCHANGED <<challenge, cached>>
  /\ UNCHANGED <<memory, stores, ops>>

----------------------------------------------------------------------------
(* Login, second factor, passkey.                                          *)

handleLogin(a) ==
  /\ Op /\ SignInScreen /\ ~loginBusy
  /\ loginBusy' = TRUE
  /\ Start([NewTask("login", "auth", a) EXCEPT !.pass = a])
  /\ UNCHANGED <<memory, stores, loading, codeBusy, challenge, cached, modal>>

(* The answer of POST /v1/auth/login to handleLogin and to handleUnlock:  *)
(* refused, a challenge, or a session. handleUnlock keeps the user it read *)
(* before the request; a missing wrapped key is replaced (KeyRing).        *)
LoginAnswer(t) ==
  /\ t.op \in {"login", "unlock"} /\ t.at = "auth"
  /\ \/ Finish(t) /\ UNCHANGED <<user, shape, token, cookie>>
     \/ /\ t.acc \in TwoFactor
        /\ challenge' = t.acc /\ cached' = TRUE /\ loginBusy' = FALSE
        /\ loading' = FALSE
        /\ Done(t)
        /\ UNCHANGED <<user, shape, token, cookie, codeBusy>>
     \/ /\ t.acc \notin TwoFactor
        /\ loading' = TRUE
        /\ token' = t.acc /\ cookie' = t.acc
        /\ IF t.op = "login"
             THEN /\ Continue(t, [t EXCEPT !.at = "me", !.tok = t.acc])
                  /\ UNCHANGED <<user, shape>>
             ELSE /\ Continue(t, [t EXCEPT !.at = "boxes", !.tok = t.acc])
                  /\ user' = t.acc /\ shape' = [t.shape EXCEPT !.wrapped = TRUE]
        /\ UNCHANGED <<loginBusy, codeBusy, challenge, cached>>
  /\ UNCHANGED <<box, key, unlocked, list, durable, stored, stand, vault, ops>>

handleVerifyLogin2FA ==
  /\ Op /\ CodeScreen /\ ~codeBusy
  /\ codeBusy' = TRUE
  /\ Start(NewTask("verify", "auth", challenge))
  /\ UNCHANGED <<memory, stores, loading, loginBusy, challenge, cached, modal>>

(* The session belongs to the account of the challenge; the user it is    *)
(* given to is the current one, when there is one by then. A user without *)
(* a wrapped key gets the one of the answer.                               *)
VerifyAnswer(t) ==
  /\ t.op = "verify" /\ t.at = "auth"
  /\ \/ Finish(t) /\ UNCHANGED <<user, shape, token, cookie>>
     \/ LET u == IF user = None THEN t.acc ELSE user
            own == IF user = None THEN Full ELSE shape
        IN /\ loading' = TRUE
           /\ token' = t.acc /\ cookie' = t.acc
           /\ user' = u /\ shape' = [own EXCEPT !.wrapped = TRUE]
           /\ Continue(t, [t EXCEPT !.at = "boxes", !.acc = u, !.tok = t.acc,
                                    !.wrap = IF own.wrapped THEN u ELSE t.acc,
                                    !.pass = IF cached THEN t.acc ELSE None,
                                    !.shape = own])
           /\ UNCHANGED <<loginBusy, codeBusy, challenge, cached>>
  /\ UNCHANGED <<box, key, unlocked, list, durable, stored, stand, vault, ops>>

(* Another way to get the code: the form is busy while the server sends it. *)
handleSwitchLogin2FAMethod ==
  /\ Op /\ CodeScreen /\ ~codeBusy
  /\ codeBusy' = TRUE
  /\ Start(NewTask("resend", "auth", challenge))
  /\ UNCHANGED <<memory, stores, loading, loginBusy, challenge, cached, modal>>
ResendAnswer(t) ==
  /\ t.op = "resend" /\ t.at = "auth"
  /\ Finish(t)
  /\ UNCHANGED <<memory, stores, ops>>

PasswordStays ==
  /\ Op /\ CodeScreen /\ ~codeBusy
  /\ challenge' = None
  /\ UNCHANGED <<memory, stores, loading, loginBusy, codeBusy, cached, modal, tasks>>
handleCancelLogin2FA ==
  /\ Op /\ CodeScreen /\ ~codeBusy
  /\ challenge' = None /\ cached' = FALSE
  /\ UNCHANGED <<memory, stores, loading, loginBusy, codeBusy, modal, tasks>>

handlePasskeyLogin(a) ==
  /\ Op /\ ~loginBusy
  /\ SignInScreen \/ UnlockScreen
  /\ loginBusy' = TRUE
  /\ Start(NewTask("passkey", "auth", a))
  /\ UNCHANGED <<memory, stores, loading, codeBusy, challenge, cached, modal>>

(* The passkey answer signs in, restores the key of the device vault when *)
(* this browser has one, and asks who is signed in.                        *)
PasskeyAnswer(t) ==
  /\ t.op = "passkey" /\ t.at = "auth"
  /\ \/ Finish(t) /\ UNCHANGED <<key, unlocked, stored, token, cookie>>
     \/ /\ loading' = TRUE
        /\ token' = t.acc /\ cookie' = t.acc
        /\ IF vault[t.acc] # NoEntry
             THEN /\ key' = vault[t.acc].sk /\ unlocked' = vault[t.acc].box
                  /\ stored' = [stored EXCEPT ![vault[t.acc].box] = vault[t.acc].sk]
             ELSE UNCHANGED <<key, unlocked, stored>>
        /\ Continue(t, [t EXCEPT !.at = "me", !.tok = t.acc])
        /\ UNCHANGED <<loginBusy, codeBusy, challenge, cached>>
  /\ UNCHANGED <<user, shape, box, list, durable, stand, vault, ops>>

----------------------------------------------------------------------------
(* Unlocking a mailbox whose user is known.                                *)

BusyIgnored ==
  /\ Op /\ UnlockScreen
  /\ loginBusy' = TRUE
  /\ Start([NewTask("unlock", "auth", user) EXCEPT !.pass = user, !.shape = shape])
  /\ UNCHANGED <<memory, stores, loading, codeBusy, challenge, cached, modal>>
handleUnlock ==
  /\ Op /\ UnlockScreen /\ ~loginBusy
  /\ loginBusy' = TRUE
  /\ Start([NewTask("unlock", "auth", user) EXCEPT !.pass = user, !.shape = shape])
  /\ UNCHANGED <<memory, stores, loading, codeBusy, challenge, cached, modal>>

handleUnlockWithRecovery ==
  /\ Op /\ UnlockScreen /\ ~loginBusy
  /\ loginBusy' = TRUE
  /\ Start([NewTask("phrase", "wasm", user) EXCEPT !.shape = shape])
  /\ UNCHANGED <<memory, stores, loading, codeBusy, challenge, cached, modal>>

(* The crypto module is loaded: the phrase opens the key when the mailbox *)
(* now selected is the one of the user read before, and that user has a    *)
(* wrapped key; a wrong phrase, or anything else, ends with a message.     *)
PhraseUnwrap(t) ==
  /\ t.op = "phrase" /\ t.at = "wasm"
  /\ \/ /\ t.shape = Full /\ box = t.acc
        /\ key' = t.acc /\ unlocked' = box
        /\ stored' = [stored EXCEPT ![box] = t.acc]
        /\ Continue(t, Load(t))
        /\ UNCHANGED flags
     \/ Finish(t) /\ UNCHANGED <<key, unlocked, stored>>
  /\ UNCHANGED <<user, shape, box, list, durable, token, stand, cookie, vault, ops>>

----------------------------------------------------------------------------
(* Switching, adding and signing out accounts.                             *)

(* The part of handleSwitchAccount before its await, applied to a list and *)
(* the keys of sessionStorage as the caller leaves them.                   *)
UnlockedStays(e, from, keys) ==
  /\ loading' = TRUE
  /\ token' = IF e.tok # None THEN e.tok ELSE token
  /\ key' = e.sk
  /\ stored' = IF e.sk # None THEN [keys EXCEPT ![e.id] = e.sk] ELSE keys
  /\ box' = e.id /\ user' = e.id
  /\ shape' = [org |-> user # None /\ shape.org, part |-> FALSE, wrapped |-> FALSE]
  /\ list' = OnTop(from, e)
  /\ durable' = Durable(OnTop(from, e))
  /\ UNCHANGED unlocked
SwitchTo(e, from, keys) ==
  /\ loading' = TRUE
  /\ token' = IF e.tok # None THEN e.tok ELSE token
  /\ IF e.sk # None
       THEN /\ key' = e.sk /\ unlocked' = e.id
            /\ stored' = [keys EXCEPT ![e.id] = e.sk]
       ELSE key' = None /\ unlocked' = None /\ stored' = keys
  /\ box' = e.id
  /\ user' = e.id
  /\ shape' = [org |-> user # None /\ shape.org, part |-> FALSE, wrapped |-> FALSE]
  /\ list' = OnTop(from, e)
  /\ durable' = Durable(OnTop(from, e))

handleSwitchAccount(i) ==
  /\ Op /\ MainScreen
  /\ list[i].id \notin {box, user}
  /\ SwitchTo(list[i], list, stored)
  /\ Start(NewTask("switch", "load", list[i].id))
  /\ UNCHANGED <<stand, cookie, vault, loginBusy, codeBusy, challenge, cached, modal>>

(* AddMailboxModal: the form and its answer. *)
handleSubmit(a) ==
  /\ Op /\ MainScreen /\ ~joinBusy /\ joining = None
  /\ joinBusy' = TRUE
  /\ Start([NewTask("add", "auth", a) EXCEPT !.pass = a])
  /\ UNCHANGED <<memory, stores, loading, loginBusy, codeBusy, challenge, cached, joining>>

handleVerify2FA ==
  /\ Op /\ MainScreen /\ ~joinBusy /\ joining # None
  /\ joinBusy' = TRUE
  /\ Start([NewTask("add", "auth", joining) EXCEPT !.pass = joining, !.modal = TRUE])
  /\ UNCHANGED <<memory, stores, loading, loginBusy, codeBusy, challenge, cached, joining>>

(* handleClose forgets the challenge; a request in flight still answers. *)
handleClose ==
  /\ Op /\ MainScreen /\ (joining # None \/ joinBusy)
  /\ joining' = None /\ joinBusy' = FALSE
  /\ UNCHANGED <<memory, stores, loading, loginBusy, codeBusy, challenge, cached, tasks>>

(* processAccountLogin stores the account and its key when the password    *)
(* opens it, then handleAccountAdded puts it on top and switches to it.    *)
(* The password of the second step is read from the form, which may have   *)
(* been closed.                                                            *)
processAccountLogin(t) ==
  \E sk \in (IF t.modal /\ joining = None THEN {None} ELSE {t.acc, None}) :
    LET e == [id |-> t.acc, tok |-> t.acc, sk |-> sk]
        keys == IF sk # None THEN [stored EXCEPT ![t.acc] = sk] ELSE stored
    IN SwitchTo(e, OnTop(list, e), keys)

AddAnswer(t) ==
  /\ t.op = "add" /\ t.at = "auth"
  /\ \/ /\ joinBusy' = FALSE
        /\ Done(t)
        /\ UNCHANGED <<memory, list, durable, stored, token, cookie, loading, joining>>
     \/ /\ t.acc \in TwoFactor /\ ~t.modal
        /\ joining' = (IF MainScreen THEN t.acc ELSE None) /\ joinBusy' = FALSE
        /\ Done(t)
        /\ UNCHANGED <<memory, list, durable, stored, token, cookie, loading>>
     \/ /\ t.acc \notin TwoFactor \/ t.modal
        /\ processAccountLogin(t)
        /\ cookie' = t.acc
        /\ joining' = None /\ joinBusy' = FALSE
        /\ Continue(t, NewTask("switch", "load", t.acc))
  /\ UNCHANGED <<stand, vault, loginBusy, codeBusy, challenge, cached, ops>>

(* Full sign-out: the stores are emptied, then the server is asked. *)
LogoutAll ==
  /\ list' = <<>> /\ durable' = <<>>
  /\ stored' = [a \in Accounts |-> None]
  /\ token' = None /\ stand' = None
  /\ Start(NewTask("logoutAll", "revoke", None))
  /\ UNCHANGED <<memory, loading>>

(* The end of a selective sign-out: the list read at its start, without    *)
(* the account, replaces the list of now and is written to both stores as   *)
(* it is; when the account was the active one the first of the rest is      *)
(* switched to.                                                             *)
LeaveAccount(snap, a, cur, keys) ==
  LET rest == Without(snap, a)
  IN IF a = cur /\ rest # <<>>
       THEN SwitchTo(rest[1], rest, keys)
       ELSE /\ list' = rest /\ durable' = rest
            /\ stored' = keys
            /\ UNCHANGED <<memory, token, loading>>
SwitchTask(snap, a, cur) ==
  LET rest == Without(snap, a)
  IN IF a = cur /\ rest # <<>> THEN {NewTask("switch", "load", rest[1].id)} ELSE {}

(* Sign-out of one account of several: its keys go, and its token, when it *)
(* has one, is revoked before the list changes.                            *)
LogoutOne(a, cur) ==
  LET keys == [stored EXCEPT ![a] = None]
  IN /\ IF \E i \in DOMAIN list : list[i].id = a /\ list[i].tok # None
          THEN /\ stored' = keys
               /\ Start([NewTask("logoutOne", "revoke", a) EXCEPT !.snap = list, !.cur = cur])
               /\ UNCHANGED <<memory, list, durable, token, loading>>
          ELSE /\ LeaveAccount(list, a, cur, keys)
               /\ Room /\ tasks' = tasks \cup SwitchTask(list, a, cur)
     /\ UNCHANGED stand

(* a is None for "sign out"; all is "sign out of all accounts". *)
handleLogout(a, all) ==
  /\ Op
  /\ MainScreen \/ (UnlockScreen /\ a = None /\ ~all)
  /\ LET cur == IF box # None THEN box ELSE user
         target == IF a # None THEN a ELSE cur
     IN IF all \/ target = None \/ Len(list) <= 1 THEN LogoutAll ELSE LogoutOne(target, cur)
  /\ UNCHANGED <<cookie, vault, loginBusy, codeBusy, challenge, cached, modal>>

OnlyIfRevoked(t) ==
  /\ t.op = "logoutAll"
  /\ \/ /\ user' = None /\ shape' = Full /\ box' = None /\ key' = None /\ unlocked' = None
        /\ cookie' = None
     \/ UNCHANGED <<memory, cookie>>
  /\ Done(t)
  /\ UNCHANGED <<list, durable, stored, token, stand, vault, flags, ops>>

(* The server has answered or failed: the local session ends either way. *)
LogoutAllAnswer(t) ==
  /\ t.op = "logoutAll"
  /\ user' = None /\ shape' = Full /\ box' = None /\ key' = None /\ unlocked' = None
  /\ cookie' \in {None, cookie}
  /\ Done(t)
  /\ UNCHANGED <<list, durable, stored, token, stand, vault, flags, ops>>

LogoutOneAnswer(t) ==
  /\ t.op = "logoutOne"
  /\ LeaveAccount(t.snap, t.acc, t.cur, stored)
  /\ tasks' = (tasks \ {t}) \cup SwitchTask(t.snap, t.acc, t.cur)
  /\ UNCHANGED <<stand, cookie, vault, loginBusy, codeBusy, challenge, cached, ops>>

handleExitImpersonation ==
  /\ Op /\ MainScreen /\ stand # None
  /\ stand' = None
  /\ Start(NewTask("exit", "revoke", None))
  /\ UNCHANGED <<memory, list, durable, stored, token, cookie, vault, flags, modal>>

(* The page is left for the control plane, and comes back by a mount. *)
ExitAnswer(t) == t.op = "exit" /\ Mount(stand) /\ UNCHANGED ops

----------------------------------------------------------------------------
(* The passkey vault and the other tabs.                                   *)

(* handleEnrollPasskey asks for options and has the authenticator make a    *)
(* credential, then registers it; the server takes it from the account that *)
(* asked for the options only.                                              *)
handleEnrollPasskey ==
  /\ Op /\ MainScreen /\ user # None
  /\ Caller # None
  /\ \A t \in tasks : t.op # "enroll"
  /\ Start(NewTask("enroll", "auth", Caller))
  /\ UNCHANGED <<memory, stores, flags, modal>>
PasskeyCreated(t) ==
  /\ t.op = "enroll" /\ t.at = "auth"
  /\ \/ Caller = t.acc /\ Continue(t, [t EXCEPT !.at = "register"])
     \/ Done(t)
  /\ UNCHANGED <<memory, stores, flags, ops>>

(* The credential is registered: the key of the mailbox selected by then is *)
(* kept with it, when this tab has one.                                     *)
PasskeyRegistered(t) ==
  /\ t.op = "enroll" /\ t.at = "register"
  /\ LET boxId == IF box # None THEN box ELSE user
     IN \/ /\ boxId # None /\ stored[boxId] # None
           /\ vault' = [vault EXCEPT ![t.acc] = [box |-> boxId, sk |-> stored[boxId]]]
        \/ UNCHANGED vault
  /\ Done(t)
  /\ UNCHANGED <<memory, list, durable, stored, token, stand, cookie, flags, ops>>

(* handleDeletePasskey drops what was kept before it asks the server. *)
handleDeletePasskey(a) ==
  /\ Op /\ MainScreen /\ user # None
  /\ vault[a] # NoEntry
  /\ vault' = [vault EXCEPT ![a] = NoEntry]
  /\ UNCHANGED <<memory, list, durable, stored, token, stand, cookie, flags, modal, tasks>>

(* Another tab of this browser signs an account in or out of the list it   *)
(* shares through localStorage; this tab takes the new list over.          *)
handleStorageChange ==
  /\ Op
  /\ \E a \in Accounts :
       \/ durable' = OnTop(durable, [id |-> a, tok |-> a, sk |-> None])
       \/ durable' = Without(durable, a) /\ Len(durable) > 1
  /\ list' = durable'
  /\ UNCHANGED <<memory, stored, token, stand, cookie, vault, flags, modal, tasks>>

----------------------------------------------------------------------------
(* The modal is part of the main screen and loses its state with it. *)
KeepModal ==
  IF MainScreen' THEN UNCHANGED modal ELSE joining' = None /\ joinBusy' = FALSE

Answer(t) ==
  \/ AddAnswer(t)
  \/ ExitAnswer(t)
  \/ /\ \/ MeAnswer(t)
        \/ MailboxesAnswer(t)
        \/ AutoUnwrap(t)
        \/ LoadAnswer(t)
        \/ LoginAnswer(t)
        \/ VerifyAnswer(t)
        \/ ResendAnswer(t)
        \/ PasskeyAnswer(t)
        \/ PhraseUnwrap(t)
        \/ LogoutAllAnswer(t)
        \/ LogoutOneAnswer(t)
        \/ PasskeyCreated(t)
        \/ PasskeyRegistered(t)
     /\ KeepModal

(* The forms and the menus, by the part of the screen they are on. *)
SignInForms ==
  \/ \E a \in Accounts : handleLogin(a) \/ handlePasskeyLogin(a)
  \/ handleVerifyLogin2FA \/ handleSwitchLogin2FAMethod \/ handleCancelLogin2FA
  \/ handleUnlock \/ handleUnlockWithRecovery
AddMailboxForms ==
  \/ \E a \in Accounts : handleSubmit(a)
  \/ handleVerify2FA \/ handleClose
SwitcherMenu ==
  \/ \E i \in DOMAIN list : handleSwitchAccount(i) \/ handleLogout(list[i].id, FALSE)
  \/ handleLogout(None, FALSE)
  \/ handleLogout(None, TRUE)

UserStep ==
  \/ SignInForms \/ AddMailboxForms \/ SwitcherMenu
  \/ \E a \in Accounts : OpenImpersonation(a) \/ handleDeletePasskey(a)
  \/ handleExitImpersonation
  \/ handleEnrollPasskey
  \/ handleStorageChange
  \/ Reload

SessionNext == UserStep \/ \E t \in tasks : Answer(t)
SessionSpec == SessionInit /\ [][SessionNext]_sessionVars

(* Every request is answered or fails in the end (fetch rejects when the   *)
(* connection is lost), so a waiting handler always resumes.               *)
SessionFairness == WF_sessionVars(\E t \in tasks : Answer(t))

----------------------------------------------------------------------------
(* An account is listed once, in this tab and in localStorage, whatever    *)
(* logins, switches, removals and other tabs write the list meanwhile      *)
(* (the filters of bootstrapSession, handleSwitchAccount and              *)
(* processAccountLogin).                                                   *)
AccountsOnce ==
  \A l \in {list, durable} : \A i, j \in DOMAIN l : l[i].id = l[j].id => i = j

(* At most one of login, passkey, unlock and recovery phrase is under way: *)
(* the forms share loginBusy, and every path through the four handlers    *)
(* gives it back once.                                                     *)
SingleSignIn == Cardinality({t \in tasks : t.op \in SignIns}) <= 1

(* The password kept for the second factor is never kept without the       *)
(* challenge it answers (handleVerifyLogin2FA, handleCancelLogin2FA).      *)
CachedForChallenge == cached => challenge # None

(* The key in memory is the one stored for the mailbox it unlocks, or that  *)
(* mailbox was signed out since: no interleaving of an unlock, a switch     *)
(* and a passkey leaves a third mailbox's key in use.                       *)
MemoryMatchesStore ==
  key # None => unlocked # None /\ stored[unlocked] \in {key, None}

(* What holds of the accounts of a tab at every moment, between any two     *)
(* awaits of its handlers.                                                  *)
SessionConsistent ==
  AccountsOnce /\ SingleSignIn /\ CachedForChallenge /\ MemoryMatchesStore

(* The loading screen, which hides every form, always ends: each handler   *)
(* that raises isLoading lowers it on every path.                          *)
LoadingEnds == loading ~> ~loading

(* A full sign-out ends with nobody signed in and no key in memory, though *)
(* the server may not answer.                                              *)
LogoutEnds == (\E t \in tasks : t.op = "logoutAll") ~> (user = None /\ key = None)
=============================================================================
