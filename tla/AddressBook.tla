---------------------------- MODULE AddressBook ----------------------------
(***************************************************************************)
(* The contacts dialog of apps/webmail/src/App.tsx. The server keeps each  *)
(* contact as a sealed envelope with a version; the dialog decrypts them   *)
(* into contacts() and edits a copy of one of them. What a contact says    *)
(* (name, address, notes) is one numbered value.                           *)
(***************************************************************************)
EXTENDS Naturals, FiniteSets

CONSTANTS
  Books,     \* mailboxes, each with its contacts
  CardIds,   \* ids of contacts
  Nothing,   \* null
  MaxValue,  \* bound on values written
  MaxAsks,   \* bound on handlers waiting at once
  MaxClicks  \* bound on what the user and other devices do

ASSUME AddressBookAssumption ==
  /\ Nothing \notin Books \cup CardIds
  /\ Nothing \notin [book : Books, ver : Nat, value : Nat]   \* null is no row
  /\ MaxValue \in Nat \ {0} /\ MaxAsks \in Nat /\ MaxClicks \in Nat

VARIABLES
  book,      \* selectedMailbox
  sealedBy,  \* unlockedBoxId: the mailbox whose key is in memory
  shown,     \* contacts, by id
  dialog,    \* contactsOpen
  editing,   \* editingContact
  typed,     \* contactName, contactEmail, contactNotes; 0 fails the checks
  cards,     \* the server's contacts; a deleted one has version 0
  asks,      \* handlers waiting for the server
  values,    \* values written so far
  clicks     \* operations so far

bookVars == <<book, sealedBy, shown, dialog, editing, typed, cards, asks, values, clicks>>

Values == 0..MaxValue
Card == [ver : Nat, value : Values]
DisplayContact == [id : CardIds, ver : Nat, value : Values]
AskOf == [op : {"open", "add", "update", "delete"}, book : Books, value : Values,
          copy : DisplayContact \cup {Nothing}]

AddressBookTypeOK ==
  /\ book \in Books /\ sealedBy \in Books \cup {Nothing}
  /\ DOMAIN shown \subseteq CardIds /\ \A c \in DOMAIN shown : shown[c] \in Card
  /\ dialog \in BOOLEAN
  /\ editing \in DisplayContact \cup {Nothing}
  /\ typed \in Values
  /\ \A c \in CardIds : cards[c] \in [book : Books, ver : Nat, value : Values] \cup {Nothing}
  /\ asks \subseteq AskOf
  /\ values \in Values /\ clicks \in 0..MaxClicks

NoneShown == [c \in {} |-> [ver |-> 0, value |-> 0]]
(* One contact exists; the mailbox is open. *)
AddressBookInit ==
  LET first == CHOOSE c \in CardIds : TRUE
  IN /\ book \in Books /\ sealedBy = book
     /\ shown = NoneShown /\ dialog = FALSE /\ editing = Nothing /\ typed = 0
     /\ cards = [c \in CardIds |-> IF c = first THEN [book |-> book, ver |-> 1, value |-> 1] ELSE Nothing]
     /\ asks = {} /\ values = 1 /\ clicks = 0

Click == clicks < MaxClicks /\ clicks' = clicks + 1
Asking(k) == Cardinality(asks) < MaxAsks /\ asks' = asks \cup {k}
Answered(k) == asks' = asks \ {k}
AskFor(op, value, copy) == [op |-> op, book |-> book, value |-> value, copy |-> copy]
Opened == sealedBy = book
InBook(c, b) == cards[c] # Nothing /\ cards[c].book = b /\ cards[c].ver > 0

----------------------------------------------------------------------------
openContacts ==
  /\ Click
  /\ dialog' = TRUE
  /\ IF Opened THEN Asking(AskFor("open", 0, Nothing)) /\ UNCHANGED shown
               ELSE shown' = NoneShown /\ UNCHANGED asks
  /\ UNCHANGED <<book, sealedBy, editing, typed, cards, values>>

(* The key was read before the request: what comes is decrypted and shown  *)
(* whatever has been locked or selected since. A failure empties the list. *)
ContactsAnswer(k) ==
  /\ k.op = "open"
  /\ Answered(k)
  /\ \/ shown' = [c \in {d \in CardIds : InBook(d, k.book)}
                    |-> [ver |-> cards[c].ver, value |-> cards[c].value]]
     \/ shown' = NoneShown
  /\ UNCHANGED <<book, sealedBy, dialog, editing, typed, cards, values, clicks>>

KeepsIdOnly(e) ==
  /\ editing' = IF e = Nothing THEN e ELSE [id |-> e.id, value |-> e.value]
  /\ typed' = 0
startEditContact(e) ==
  /\ editing' = e
  /\ typed' = IF e = Nothing THEN 0 ELSE e.value
EditContact(c) ==
  /\ Click /\ dialog
  /\ startEditContact([id |-> c, ver |-> shown[c].ver, value |-> shown[c].value])
  /\ UNCHANGED <<book, sealedBy, shown, dialog, cards, asks, values>>
CancelEdit ==
  /\ Click /\ dialog /\ editing # Nothing
  /\ startEditContact(Nothing)
  /\ UNCHANGED <<book, sealedBy, shown, dialog, cards, asks, values>>
TypeContact ==
  /\ Click /\ dialog /\ values < MaxValue
  /\ values' = values + 1 /\ typed' = values + 1
  /\ UNCHANGED <<book, sealedBy, shown, dialog, editing, cards, asks>>
CloseContacts ==
  /\ Click /\ dialog
  /\ dialog' = FALSE
  /\ startEditContact(Nothing)
  /\ UNCHANGED <<book, sealedBy, shown, cards, asks, values>>

handleSaveContact ==
  /\ Click /\ dialog /\ Opened /\ typed # 0
  /\ Asking(AskFor(IF editing = Nothing THEN "add" ELSE "update", typed, editing))
  /\ UNCHANGED <<book, sealedBy, shown, dialog, editing, typed, cards, values>>

AddContactAnswer(k) ==
  /\ k.op = "add"
  /\ Answered(k)
  /\ \/ \E c \in CardIds :
          /\ cards[c] = Nothing
          /\ cards' = [cards EXCEPT ![c] = [book |-> k.book, ver |-> 1, value |-> k.value]]
          /\ \/ /\ shown' = [d \in DOMAIN shown \cup {c} |->
                               IF d = c THEN [ver |-> 1, value |-> k.value] ELSE shown[d]]
                /\ startEditContact(Nothing)
             \/ UNCHANGED <<shown, editing, typed>>     \* the answer is lost
     \/ UNCHANGED <<cards, shown, editing, typed>>
  /\ UNCHANGED <<book, sealedBy, dialog, values, clicks>>

(* The server takes an update of the version it has, and no other. After   *)
(* a conflict the contacts are loaded again and the edited copy stays.     *)
AnyVersionFits(k) == InBook(k.copy.id, k.book)
Fits(k) == InBook(k.copy.id, k.book) /\ cards[k.copy.id].ver = k.copy.ver
UpdateContactAnswer(k) ==
  /\ k.op = "update"
  /\ LET c == k.copy.id
         next == [ver |-> k.copy.ver + 1, value |-> k.value]
     IN \/ /\ Fits(k)
           /\ Answered(k)
           /\ cards' = [cards EXCEPT ![c].ver = next.ver, ![c].value = next.value]
           /\ \/ /\ shown' = [d \in DOMAIN shown |-> IF d = c THEN next ELSE shown[d]]
                 /\ startEditContact(Nothing)
              \/ UNCHANGED <<shown, editing, typed>>
           /\ UNCHANGED dialog
        \/ /\ InBook(c, k.book) /\ ~Fits(k)
           /\ dialog' = TRUE
           /\ IF Opened THEN /\ asks' = (asks \ {k}) \cup {AskFor("open", 0, Nothing)}
                             /\ UNCHANGED shown
                        ELSE shown' = NoneShown /\ Answered(k)
           /\ UNCHANGED <<cards, editing, typed>>
        \/ Answered(k) /\ UNCHANGED <<cards, shown, editing, typed, dialog>>
  /\ UNCHANGED <<book, sealedBy, values, clicks>>

handleDeleteContact(c) ==
  /\ Click /\ dialog
  /\ Asking(AskFor("delete", 0, [id |-> c, ver |-> shown[c].ver, value |-> shown[c].value]))
  /\ UNCHANGED <<book, sealedBy, shown, dialog, editing, typed, cards, values>>
DeleteContactAnswer(k) ==
  /\ k.op = "delete"
  /\ Answered(k)
  /\ LET c == k.copy.id
     IN \/ /\ InBook(c, k.book)
           /\ cards' = [cards EXCEPT ![c].ver = 0]
           /\ \/ /\ shown' = [d \in DOMAIN shown \ {c} |-> shown[d]]
                 /\ IF editing # Nothing /\ editing.id = c THEN startEditContact(Nothing)
                                                           ELSE UNCHANGED <<editing, typed>>
              \/ UNCHANGED <<shown, editing, typed>>
        \/ UNCHANGED <<cards, shown, editing, typed>>
  /\ UNCHANGED <<book, sealedBy, dialog, values, clicks>>

----------------------------------------------------------------------------
(* Another device saves the contact. *)
SavedElsewhere(c) ==
  /\ Click /\ values < MaxValue /\ \E b \in Books : InBook(c, b)
  /\ values' = values + 1
  /\ cards' = [cards EXCEPT ![c].ver = @ + 1, ![c].value = values + 1]
  /\ UNCHANGED <<book, sealedBy, shown, dialog, editing, typed, asks>>

(* handleSwitchAccount leaves the dialog and what it shows alone. *)
SwitchBook(b) ==
  /\ Click /\ b # book
  /\ book' = b /\ sealedBy' \in {b, Nothing}
  /\ UNCHANGED <<shown, dialog, editing, typed, cards, asks, values>>
(* lockMailbox, and opening the mailbox again. *)
LockBook ==
  /\ Click /\ sealedBy # Nothing
  /\ sealedBy' = Nothing
  /\ shown' = NoneShown /\ dialog' = FALSE
  /\ startEditContact(Nothing)
  /\ UNCHANGED <<book, cards, asks, values>>
OpenBook ==
  /\ Click /\ sealedBy # book
  /\ sealedBy' = book
  /\ UNCHANGED <<book, shown, dialog, editing, typed, cards, asks, values>>

----------------------------------------------------------------------------
AskStep(k) ==
  \/ ContactsAnswer(k) \/ AddContactAnswer(k) \/ UpdateContactAnswer(k) \/ DeleteContactAnswer(k)

ContactsDialog ==
  \/ CancelEdit \/ TypeContact \/ CloseContacts \/ handleSaveContact
  \/ \E c \in DOMAIN shown : EditContact(c) \/ handleDeleteContact(c)

AddressBookNext ==
  \/ openContacts \/ ContactsDialog
  \/ \E c \in CardIds : SavedElsewhere(c)
  \/ \E b \in Books : SwitchBook(b)
  \/ LockBook \/ OpenBook
  \/ \E k \in asks : AskStep(k)
AddressBookSpec == AddressBookInit /\ [][AddressBookNext]_bookVars

----------------------------------------------------------------------------
(* No change to a contact is overwritten unseen: when the server would     *)
(* take an update, the copy it was made from is the contact as it is now,  *)
(* whatever was saved elsewhere, loaded late or answered out of order      *)
(* (editingContact.version).                                               *)
NoLostContactUpdate ==
  \A e \in ({editing} \cup {k.copy : k \in {j \in asks : j.op = "update"}}) \ {Nothing} :
    (cards[e.id] # Nothing /\ cards[e.id].ver = e.ver) => cards[e.id].value = e.value

=============================================================================
