------------------------------- MODULE Import -------------------------------
(***************************************************************************)
(* The import dialog, apps/webmail/src/components/modals/                  *)
(* ImportEmailsModal.tsx: files are read and split into messages, then     *)
(* imported one after the other. A line of a file is of one of four kinds: *)
(* "from" starts with "From ", "esc" with ">From ", "blank" has no text,   *)
(* "text" is any other. A message is its lines.                            *)
(***************************************************************************)
EXTENDS Naturals, Sequences, FiniteSets, ArrayFilter

CONSTANTS
  Targets,   \* mailboxes
  Files,     \* the files that may be chosen: [mbox, lines]
  MaxFiles,  \* bound on files chosen
  MaxMoves   \* bound on the user's other steps

Line == {"from", "esc", "text", "blank"}

ASSUME ImportAssumption ==
  /\ Targets # {} /\ \A f \in Files : f \in [mbox : BOOLEAN, lines : Seq(Line)]
  /\ MaxFiles \in Nat /\ MaxMoves \in Nat

VARIABLES
  target,     \* props.mailboxId
  shownImp,   \* props.isOpen
  items,      \* items
  reading,    \* isProcessingFiles
  reads,      \* the handleFiles under way: files to read, messages read
  run,        \* isImporting, the items still to import
  summary,    \* importSummary is shown
  kept,       \* the messages the server has, by mailbox
  nextId,     \* ids given so far
  chosen,     \* files chosen so far
  moves       \* other steps so far

importVars == <<target, shownImp, items, reading, reads, run, summary, kept, nextId, chosen, moves>>

Batch == [no : Nat, left : Seq(Files), mails : Seq(Seq(Line))]
Item == [id : Nat, mail : Seq(Line), status : {"pending", "importing", "imported", "duplicate", "error"}]

ImportTypeOK ==
  /\ target \in Targets /\ shownImp \in BOOLEAN
  /\ items \in Seq(Item)
  /\ reading \in BOOLEAN /\ reads \subseteq Batch
  /\ run \in [on : BOOLEAN, left : Seq(Item)]
  /\ summary \in BOOLEAN
  /\ \A t \in Targets : kept[t] \subseteq Seq(Line)
  /\ nextId \in Nat /\ chosen \in 0..MaxFiles /\ moves \in 0..MaxMoves

ImportInit ==
  /\ target \in Targets /\ shownImp = TRUE
  /\ items = <<>> /\ reading = FALSE /\ reads = {}
  /\ run = [on |-> FALSE, left |-> <<>>] /\ summary = FALSE
  /\ kept = [t \in Targets |-> {}]
  /\ nextId = 0 /\ chosen = 0 /\ moves = 0

----------------------------------------------------------------------------
(* A "From " line ends the message before it, when there is one; the first *)
(* such line of a file is kept as part of its message.                     *)
Unescaped(l) == IF l = "esc" THEN "from" ELSE l
TakeLine(at, l) ==
  IF l = "from" /\ at.cur # <<>>
    THEN [out |-> Append(at.out, at.cur), cur |-> <<>>]
    ELSE [out |-> at.out, cur |-> Append(at.cur, Unescaped(l))]
HasText(mail) == \E i \in DOMAIN mail : mail[i] # "blank"

\* What splitMbox has after each number of lines: the messages, the lines since.
Splitting(lines) ==
  LET after[n \in 0..Len(lines)] ==
        IF n = 0 THEN [out |-> <<>>, cur |-> <<>>] ELSE TakeLine(after[n - 1], lines[n])
  IN after
ForgetsTheLast(lines) == Splitting(lines)[Len(lines)].out
splitMbox(lines) ==
  LET end == Splitting(lines)[Len(lines)]
  IN IF HasText(end.cur) THEN Append(end.out, end.cur) ELSE end.out

(* One item for each message that is not blank, or for the whole file. *)
Unstarted(mail, n) == [id |-> n, mail |-> mail, status |-> "new"]
parseRFC822(mail, n) == [id |-> n, mail |-> mail, status |-> "pending"]
MailsOf(f) ==
  LET raw == splitMbox(f.lines)
  IN IF f.mbox THEN Filtered(raw, {i \in DOMAIN raw : HasText(raw[i])}) ELSE <<f.lines>>
NewItems(mails) == [i \in DOMAIN mails |-> parseRFC822(mails[i], nextId + i)]

Move == moves < MaxMoves /\ moves' = moves + 1
OnlyItems == UNCHANGED <<target, shownImp, run, summary, kept>>

(* Dropping files is possible during an import too. *)
handleFiles(fs) ==
  /\ shownImp /\ chosen + Len(fs) <= MaxFiles
  /\ chosen' = chosen + Len(fs)
  /\ reading' = TRUE
  /\ reads' = reads \cup {[no |-> chosen, left |-> fs, mails |-> <<>>]}
  /\ UNCHANGED <<items, nextId, moves>> /\ OnlyItems

(* The files are read one after the other. After the last, the messages of *)
(* all of them are listed; a file that cannot be read loses them all.      *)
WithNext(b) == b.mails \o MailsOf(Head(b.left))
FileRead(b) ==
  /\ Len(b.left) > 1
  /\ reads' = (reads \ {b}) \cup {[b EXCEPT !.left = Tail(@), !.mails = WithNext(b)]}
  /\ UNCHANGED <<items, nextId, reading, chosen, moves>> /\ OnlyItems
FilesRead(b) ==
  /\ reads' = reads \ {b}
  /\ reading' = FALSE
  /\ \/ /\ Len(b.left) = 1
        /\ items' = items \o NewItems(WithNext(b))
        /\ nextId' = nextId + Len(WithNext(b))
     \/ UNCHANGED <<items, nextId>>
  /\ UNCHANGED <<chosen, moves>> /\ OnlyItems

removeItem(i) ==
  /\ Move /\ shownImp /\ ~run.on
  /\ items' = Filtered(items, {j \in DOMAIN items : items[j].id # items[i].id})
  /\ UNCHANGED <<reading, reads, nextId, chosen>> /\ OnlyItems
clearAll ==
  /\ Move /\ shownImp /\ ~run.on /\ items # <<>>
  /\ items' = <<>> /\ summary' = FALSE
  /\ UNCHANGED <<target, shownImp, reading, reads, run, kept, nextId, chosen>>

(* The dialog is opened again, empty. *)
ReopenImport ==
  /\ Move /\ ~run.on
  /\ shownImp' = ~shownImp
  /\ IF shownImp' THEN items' = <<>> /\ reading' = FALSE /\ summary' = FALSE
                  ELSE UNCHANGED <<items, reading, summary>>
  /\ UNCHANGED <<target, reads, run, kept, nextId, chosen>>
(* handleSwitchAccount, started before the dialog was opened, ends. *)
SwitchTarget(t) ==
  /\ Move /\ t # target
  /\ target' = t
  /\ UNCHANGED <<shownImp, items, reading, reads, run, summary, kept, nextId, chosen>>

----------------------------------------------------------------------------
Marked(its, n, s) == [i \in DOMAIN its |-> IF its[i].id = n THEN [its[i] EXCEPT !.status = s] ELSE its[i]]

startImport ==
  /\ Move /\ shownImp
  /\ items # <<>> /\ ~run.on /\ ~reading /\ ~summary
  /\ run' = [on |-> TRUE, left |-> items]
  /\ items' = Marked(items, Head(items).id, "importing")
  /\ UNCHANGED <<target, shownImp, reading, reads, summary, kept, nextId, chosen>>

(* The next item is taken up, or the import ends and shows its summary. *)
SameItem(its) == items' = its /\ UNCHANGED <<run, summary>>
NextItem(its) ==
  LET rest == Tail(run.left)
  IN /\ run' = [on |-> rest # <<>>, left |-> rest]
     /\ summary' = (rest = <<>>)
     /\ items' = IF rest = <<>> THEN its ELSE Marked(its, Head(rest).id, "importing")

(* The server takes a message that the mailbox does not have yet. An error *)
(* may also be the lost answer of a message it took.                       *)
AlwaysImported ==
  /\ run.on
  /\ LET it == Head(run.left)
     IN /\ kept' \in {kept, [kept EXCEPT ![target] = @ \cup {it.mail}]}
        /\ NextItem(Marked(items, it.id, "imported"))
  /\ UNCHANGED <<target, shownImp, reading, reads, nextId, chosen, moves>>
ImportAnswer ==
  /\ run.on
  /\ LET it == Head(run.left)
         added == [kept EXCEPT ![target] = @ \cup {it.mail}]
     IN \/ kept' = added /\ it.mail \notin kept[target] /\ NextItem(Marked(items, it.id, "imported"))
        \/ kept' = kept /\ it.mail \in kept[target] /\ NextItem(Marked(items, it.id, "duplicate"))
        \/ kept' \in {kept, added} /\ NextItem(Marked(items, it.id, "error"))
  /\ UNCHANGED <<target, shownImp, reading, reads, nextId, chosen, moves>>

----------------------------------------------------------------------------
DropZone == \E n \in 1..MaxFiles : \E fs \in [1..n -> Files] : handleFiles(fs)
ItemList == clearAll \/ \E i \in DOMAIN items : removeItem(i)
ImportButtons == startImport \/ ReopenImport

ImportNext ==
  \/ DropZone \/ ItemList \/ ImportButtons
  \/ \E b \in reads : FileRead(b) \/ FilesRead(b)
  \/ ImportAnswer
  \/ \E t \in Targets : SwitchTarget(t)
ImportSpec == ImportInit /\ [][ImportNext]_importVars

(* Every upload is answered or fails in the end. *)
ImportFairness == WF_importVars(ImportAnswer)

----------------------------------------------------------------------------
LinesOf(s, kind) == {i \in DOMAIN s : s[i] = kind}
LinesAmong(mails, kind) == UNION {{k} \X LinesOf(mails[k], kind) : k \in DOMAIN mails}

(* Splitting loses no line of a message, wherever the separators, the      *)
(* escaped lines and the blank ones are, the end of the file included      *)
(* (splitMbox): the messages have as many lines of text as the file, and   *)
(* each escaped line is one of them.                                       *)
SplitKeepsLines ==
  \A b \in reads : \A i \in DOMAIN b.left :
    LET lines == b.left[i].lines
        out == splitMbox(lines)
    IN /\ Cardinality(LinesAmong(out, "text")) = Cardinality(LinesOf(lines, "text"))
       /\ Cardinality(LinesAmong(out, "from")) >= Cardinality(LinesOf(lines, "esc"))

(* A message reported as imported or as a duplicate is in a mailbox, and   *)
(* no item is left "importing" when no import runs, through files dropped  *)
(* during the import, a mailbox switched under it and failed requests.     *)
ImportTellsTruth ==
  \A i \in DOMAIN items :
    /\ items[i].status \in {"imported", "duplicate"} => \E t \in Targets : items[i].mail \in kept[t]
    /\ items[i].status = "importing" => run.on

(* What was in the files is what the dialog lists, and what it reports as  *)
(* stored is stored (splitMbox, startImport).                              *)
ImportTruthful == SplitKeepsLines /\ ImportTellsTruth

(* An import ends, whatever its requests answer. *)
ImportEnds == run.on ~> ~run.on
=============================================================================
