--------------------------- MODULE ConsolesProofs ---------------------------
(***************************************************************************)
(* What holds of the support console, of the page of mailboxes and of the  *)
(* price for any number of organisations, administrators, mailboxes,       *)
(* aliases, seats and requests, and so of the consoles together.           *)
(***************************************************************************)
EXTENDS MCConsoles, KeyRingProofs, AttachmentsProofs, FiniteSetTheorems

-----------------------------------------------------------------------------
(* Finite sets. *)

(* Cardinalities of finite sets that grow or shrink by one element. *)
LEMMA OneMore ==
  ASSUME NEW S, IsFiniteSet(S), NEW e
  PROVE  /\ IsFiniteSet(S \cup {e}) /\ Cardinality(S \cup {e}) \in Nat /\ Cardinality(S) \in Nat
         /\ Cardinality(S \cup {e}) <= Cardinality(S) + 1
         /\ e \notin S => Cardinality(S \cup {e}) = Cardinality(S) + 1
<1>1. IsFiniteSet(S \cup {e}) /\ Cardinality(S) \in Nat
  BY FS_AddElement, FS_CardinalityType
<1>2. CASE e \in S
  <2> DEFINE T == S \cup {e}
  <2>1. T = S
    BY <1>2
  <2> HIDE DEF T
  <2>2. Cardinality(T) \in Nat /\ Cardinality(T) <= Cardinality(S) + 1
    BY <1>1, <2>1
  <2> QED BY <1>1, <1>2, <2>2 DEF T
<1>3. CASE e \notin S
  <2>1. Cardinality(S \cup {e}) = Cardinality(S) + 1
    BY <1>3, FS_AddElement
  <2> QED BY <1>1, <1>3, <2>1
<1> QED BY <1>2, <1>3

(* A finite set without one of its elements. *)
LEMMA OneLess ==
  ASSUME NEW S, IsFiniteSet(S), NEW e \in S
  PROVE  /\ IsFiniteSet(S \ {e}) /\ Cardinality(S \ {e}) \in Nat /\ Cardinality(S) \in Nat
         /\ Cardinality(S \ {e}) = Cardinality(S) - 1
BY FS_RemoveElement, FS_CardinalityType

(* A subset of a finite set has no more elements. *)
LEMMA NoMore ==
  ASSUME NEW S, IsFiniteSet(S), NEW T, T \subseteq S
  PROVE  /\ IsFiniteSet(T) /\ Cardinality(T) \in Nat /\ Cardinality(S) \in Nat
         /\ Cardinality(T) <= Cardinality(S)
BY FS_Subset, FS_CardinalityType

(* A set that loses r and may gain s in its place does not grow. *)
LEMMA Swapped ==
  ASSUME NEW S, IsFiniteSet(S), NEW r, NEW s, NEW T, T \subseteq (S \ {r}) \cup {s},
         s \in T => r \in S
  PROVE  /\ IsFiniteSet(T) /\ Cardinality(T) \in Nat /\ Cardinality(S) \in Nat
         /\ Cardinality(T) <= Cardinality(S)
         /\ r \in S /\ s \notin T => Cardinality(T) <= Cardinality(S) - 1
<1>1. CASE s \in T
  <2> DEFINE K == S \ {r}
  <2>1. IsFiniteSet(K) /\ Cardinality(K) \in Nat /\ Cardinality(S) \in Nat
        /\ Cardinality(K) = Cardinality(S) - 1
    BY <1>1, OneLess
  <2>2. T \subseteq K \cup {s}
    OBVIOUS
  <2> HIDE DEF K
  <2>3. IsFiniteSet(K \cup {s}) /\ Cardinality(K \cup {s}) \in Nat
        /\ Cardinality(K \cup {s}) <= Cardinality(K) + 1
    BY <2>1, OneMore
  <2>4. IsFiniteSet(T) /\ Cardinality(T) \in Nat /\ Cardinality(T) <= Cardinality(K \cup {s})
    BY <2>2, <2>3, NoMore
  <2> QED BY <1>1, <2>1, <2>3, <2>4
<1>2. CASE s \notin T
  <2>1. T \subseteq S \ {r}
    BY <1>2
  <2>2. IsFiniteSet(T) /\ Cardinality(T) \in Nat /\ Cardinality(S) \in Nat
        /\ Cardinality(T) <= Cardinality(S)
    BY <2>1, NoMore
  <2>3. ASSUME r \in S PROVE Cardinality(T) <= Cardinality(S) - 1
    <3> DEFINE K == S \ {r}
    <3>1. IsFiniteSet(K) /\ Cardinality(K) = Cardinality(S) - 1
      BY <2>3, OneLess
    <3>2. T \subseteq K
      BY <2>1
    <3> HIDE DEF K
    <3>3. Cardinality(T) <= Cardinality(K)
      BY <3>1, <3>2, NoMore
    <3> QED BY <3>1, <3>3
  <2> QED BY <1>2, <2>2, <2>3
<1> QED BY <1>1, <1>2

-----------------------------------------------------------------------------
(* The support console.                                                    *)

(* The sets the console counts and writes. *)
Entries == [auditId : 1..MaxUses, kind : Kinds, of : Orgs \cup Stalled \cup {Nobody}, new : Row]
Writes == {"suspend", "capacity", "reset", "intervene"}
ToBeWritten == {c \in calls : c.st = "sent" /\ c.kind \in Writes}

(* The type invariant, over the named sets. *)
CrmTyped ==
  /\ dbRow \in [Orgs -> Row] /\ page \in [Orgs -> Row]
  /\ ledger \in Seq(Entries)
  /\ audit \in 0..MaxUses
  /\ pane \in NavTab /\ filter \in Status \cup {"all"}
  /\ menu \in Orgs \cup {Nobody} /\ resetting \in Orgs \cup {Nobody}
  /\ thread \in Orgs \cup {Nobody}
  /\ resizing \in [org : Orgs \cup {Nobody}, seats : 1..MaxSeats]
  /\ stall \in [Stalled -> {"stalled", "processing", "resolved"}]
  /\ health \in Stalled \cup {Nobody} /\ looked \in Stalled \cup {Nobody} /\ looking \in BOOLEAN
  /\ calls \subseteq Call
  /\ crossed \subseteq Orgs
  /\ uses \in 0..MaxUses

(* A call of a dialog is about an organisation, one of the queue about a *)
(* row of it.                                                            *)
CallAimed(c) ==
  /\ c.kind \in {"suspend", "capacity", "reset"} => c.of \in Orgs
  /\ c.kind \in {"intervene", "health"} => c.of \in Stalled
CallsAimed == \A c \in calls : CallAimed(c)

(* The entries written and those still to be written are no more than the *)
(* uses there were.                                                       *)
CallsCounted ==
  /\ IsFiniteSet(calls) /\ Cardinality(calls) <= MaxCalls
  /\ Len(ledger) + Cardinality(ToBeWritten) <= uses

(* The entries about an organisation have a last one. *)
LedgerHasLatest ==
  \A o \in Orgs, kind \in {"suspend", "capacity"} :
    Last(o, kind) = {} \/ \E i \in Last(o, kind) : \A j \in Last(o, kind) : j <= i

(* handleToggleSuspend shows the new status before the server has it, and *)
(* keeps the old one to put it back: while its call is under way the page *)
(* shows what the call asks for, and the call keeps what the server has.  *)
(* Any other call finds page and server agreed.                           *)
CallAgrees(c, o) ==
  /\ c.kind = "suspend" =>
       /\ c.st = "sent" => page[o].status = c.new.status /\ c.old.status = dbRow[o].status
       /\ c.st = "served" => page[o].status = dbRow[o].status
       /\ c.st = "failed" => c.old.status = dbRow[o].status
  /\ c.kind # "suspend" =>
       /\ page[o].status = dbRow[o].status
       /\ c.kind = "orgs" /\ c.st = "served" => c.table[o].status = dbRow[o].status

(* An organisation that no two calls touched at once: at most one call is *)
(* under way, and it agrees.                                              *)
Settled(o) ==
  /\ \A c, d \in Touching(o) : c = d
  /\ Touching(o) = {} => page[o].status = dbRow[o].status
  /\ \A c \in Touching(o) : CallAgrees(c, o)

(* The inductive invariant of the console. *)
CrmInv ==
  /\ CrmTyped
  /\ CallsAimed
  /\ CallsCounted
  /\ LedgerHasLatest /\ LedgerExplains
  /\ \A o \in Orgs \ crossed : Settled(o)

(* The named sets are those of the console's type invariant. *)
LEMMA CrmTypedImplies == CrmTyped /\ CallsCounted => CrmTypeOK
<1> SUFFICES ASSUME CrmTyped, CallsCounted PROVE CrmTypeOK
  OBVIOUS
<1>1. \A i \in DOMAIN ledger : ledger[i].auditId \in 1..MaxUses
  <2>1. \A i \in DOMAIN ledger : ledger[i] \in Entries
    BY DEF CrmTyped
  <2> QED BY <2>1 DEF Entries
<1>2. resizing.org \in Orgs \cup {Nobody} /\ resizing.seats \in 1..MaxSeats
  BY DEF CrmTyped
<1> QED BY <1>1, <1>2 DEF CrmTyped, CallsCounted, CrmTypeOK

(* The row no answer has filled. *)
LEMMA BlankRow == Blank \in Row
BY CrmAssumption DEF Blank, Row, Status

(* Put changes one field of one row, or nothing. *)
LEMMA PutRow ==
  ASSUME NEW rows \in [Orgs -> Row], NEW c \in Call, CallAimed(c), NEW r \in Row
  PROVE  /\ Put(rows, c, r) \in [Orgs -> Row]
         /\ \A o \in Orgs : o # c.of => Put(rows, c, r)[o] = rows[o]
         /\ c.kind = "suspend" => Put(rows, c, r)[c.of].status = r.status /\ Put(rows, c, r)[c.of].seats = rows[c.of].seats
         /\ c.kind = "capacity" => Put(rows, c, r)[c.of].status = rows[c.of].status /\ Put(rows, c, r)[c.of].seats = r.seats
         /\ c.kind \notin {"suspend", "capacity"} => Put(rows, c, r) = rows
<1>1. CASE c.kind = "suspend"
  BY <1>1 DEF Put, CallAimed, Row
<1>2. CASE c.kind = "capacity"
  BY <1>2 DEF Put, CallAimed, Row
<1>3. CASE c.kind \notin {"suspend", "capacity"}
  BY <1>3 DEF Put
<1> QED BY <1>1, <1>2, <1>3

(* A new call is well formed. *)
LEMMA NewCallTyped ==
  ASSUME CrmTyped, Use, NEW kind \in Kinds, NEW of \in Orgs \cup Stalled \cup {Nobody},
         NEW new \in Row, NEW old \in Row
  PROVE  /\ NewCall(kind, of, new, old) \in Call
         /\ NewCall(kind, of, new, old).kind = kind /\ NewCall(kind, of, new, old).of = of
         /\ NewCall(kind, of, new, old).new = new /\ NewCall(kind, of, new, old).old = old
         /\ NewCall(kind, of, new, old).st = "sent"
<1>1. uses' \in 1..MaxUses
  BY CrmAssumption DEF CrmTyped, Use
<1>2. page \in [Orgs -> Row] /\ 0 \in 0..MaxUses
  BY CrmAssumption DEF CrmTyped
<1> QED BY <1>1, <1>2 DEF NewCall, Call

(* The call joins the ones in flight; adminFetch keeps them within bounds. *)
LEMMA FetchTyped ==
  ASSUME CrmInv, Use, NEW c \in Call, CallAimed(c), adminFetch(c), UNCHANGED ledger
  PROVE  calls' \subseteq Call /\ CallsAimed' /\ CallsCounted' /\ uses' \in 0..MaxUses
<1> DEFINE kept == {d \in calls : d.kind # c.kind \/ c.kind \notin {"orgs", "audit"}}
<1>1. calls' = kept \cup {c}
  BY DEF adminFetch
<1>2. calls' \subseteq Call /\ CallsAimed'
  BY <1>1 DEF CrmInv, CrmTyped, CallsAimed
<1>3. IsFiniteSet(kept) /\ Cardinality(kept) <= Cardinality(calls) /\ Cardinality(kept) \in Nat
       /\ Cardinality(calls) \in Nat
  BY NoMore DEF CrmInv, CallsCounted
<1>4. IsFiniteSet(calls') /\ Cardinality(calls') <= Cardinality(kept) + 1
       /\ Cardinality(calls') \in Nat
  BY <1>1, <1>3, OneMore
<1>5. IsFiniteSet(calls') /\ Cardinality(calls') <= MaxCalls
  BY <1>3, <1>4, CrmAssumption DEF adminFetch
<1>6. IsFiniteSet(ToBeWritten) /\ Cardinality(ToBeWritten) \in Nat
  BY NoMore DEF ToBeWritten, CrmInv, CallsCounted
<1>7. IsFiniteSet(ToBeWritten \cup {c}) /\ Cardinality(ToBeWritten \cup {c}) <= Cardinality(ToBeWritten) + 1
       /\ Cardinality(ToBeWritten \cup {c}) \in Nat
  BY <1>6, OneMore
<1>8. ToBeWritten' \subseteq ToBeWritten \cup {c}
  BY <1>1 DEF ToBeWritten
<1>9. Cardinality(ToBeWritten') <= Cardinality(ToBeWritten) + 1 /\ Cardinality(ToBeWritten') \in Nat
  BY <1>6, <1>7, <1>8, NoMore
<1>10. /\ uses \in Nat /\ uses' = uses + 1 /\ uses < MaxUses /\ Len(ledger) \in Nat
       /\ Len(ledger) + Cardinality(ToBeWritten) <= uses
  BY CrmAssumption DEF CrmInv, CrmTyped, CallsCounted, Use
<1>11. uses' \in 0..MaxUses
  BY <1>10, CrmAssumption
<1>12. Len(ledger') + Cardinality(ToBeWritten') <= uses'
  BY <1>6, <1>9, <1>10
<1> QED BY <1>2, <1>5, <1>11, <1>12 DEF CallsCounted

(* A call is answered or gives way to the refetch of the audit log. *)
LEMMA ReplaceTyped ==
  ASSUME CrmInv, NEW c \in calls, NEW new, new \in Call, CallAimed(new),
         NEW kept \in SUBSET (calls \ {c}), calls' \in {kept, kept \cup {new}},
         new.st # "sent" \/ new.kind \notin Writes,
         UNCHANGED <<ledger, uses>>
  PROVE  calls' \subseteq Call /\ CallsAimed' /\ CallsCounted'
<1>2. calls' \subseteq Call /\ CallsAimed'
  BY DEF CrmInv, CrmTyped, CallsAimed
<1>3. IsFiniteSet(calls) /\ Cardinality(calls) \in Nat /\ Cardinality(calls) <= MaxCalls
  BY FS_CardinalityType DEF CrmInv, CallsCounted
<1>4. IsFiniteSet(calls \ {c}) /\ Cardinality(calls \ {c}) = Cardinality(calls) - 1
  BY <1>3, OneLess
<1>5. /\ IsFiniteSet(kept) /\ Cardinality(kept) <= Cardinality(calls) - 1 /\ Cardinality(kept) \in Nat
      /\ IsFiniteSet(kept \cup {new}) /\ Cardinality(kept \cup {new}) <= Cardinality(kept) + 1
      /\ Cardinality(kept \cup {new}) \in Nat
  BY <1>4, NoMore, OneMore
<1>6. IsFiniteSet(calls') /\ Cardinality(calls') <= MaxCalls
  <2>1. CASE calls' = kept
    BY <1>3, <1>5, <2>1, CrmAssumption
  <2>2. CASE calls' = kept \cup {new}
    BY <1>3, <1>5, <2>2, CrmAssumption
  <2> QED BY <2>1, <2>2
<1>7. ToBeWritten' \subseteq ToBeWritten
  BY DEF ToBeWritten
<1>8. IsFiniteSet(ToBeWritten) /\ Cardinality(ToBeWritten) \in Nat
  BY <1>3, NoMore DEF ToBeWritten
<1>9. Cardinality(ToBeWritten') <= Cardinality(ToBeWritten) /\ Cardinality(ToBeWritten') \in Nat
  BY <1>7, <1>8, NoMore
<1>10. Len(ledger) \in Nat /\ uses \in Nat /\ Len(ledger) + Cardinality(ToBeWritten) <= uses
  BY CrmAssumption DEF CrmInv, CrmTyped, CallsCounted
<1> QED BY <1>2, <1>6, <1>8, <1>9, <1>10 DEF CallsCounted

(* A call that is served leaves the ones to be written, for the ledger. *)
LEMMA MoveTyped ==
  ASSUME CrmInv, NEW c \in calls, c.st = "sent", NEW st \in {"served", "failed"}, Move(c, st),
         ledger' = ledger \/ (c.kind \in Writes /\ ledger' = Append(ledger, Entry(c))),
         UNCHANGED uses
  PROVE  /\ calls' \subseteq Call /\ CallsAimed' /\ CallsCounted' /\ ledger' \in Seq(Entries)
         /\ \E d \in Call : /\ calls' = (calls \ {c}) \cup {d}
                            /\ d.kind = c.kind /\ d.of = c.of /\ d.new = c.new /\ d.old = c.old
                            /\ d.st = st /\ d.table = c.table
<1> DEFINE d == [c EXCEPT !.st = st]
<1>1. c \in Call /\ CallAimed(c)
  BY DEF CrmInv, CrmTyped, CallsAimed
<1>2. /\ d \in Call /\ d.kind = c.kind /\ d.of = c.of /\ d.new = c.new /\ d.old = c.old
      /\ d.st = st /\ d.table = c.table
  BY <1>1 DEF Call
<1>3. calls' = (calls \ {c}) \cup {d}
  BY DEF Move
<1> HIDE DEF d
<1>4. CallAimed(d)
  BY <1>1, <1>2 DEF CallAimed
<1>5. calls' \subseteq Call /\ CallsAimed'
  BY <1>2, <1>3, <1>4 DEF CrmInv, CrmTyped, CallsAimed
<1>6. IsFiniteSet(calls) /\ Cardinality(calls) \in Nat /\ Cardinality(calls) <= MaxCalls
  BY FS_CardinalityType DEF CrmInv, CallsCounted
<1>7. IsFiniteSet(calls \ {c}) /\ Cardinality(calls \ {c}) = Cardinality(calls) - 1
  BY <1>6, OneLess
<1>8. IsFiniteSet(calls') /\ Cardinality(calls') <= MaxCalls
  <2> DEFINE others == calls \ {c}
  <2>1. /\ IsFiniteSet(others \cup {d}) /\ Cardinality(others \cup {d}) \in Nat
        /\ Cardinality(others \cup {d}) <= Cardinality(others) + 1
    BY <1>7, OneMore
  <2>2. calls' = others \cup {d} /\ Cardinality(others) = Cardinality(calls) - 1
    BY <1>3, <1>7
  <2> HIDE DEF others
  <2> QED BY <1>6, <2>1, <2>2, CrmAssumption
<1>9. IsFiniteSet(ToBeWritten) /\ Cardinality(ToBeWritten) \in Nat
  BY <1>6, NoMore DEF ToBeWritten
<1>10. Len(ledger) \in Nat /\ uses \in Nat /\ Len(ledger) + Cardinality(ToBeWritten) <= uses
        /\ ledger \in Seq(Entries)
  BY CrmAssumption DEF CrmInv, CrmTyped, CallsCounted
<1>11. CASE ledger' = ledger
  <2>1. ToBeWritten' \subseteq ToBeWritten
    BY <1>2, <1>3 DEF ToBeWritten
  <2>2. Cardinality(ToBeWritten') <= Cardinality(ToBeWritten) /\ Cardinality(ToBeWritten') \in Nat
    BY <1>9, <2>1, NoMore
  <2>3. Len(ledger') + Cardinality(ToBeWritten') <= uses'
    BY <1>9, <1>10, <1>11, <2>2
  <2> QED BY <1>2, <1>3, <1>5, <1>8, <1>10, <1>11, <2>3 DEF CallsCounted
<1>12. CASE c.kind \in Writes /\ ledger' = Append(ledger, Entry(c))
  <2>1. ToBeWritten' \subseteq ToBeWritten \ {c} /\ c \in ToBeWritten
    BY <1>2, <1>3, <1>12 DEF ToBeWritten
  <2>2. /\ IsFiniteSet(ToBeWritten \ {c})
        /\ Cardinality(ToBeWritten \ {c}) = Cardinality(ToBeWritten) - 1
    BY <1>9, <2>1, OneLess
  <2>3. Cardinality(ToBeWritten') <= Cardinality(ToBeWritten) - 1 /\ Cardinality(ToBeWritten') \in Nat
    BY <2>1, <2>2, NoMore
  <2>4. Entry(c) \in Entries
    BY <1>1 DEF Entry, Entries, Call
  <2>5. ledger' \in Seq(Entries) /\ Len(ledger') = Len(ledger) + 1
    BY <1>10, <1>12, <2>4
  <2>6. Len(ledger') + Cardinality(ToBeWritten') <= uses'
    BY <1>9, <1>10, <2>3, <2>5
  <2> QED BY <1>2, <1>3, <1>5, <1>8, <2>5, <2>6 DEF CallsCounted
<1> QED BY <1>11, <1>12

(* What an appended entry does to the latest entries. *)
LEMMA LatestAppend ==
  ASSUME ledger \in Seq(Entries), NEW e \in Entries, ledger' = Append(ledger, e),
         NEW o \in Orgs, NEW kind \in {"suspend", "capacity"},
         Last(o, kind) = {} \/ \E i \in Last(o, kind) : \A j \in Last(o, kind) : j <= i
  PROVE  /\ \/ Last(o, kind)' = {}
            \/ \E i \in Last(o, kind)' : \A j \in Last(o, kind)' : j <= i
         /\ Latest(o, kind)' = IF e.of = o /\ e.kind = kind THEN e.new ELSE Latest(o, kind)
<1> DEFINE n == Len(ledger)
<1>1. /\ n \in Nat /\ DOMAIN ledger = 1..n /\ DOMAIN ledger' = 1..(n + 1)
      /\ \A i \in 1..n : ledger'[i] = ledger[i]
      /\ ledger'[n + 1] = e
  OBVIOUS
<1> HIDE DEF n
<1>2. CASE e.of = o /\ e.kind = kind
  <2>1. n + 1 \in Last(o, kind)' /\ \A j \in Last(o, kind)' : j <= n + 1 /\ j \in 1..(n + 1)
    BY <1>1, <1>2 DEF Last
  <2> DEFINE t == CHOOSE i \in Last(o, kind)' : \A j \in Last(o, kind)' : j <= i
  <2>2. t \in Last(o, kind)' /\ \A j \in Last(o, kind)' : j <= t
    BY <2>1
  <2>3. t = n + 1
    BY <1>1, <2>1, <2>2
  <2>4. Latest(o, kind)' = ledger'[t].new
    BY <2>1 DEF Latest
  <2> QED BY <1>1, <1>2, <2>1, <2>3, <2>4
<1>3. CASE ~(e.of = o /\ e.kind = kind)
  <2>1. Last(o, kind)' = Last(o, kind)
    BY <1>1, <1>3 DEF Last
  <2>2. CASE Last(o, kind) = {}
    BY <1>3, <2>1, <2>2 DEF Latest
  <2>3. CASE Last(o, kind) # {}
    <3> DEFINE t == CHOOSE i \in Last(o, kind) : \A j \in Last(o, kind) : j <= i
    <3>1. t \in Last(o, kind)
      BY <2>3
    <3>2. t \in 1..n
      BY <1>1, <3>1 DEF Last
    <3>3. Latest(o, kind) = ledger[t].new
      BY <2>3 DEF Latest
    <3>4. Latest(o, kind)' = ledger'[t].new
      BY <2>1, <2>3 DEF Latest
    <3> QED BY <1>1, <1>3, <2>1, <2>3, <3>2, <3>3, <3>4
  <2> QED BY <2>2, <2>3
<1> QED BY <1>2, <1>3

(* The initial state. *)
LEMMA CrmInitHolds == CrmInit => CrmInv
<1> SUFFICES ASSUME CrmInit PROVE CrmInv
  OBVIOUS
<1>1. CrmTyped
  <2>1. dbRow \in [Orgs -> Row] /\ page \in [Orgs -> Row]
    BY BlankRow DEF CrmInit
  <2>2. ledger \in Seq(Entries) /\ uses \in 0..MaxUses /\ audit \in 0..MaxUses
    BY CrmAssumption DEF CrmInit
  <2>3. resizing \in [org : Orgs \cup {Nobody}, seats : 1..MaxSeats]
    BY CrmAssumption DEF CrmInit
  <2>4. stall \in [Stalled -> {"stalled", "processing", "resolved"}]
    BY DEF CrmInit
  <2> QED BY <2>1, <2>2, <2>3, <2>4 DEF CrmInit, CrmTyped, NavTab
<1>2. CallsAimed
  BY DEF CrmInit, CallsAimed
<1>3. CallsCounted
  <2>1. ToBeWritten = {} /\ calls = {} /\ Len(ledger) = 0 /\ uses = 0
    BY DEF CrmInit, ToBeWritten
  <2>2. IsFiniteSet(calls) /\ Cardinality(calls) = 0 /\ Cardinality(ToBeWritten) = 0
    BY <2>1, FS_EmptySet
  <2> QED BY <2>1, <2>2, CrmAssumption DEF CallsCounted
<1>4. \A o \in Orgs, kind \in {"suspend", "capacity"} : Last(o, kind) = {} /\ Latest(o, kind) = Blank
  BY DEF CrmInit, Last, Latest
<1>5. LedgerHasLatest /\ LedgerExplains
  BY <1>4 DEF CrmInit, LedgerHasLatest, LedgerExplains, Blank
<1>6. \A o \in Orgs : Settled(o)
  BY DEF CrmInit, Settled, Touching
<1> QED BY <1>1, <1>2, <1>3, <1>5, <1>6 DEF CrmInv

(* What is said of an organisation stays true while its status and the calls *)
(* that touch it stay.                                                         *)
LEMMA QuietSettled ==
  ASSUME NEW o \in Orgs, Settled(o), Touching(o)' = Touching(o),
         page'[o].status = page[o].status, dbRow'[o].status = dbRow[o].status
  PROVE  Settled(o)'
BY DEF Settled, CallAgrees

(* A ledger that is not written to explains the rows as before. *)
LEMMA LedgerKept ==
  ASSUME CrmInv, UNCHANGED <<dbRow, ledger>>
  PROVE  LedgerHasLatest' /\ LedgerExplains'
BY DEF CrmInv, LedgerHasLatest, LedgerExplains, Latest, Last

(* A use of the console more leaves the ledger within the count. *)
LEMMA UseCounts ==
  ASSUME CrmTyped, Use
  PROVE  uses' \in 0..MaxUses /\ uses <= uses'
BY CrmAssumption DEF CrmTyped, Use

(* Steps that neither send a request nor take an answer. *)
LEMMA RestStep ==
  ASSUME CrmInv, CrmTyped', UNCHANGED <<dbRow, ledger, page, calls, crossed>>, uses <= uses'
  PROVE  CrmInv'
<1>1. LedgerHasLatest' /\ LedgerExplains'
  BY LedgerKept
<1>2. CallsAimed'
  BY DEF CrmInv, CallsAimed
<1>3. CallsCounted'
  <2>1. ToBeWritten' = ToBeWritten /\ Len(ledger') = Len(ledger)
    BY DEF ToBeWritten
  <2>2. IsFiniteSet(calls) /\ IsFiniteSet(ToBeWritten)
    BY FS_Subset DEF CrmInv, CallsCounted, ToBeWritten
  <2>3. Cardinality(ToBeWritten) \in Nat /\ Len(ledger) \in Nat /\ uses \in Nat /\ uses' \in Nat
    BY <2>2, FS_CardinalityType, CrmAssumption DEF CrmInv, CrmTyped
  <2>4. Len(ledger) + Cardinality(ToBeWritten) <= uses'
    BY <2>3 DEF CrmInv, CallsCounted
  <2> QED BY <2>1, <2>4 DEF CrmInv, CallsCounted
<1>4. \A o \in Orgs \ crossed' : Settled(o)'
  BY QuietSettled DEF CrmInv, Touching
<1> QED BY <1>1, <1>2, <1>3, <1>4 DEF CrmInv

(* Changing panes, filters, menus and dialogs touches no row. *)
LEMMA BrowseStep ==
  ASSUME CrmInv,
         \/ \E t \in NavTab : setCurrentTab(t)
         \/ \E s \in Status \cup {"all"} : setStatusFilter(s)
         \/ \E o \in Orgs : \/ OpenDropdown(o) \/ AdjustCapacity(o) \/ InitiateRecovery(o)
                            \/ OpenSupportThread(o)
         \/ handleExportCSV \/ CloseModal \/ InvalidSearch \/ DismissNotice
         \/ \E ok \in BOOLEAN : handleDecryptTicket(ok)
  PROVE  CrmInv'
<1> USE DEF setCurrentTab, setStatusFilter, handleExportCSV, OpenDropdown, AdjustCapacity,
            InitiateRecovery, OpenSupportThread, CloseModal, InvalidSearch, handleDecryptTicket,
            DismissNotice, server, dialogs, diagnosis
<1>0. CrmTyped
  BY DEF CrmInv
<1>1. UNCHANGED <<dbRow, ledger, page, calls, crossed, audit, stall, looking>>
  OBVIOUS
<1>2. uses' \in 0..MaxUses /\ uses <= uses'
  <2>1. Use \/ uses' = uses
    OBVIOUS
  <2> QED BY <1>0, <2>1, UseCounts, CrmAssumption DEF CrmTyped
<1>3. pane' \in NavTab
  BY <1>0 DEF CrmTyped, NavTab
<1>4. filter' \in Status \cup {"all"}
  BY <1>0 DEF CrmTyped
<1>5. menu' \in Orgs \cup {Nobody} /\ resetting' \in Orgs \cup {Nobody}
  BY <1>0 DEF CrmTyped
<1>6. thread' \in Orgs \cup {Nobody}
  BY <1>0 DEF CrmTyped
<1>7. resizing' \in [org : Orgs \cup {Nobody}, seats : 1..MaxSeats]
  <2>1. (\A o \in Orgs : page[o].seats \in 1..MaxSeats) /\ 1 \in 1..MaxSeats
    BY <1>0, CrmAssumption DEF CrmTyped, Row
  <2>2. \/ resizing' = resizing \/ resizing' = [org |-> Nobody, seats |-> 1]
        \/ \E o \in Orgs : resizing' = [org |-> o, seats |-> page[o].seats]
    OBVIOUS
  <2> QED BY <1>0, <2>1, <2>2 DEF CrmTyped
<1>8. health' \in Stalled \cup {Nobody} /\ looked' \in Stalled \cup {Nobody}
  BY <1>0 DEF CrmTyped
<1>9. CrmTyped'
  BY <1>0, <1>1, <1>2, <1>3, <1>4, <1>5, <1>6, <1>7, <1>8 DEF CrmTyped
<1> QED BY <1>1, <1>2, <1>9, RestStep

(* A call that is sent, whatever it asks: it may change what the page shows *)
(* of an organisation only as a suspension of that organisation, and one    *)
(* that meets another call about the same organisation is recorded.         *)
LEMMA SendStep ==
  ASSUME CrmInv, Use, NEW c \in Call, CallAimed(c), c.st = "sent", adminFetch(c),
         UNCHANGED <<dbRow, ledger>>, crossed \subseteq crossed',
         \A o \in Orgs : /\ Touching(o) # {}
                         /\ c.kind = "orgs" \/ (c.kind \in {"suspend", "capacity"} /\ c.of = o)
                         => o \in crossed',
         \A o \in Orgs : ~(c.kind = "suspend" /\ c.of = o) => page'[o].status = page[o].status,
         c.kind = "suspend" => /\ page'[c.of].status = c.new.status
                               /\ c.old.status = page[c.of].status
  PROVE  /\ calls' \subseteq Call /\ CallsAimed' /\ CallsCounted' /\ uses' \in 0..MaxUses
         /\ LedgerHasLatest' /\ LedgerExplains'
         /\ \A o \in Orgs \ crossed' : Settled(o)'
<1>1. calls' \subseteq Call /\ CallsAimed' /\ CallsCounted' /\ uses' \in 0..MaxUses
  BY FetchTyped
<1>2. LedgerHasLatest' /\ LedgerExplains'
  BY LedgerKept
<1>3. SUFFICES ASSUME NEW o \in Orgs \ crossed' PROVE Settled(o)'
  BY <1>1, <1>2
<1>4. Settled(o)
  BY DEF CrmInv
<1>5. calls' = {d \in calls : d.kind # c.kind \/ c.kind \notin {"orgs", "audit"}} \cup {c}
  BY DEF adminFetch
<1>6. CASE c.kind = "orgs" \/ (c.kind \in {"suspend", "capacity"} /\ c.of = o)
  <2>1. Touching(o) = {}
    BY <1>6
  <2>2. Touching(o)' = {c}
    BY <1>5, <1>6, <2>1 DEF Touching
  <2>3. page[o].status = dbRow[o].status
    BY <1>4, <2>1 DEF Settled
  <2>4. CallAgrees(c, o)'
    BY <1>6, <2>3 DEF CallAgrees, CallAimed
  <2> QED BY <2>2, <2>4 DEF Settled
<1>7. CASE ~(c.kind = "orgs" \/ (c.kind \in {"suspend", "capacity"} /\ c.of = o))
  <2>1. Touching(o)' = Touching(o)
    BY <1>5, <1>7 DEF Touching
  <2> QED BY <1>4, <1>7, <2>1, QuietSettled
<1> QED BY <1>6, <1>7

(* handleToggleSuspend shows the new status and sends it. *)
LEMMA ToggleStep ==
  ASSUME CrmInv, NEW o \in Orgs, handleToggleSuspend(o)
  PROVE  CrmInv'
<1> DEFINE target == IF page[o].status = "suspended" THEN "active" ELSE "suspended"
           new == [page[o] EXCEPT !.status = target]
           call == NewCall("suspend", o, new, page[o])
<1>1. CrmTyped /\ Use /\ page \in [Orgs -> Row] /\ page[o] \in Row
  BY DEF CrmInv, CrmTyped, handleToggleSuspend
<1>2. new \in Row /\ new.status = target
  BY <1>1 DEF Row, Status
<1>3. page' = Put(page, call, call.new) /\ adminFetch(call) /\ Crossing(call)
  BY DEF handleToggleSuspend
<1>4. UNCHANGED <<dbRow, ledger, audit, pane, filter, resizing, resetting, thread, stall, health,
                  looked, looking>> /\ menu' = Nobody
  BY DEF handleToggleSuspend, server, diagnosis
<1>5. PICK c \in Call : /\ c.kind = "suspend" /\ c.of = o /\ c.new = new /\ c.old = page[o]
                       /\ c.st = "sent" /\ c = call
  BY <1>1, <1>2, NewCallTyped DEF Kinds
<1> HIDE DEF call, new
<1>6. CallAimed(c)
  BY <1>5 DEF CallAimed
<1>7. /\ page' \in [Orgs -> Row] /\ \A e \in Orgs : e # o => page'[e] = page[e]
      /\ page'[o].status = new.status
  <2> DEFINE put == Put(page, c, c.new)
  <2>1. /\ put \in [Orgs -> Row] /\ \A e \in Orgs : e # c.of => put[e] = page[e]
        /\ c.kind = "suspend" => put[c.of].status = c.new.status /\ put[c.of].seats = page[c.of].seats
        /\ c.kind = "capacity" => put[c.of].status = page[c.of].status /\ put[c.of].seats = c.new.seats
    <3>1. page \in [Orgs -> Row]
      BY <1>1
    <3>2. c.new \in Row
      BY <1>2, <1>5
    <3> QED BY <1>6, <3>1, <3>2, PutRow
  <2>2. page' = put
    BY <1>3, <1>5
  <2> HIDE DEF put
  <2> QED BY <1>5, <2>1, <2>2
<1>8. crossed' \subseteq Orgs /\ crossed \subseteq crossed'
       /\ \A e \in Orgs : Touching(e) # {} /\ c.of = e => e \in crossed'
  BY <1>1, <1>3, <1>5 DEF Crossing, CrmTyped
<1>9. /\ calls' \subseteq Call /\ CallsAimed' /\ CallsCounted' /\ uses' \in 0..MaxUses
      /\ LedgerHasLatest' /\ LedgerExplains'
      /\ \A e \in Orgs \ crossed' : Settled(e)'
  BY <1>1, <1>3, <1>4, <1>5, <1>6, <1>7, <1>8, SendStep
<1>10. CrmTyped'
  BY <1>1, <1>4, <1>7, <1>8, <1>9 DEF CrmTyped
<1> QED BY <1>9, <1>10 DEF CrmInv

(* handleSaveCapacity sends the new number of seats. *)
LEMMA CapacityStep ==
  ASSUME CrmInv, NEW seats \in 1..MaxSeats, handleConfirmCapacityUpdate(seats)
  PROVE  CrmInv'
<1> DEFINE o == resizing.org
           new == [page[o] EXCEPT !.seats = seats]
           old == [page[o] EXCEPT !.seats = resizing.seats]
           call == NewCall("capacity", o, new, old)
<1>1. CrmTyped /\ Use /\ page \in [Orgs -> Row] /\ o \in Orgs /\ page[o] \in Row
      /\ resizing.seats \in 1..MaxSeats
  BY DEF CrmInv, CrmTyped, handleConfirmCapacityUpdate
<1>2. new \in Row /\ old \in Row
  BY <1>1 DEF Row
<1>3. page' = Put(page, call, call.new) /\ adminFetch(call) /\ Crossing(call)
  BY DEF handleConfirmCapacityUpdate
<1>4. UNCHANGED <<dbRow, ledger, audit, pane, filter, menu, resetting, thread, stall, health,
                  looked, looking>> /\ resizing' = [org |-> Nobody, seats |-> 1]
  BY DEF handleConfirmCapacityUpdate, server, diagnosis
<1>5. PICK c \in Call : /\ c.kind = "capacity" /\ c.of = o /\ c.new = new
                       /\ c.st = "sent" /\ c = call
  BY <1>1, <1>2, NewCallTyped DEF Kinds
<1> HIDE DEF call, new, old, o
<1>6. CallAimed(c)
  BY <1>1, <1>5 DEF CallAimed
<1>7. /\ page' \in [Orgs -> Row] /\ \A e \in Orgs : e # o => page'[e] = page[e]
      /\ page'[o].status = page[o].status
  <2> DEFINE put == Put(page, c, c.new)
  <2>1. /\ put \in [Orgs -> Row] /\ \A e \in Orgs : e # c.of => put[e] = page[e]
        /\ c.kind = "suspend" => put[c.of].status = c.new.status /\ put[c.of].seats = page[c.of].seats
        /\ c.kind = "capacity" => put[c.of].status = page[c.of].status /\ put[c.of].seats = c.new.seats
    <3>1. page \in [Orgs -> Row]
      BY <1>1
    <3>2. c.new \in Row
      BY <1>2, <1>5
    <3> QED BY <1>6, <3>1, <3>2, PutRow
  <2>2. page' = put
    BY <1>3, <1>5
  <2> HIDE DEF put
  <2> QED BY <1>5, <2>1, <2>2
<1>8. crossed' \subseteq Orgs /\ crossed \subseteq crossed'
       /\ \A e \in Orgs : Touching(e) # {} /\ c.of = e => e \in crossed'
  BY <1>1, <1>3, <1>5 DEF Crossing, CrmTyped
<1>9. /\ calls' \subseteq Call /\ CallsAimed' /\ CallsCounted' /\ uses' \in 0..MaxUses
      /\ LedgerHasLatest' /\ LedgerExplains'
      /\ \A e \in Orgs \ crossed' : Settled(e)'
  <2>1. \A e \in Orgs : page'[e].status = page[e].status
    BY <1>7
  <2> QED BY <1>1, <1>3, <1>4, <1>5, <1>6, <1>8, <2>1, SendStep
<1>10. resizing' \in [org : Orgs \cup {Nobody}, seats : 1..MaxSeats]
  BY <1>4, CrmAssumption
<1>11. CrmTyped'
  BY <1>1, <1>4, <1>7, <1>8, <1>9, <1>10 DEF CrmTyped
<1> QED BY <1>9, <1>11 DEF CrmInv

(* The other calls change nothing the page shows of an organisation. *)
LEMMA ConsoleRequestStep ==
  ASSUME CrmInv,
         \/ handleConfirmStateReset \/ refetchOrgs
         \/ \E s \in Stalled : handleExecuteIntervention(s) \/ triggerGlobalSearch(s)
  PROVE  CrmInv'
<1> DEFINE Sent(c) == /\ c \in Call /\ CallAimed(c) /\ c.st = "sent"
                      /\ c.kind \notin {"suspend", "capacity"} /\ adminFetch(c)
                      /\ IF c.kind = "orgs" THEN Crossing(c) ELSE UNCHANGED crossed
<1>1. CrmTyped /\ Use /\ Blank \in Row
  BY BlankRow DEF CrmInv, handleConfirmStateReset, handleExecuteIntervention, triggerGlobalSearch,
                  refetchOrgs
<1>2. UNCHANGED <<dbRow, ledger, page, audit, pane, filter, resizing, thread, health>>
  BY DEF handleConfirmStateReset, handleExecuteIntervention, triggerGlobalSearch, refetchOrgs,
         server, dialogs, diagnosis
<1>3. /\ menu' \in Orgs \cup {Nobody} /\ resetting' \in Orgs \cup {Nobody}
      /\ looked' \in Stalled \cup {Nobody} /\ looking' \in BOOLEAN
  BY <1>1 DEF handleConfirmStateReset, handleExecuteIntervention, triggerGlobalSearch, refetchOrgs,
         server, dialogs, diagnosis, CrmTyped
<1>4. stall' \in [Stalled -> {"stalled", "processing", "resolved"}]
  <2>1. stall' = stall \/ \E s \in Stalled : stall' = [stall EXCEPT ![s] = "processing"]
    BY DEF handleConfirmStateReset, handleExecuteIntervention, triggerGlobalSearch, refetchOrgs
  <2> QED BY <1>1, <2>1 DEF CrmTyped
<1>5. PICK c : Sent(c)
  <2>1. CASE handleConfirmStateReset
    <3> DEFINE c == NewCall("reset", resetting, Blank, Blank)
    <3>1. resetting \in Orgs
      BY <1>1, <2>1 DEF handleConfirmStateReset, CrmTyped
    <3>2. c \in Call /\ c.kind = "reset" /\ c.of = resetting /\ c.st = "sent"
      BY <1>1, <3>1, NewCallTyped DEF Kinds
    <3>3. adminFetch(c) /\ UNCHANGED crossed
      BY <2>1 DEF handleConfirmStateReset
    <3> HIDE DEF c
    <3>4. Sent(c)
      BY <3>1, <3>2, <3>3 DEF CallAimed
    <3> QED BY <3>4
  <2>2. ASSUME NEW s \in Stalled, handleExecuteIntervention(s) PROVE \E c : Sent(c)
    <3> DEFINE c == NewCall("intervene", s, Blank, Blank)
    <3>2. c \in Call /\ c.kind = "intervene" /\ c.of = s /\ c.st = "sent"
      BY <1>1, NewCallTyped DEF Kinds
    <3>3. adminFetch(c) /\ UNCHANGED crossed
      BY <2>2 DEF handleExecuteIntervention
    <3> HIDE DEF c
    <3>4. Sent(c)
      BY <3>2, <3>3 DEF CallAimed
    <3> QED BY <3>4
  <2>3. ASSUME NEW s \in Stalled, triggerGlobalSearch(s) PROVE \E c : Sent(c)
    <3> DEFINE c == NewCall("health", s, Blank, Blank)
    <3>2. c \in Call /\ c.kind = "health" /\ c.of = s /\ c.st = "sent"
      BY <1>1, NewCallTyped DEF Kinds
    <3>3. adminFetch(c) /\ UNCHANGED crossed
      BY <2>3 DEF triggerGlobalSearch
    <3> HIDE DEF c
    <3>4. Sent(c)
      BY <3>2, <3>3 DEF CallAimed
    <3> QED BY <3>4
  <2>4. CASE refetchOrgs
    <3> DEFINE c == NewCall("orgs", Nobody, Blank, Blank)
    <3>2. c \in Call /\ c.kind = "orgs" /\ c.of = Nobody /\ c.st = "sent"
      BY <1>1, NewCallTyped DEF Kinds
    <3>3. adminFetch(c) /\ Crossing(c)
      BY <2>4 DEF refetchOrgs
    <3> HIDE DEF c
    <3>4. Sent(c)
      BY <3>2, <3>3 DEF CallAimed
    <3> QED BY <3>4
  <2> QED BY <2>1, <2>2, <2>3, <2>4
<1>6. crossed' \subseteq Orgs /\ crossed \subseteq crossed'
       /\ \A e \in Orgs : Touching(e) # {} /\ c.kind = "orgs" => e \in crossed'
  BY <1>1, <1>5 DEF Crossing, CrmTyped
<1>7. /\ calls' \subseteq Call /\ CallsAimed' /\ CallsCounted' /\ uses' \in 0..MaxUses
      /\ LedgerHasLatest' /\ LedgerExplains'
      /\ \A e \in Orgs \ crossed' : Settled(e)'
  BY <1>1, <1>2, <1>5, <1>6, SendStep
<1>8. CrmTyped'
  BY <1>1, <1>2, <1>3, <1>4, <1>6, <1>7 DEF CrmTyped
<1> QED BY <1>7, <1>8 DEF CrmInv

(* The transaction of a change: the row and the ledger move together. *)
LEMMA TransactionKeeps ==
  ASSUME CrmInv, NEW c \in calls, c.kind \in {"suspend", "capacity", "reset"},
         OrganizationTransaction(c)
  PROVE  /\ dbRow' \in [Orgs -> Row] /\ LedgerHasLatest' /\ LedgerExplains'
         /\ \A o \in Orgs : ~(c.kind = "suspend" /\ c.of = o) => dbRow'[o].status = dbRow[o].status
         /\ c.kind = "suspend" => dbRow'[c.of].status = c.new.status
<1>1. c \in Call /\ CallAimed(c) /\ c.of \in Orgs /\ c.new \in Row /\ dbRow \in [Orgs -> Row]
      /\ ledger \in Seq(Entries)
  BY DEF CrmInv, CrmTyped, CallsAimed, CallAimed, Call
<1> DEFINE put == Put(dbRow, c, c.new)
<1>2. /\ put \in [Orgs -> Row] /\ \A o \in Orgs : o # c.of => put[o] = dbRow[o]
      /\ c.kind = "suspend" => put[c.of].status = c.new.status /\ put[c.of].seats = dbRow[c.of].seats
      /\ c.kind = "capacity" => put[c.of].status = dbRow[c.of].status /\ put[c.of].seats = c.new.seats
      /\ c.kind = "reset" => put = dbRow
  BY <1>1, PutRow
<1>3. dbRow' = put /\ ledger' = Append(ledger, Entry(c))
  BY DEF OrganizationTransaction
<1> HIDE DEF put
<1>4. Entry(c) \in Entries /\ Entry(c).of = c.of /\ Entry(c).kind = c.kind /\ Entry(c).new = c.new
  BY <1>1 DEF Entry, Entries, Call
<1>5. \A o \in Orgs, kind \in {"suspend", "capacity"} :
        /\ \/ Last(o, kind)' = {}
           \/ \E i \in Last(o, kind)' : \A j \in Last(o, kind)' : j <= i
        /\ Latest(o, kind)' = IF c.of = o /\ c.kind = kind THEN c.new ELSE Latest(o, kind)
  <2> SUFFICES ASSUME NEW o \in Orgs, NEW kind \in {"suspend", "capacity"}
      PROVE /\ \/ Last(o, kind)' = {}
               \/ \E i \in Last(o, kind)' : \A j \in Last(o, kind)' : j <= i
            /\ Latest(o, kind)' = IF c.of = o /\ c.kind = kind THEN c.new ELSE Latest(o, kind)
    OBVIOUS
  <2>1. Last(o, kind) = {} \/ \E i \in Last(o, kind) : \A j \in Last(o, kind) : j <= i
    BY DEF CrmInv, LedgerHasLatest
  <2> QED BY <1>1, <1>3, <1>4, <2>1, LatestAppend
<1>6. LedgerHasLatest'
  BY <1>5 DEF LedgerHasLatest
<1>7. ASSUME NEW o \in Orgs
      PROVE  dbRow'[o] = [status |-> Latest(o, "suspend")'.status, seats |-> Latest(o, "capacity")'.seats]
  <2>1. dbRow[o] = [status |-> Latest(o, "suspend").status, seats |-> Latest(o, "capacity").seats]
    BY DEF CrmInv, LedgerExplains
  <2>2. Latest(o, "suspend")' = IF c.of = o /\ c.kind = "suspend" THEN c.new ELSE Latest(o, "suspend")
    BY <1>5
  <2>3. Latest(o, "capacity")' = IF c.of = o /\ c.kind = "capacity" THEN c.new ELSE Latest(o, "capacity")
    BY <1>5
  <2>4. dbRow'[o] \in Row
    BY <1>2, <1>3
  <2>5. /\ dbRow'[o].status = Latest(o, "suspend")'.status
        /\ dbRow'[o].seats = Latest(o, "capacity")'.seats
    BY <1>2, <1>3, <2>1, <2>2, <2>3
  <2> QED BY <2>4, <2>5 DEF Row
<1>8. LedgerExplains'
  BY <1>7 DEF LedgerExplains
<1> QED BY <1>2, <1>3, <1>6, <1>8

(* The server changes the row of an organisation and its ledger in one *)
(* transaction.                                                        *)
LEMMA ServeOrganizationStep ==
  ASSUME CrmInv, NEW c \in calls, ServeOrganization(c)
  PROVE  CrmInv'
<1>1. /\ c \in Call /\ CallAimed(c) /\ CrmTyped /\ c.of \in Orgs
      /\ c.st = "sent" /\ c.kind \in {"suspend", "capacity", "reset"} /\ c.kind \in Writes
  BY DEF CrmInv, CrmTyped, CallsAimed, CallAimed, ServeOrganization, Writes
<1>2. UNCHANGED <<page, audit, pane, filter, menu, resizing, resetting, thread, stall, health,
                  looked, looking, uses>>
  BY DEF ServeOrganization, dialogs, diagnosis
<1>3. PICK st \in {"served", "failed"} :
        /\ Move(c, st)
        /\ \/ OrganizationTransaction(c) /\ UNCHANGED crossed /\ st = "served"
           \/ OrganizationTransaction(c) /\ crossed' = crossed \cup {c.of}
           \/ UNCHANGED <<dbRow, ledger, crossed>> /\ st = "failed"
  BY DEF ServeOrganization, server
<1>4. ledger' = ledger \/ ledger' = Append(ledger, Entry(c))
  BY <1>3 DEF OrganizationTransaction
<1>5. calls' \subseteq Call /\ CallsAimed' /\ CallsCounted' /\ ledger' \in Seq(Entries)
  BY <1>1, <1>2, <1>3, <1>4, MoveTyped
<1>6. PICK d \in Call : /\ calls' = (calls \ {c}) \cup {d}
                        /\ d.kind = c.kind /\ d.of = c.of /\ d.new = c.new /\ d.old = c.old
                        /\ d.st = st /\ d.table = c.table
  BY <1>1, <1>2, <1>3, <1>4, MoveTyped
<1>7. /\ dbRow' \in [Orgs -> Row] /\ LedgerHasLatest' /\ LedgerExplains'
      /\ \A o \in Orgs : ~(c.kind = "suspend" /\ c.of = o) => dbRow'[o].status = dbRow[o].status
      /\ OrganizationTransaction(c) /\ c.kind = "suspend" => dbRow'[c.of].status = c.new.status
  <2>1. CASE OrganizationTransaction(c)
    BY <1>1, <2>1, TransactionKeeps
  <2>2. CASE UNCHANGED <<dbRow, ledger, crossed>> /\ ~OrganizationTransaction(c)
    BY <1>1, <2>2, LedgerKept DEF CrmTyped
  <2> QED BY <1>3, <2>1, <2>2
<1>8. crossed' \subseteq Orgs /\ crossed \subseteq crossed'
  BY <1>1, <1>3 DEF CrmTyped
<1>9. CrmTyped'
  BY <1>1, <1>2, <1>5, <1>7, <1>8 DEF CrmTyped
<1>10. ASSUME NEW o \in Orgs \ crossed' PROVE Settled(o)'
  <2>1. Settled(o)
    BY <1>8 DEF CrmInv
  <2>2. CASE c.kind \in {"suspend", "capacity"} /\ c.of = o
    <3>1. Touching(o) = {c}
      BY <2>1, <2>2 DEF Settled, Touching
    <3>2. Touching(o)' = {d}
      BY <1>6, <2>2, <3>1 DEF Touching
    <3>3. CallAgrees(c, o)
      BY <2>1, <3>1 DEF Settled
    <3>4. CallAgrees(d, o)'
      <4>1. CASE c.kind = "capacity"
        BY <1>2, <1>6, <1>7, <3>3, <4>1 DEF CallAgrees
      <4>2. CASE c.kind = "suspend" /\ st = "served"
        <5>1. OrganizationTransaction(c)
          BY <1>3, <2>2, <4>2
        <5> QED BY <1>1, <1>2, <1>6, <1>7, <2>2, <3>3, <4>2, <5>1 DEF CallAgrees
      <4>3. CASE c.kind = "suspend" /\ st = "failed"
        <5>1. UNCHANGED dbRow
          BY <1>3, <2>2, <4>3
        <5> QED BY <1>1, <1>2, <1>6, <2>2, <3>3, <4>3, <5>1 DEF CallAgrees
      <4> QED BY <2>2, <4>1, <4>2, <4>3
    <3> QED BY <3>2, <3>4 DEF Settled
  <2>3. CASE ~(c.kind \in {"suspend", "capacity"} /\ c.of = o)
    <3>1. Touching(o)' = Touching(o)
      BY <1>1, <1>6, <2>3 DEF Touching
    <3> QED BY <1>2, <1>7, <2>1, <2>3, <3>1, QuietSettled
  <2> QED BY <2>2, <2>3
<1> QED BY <1>5, <1>7, <1>9, <1>10 DEF CrmInv

(* The server executes an intervention. *)
LEMMA InterventionServed ==
  ASSUME CrmInv, NEW c \in calls, interventionHandler(c)
  PROVE  CrmInv'
<1>1. c \in Call /\ CrmTyped /\ c.st = "sent" /\ c.kind = "intervene" /\ c.kind \in Writes
  BY DEF CrmInv, CrmTyped, interventionHandler, Writes
<1>2. UNCHANGED <<dbRow, page, audit, pane, filter, menu, resizing, resetting, thread, stall,
                  health,
                  looked, looking, uses, crossed>>
  BY DEF interventionHandler, dialogs, diagnosis
<1>3. PICK st \in {"served", "failed"} : Move(c, st)
  BY DEF interventionHandler
<1>4. ledger' = ledger \/ ledger' = Append(ledger, Entry(c))
  BY DEF interventionHandler
<1>5. calls' \subseteq Call /\ CallsAimed' /\ CallsCounted' /\ ledger' \in Seq(Entries)
  BY <1>1, <1>2, <1>3, <1>4, MoveTyped
<1>6. PICK d \in Call : calls' = (calls \ {c}) \cup {d} /\ d.kind = c.kind /\ d.of = c.of
  BY <1>1, <1>2, <1>3, <1>4, MoveTyped
<1>7. LedgerHasLatest' /\ LedgerExplains'
  <2>1. CASE ledger' = ledger
    BY <1>2, <2>1, LedgerKept
  <2>2. CASE ledger' = Append(ledger, Entry(c))
    <3>1. Entry(c) \in Entries /\ Entry(c).kind = "intervene"
      BY <1>1 DEF Entry, Entries, Call
    <3>2. \A o \in Orgs, kind \in {"suspend", "capacity"} :
            /\ \/ Last(o, kind)' = {}
               \/ \E i \in Last(o, kind)' : \A j \in Last(o, kind)' : j <= i
            /\ Latest(o, kind)' = Latest(o, kind)
      <4> SUFFICES ASSUME NEW o \in Orgs, NEW kind \in {"suspend", "capacity"}
          PROVE /\ \/ Last(o, kind)' = {}
                   \/ \E i \in Last(o, kind)' : \A j \in Last(o, kind)' : j <= i
                /\ Latest(o, kind)' = Latest(o, kind)
        OBVIOUS
      <4>1. Last(o, kind) = {} \/ \E i \in Last(o, kind) : \A j \in Last(o, kind) : j <= i
        BY DEF CrmInv, LedgerHasLatest
      <4>2. ledger \in Seq(Entries) /\ ~(Entry(c).of = o /\ Entry(c).kind = kind)
        BY <1>1, <3>1 DEF CrmTyped
      <4> QED BY <2>2, <3>1, <4>1, <4>2, LatestAppend
    <3> QED BY <1>2, <3>2 DEF CrmInv, LedgerHasLatest, LedgerExplains
  <2> QED BY <1>4, <2>1, <2>2
<1>8. CrmTyped'
  BY <1>1, <1>2, <1>5 DEF CrmTyped
<1>9. ASSUME NEW o \in Orgs \ crossed' PROVE Settled(o)'
  <2>1. Settled(o)
    BY <1>2 DEF CrmInv
  <2>2. Touching(o)' = Touching(o)
    BY <1>1, <1>6 DEF Touching
  <2> QED BY <1>2, <2>1, <2>2, QuietSettled
<1> QED BY <1>5, <1>7, <1>8, <1>9 DEF CrmInv

(* The server answers a fetch, with the rows there are. *)
LEMMA ServeReadStep ==
  ASSUME CrmInv, NEW c \in calls, ServeRead(c)
  PROVE  CrmInv'
<1>1. c \in Call /\ CallAimed(c) /\ CrmTyped /\ c.st = "sent" /\ c.kind \in {"health", "orgs",
        "audit"}
  BY DEF CrmInv, CrmTyped, CallsAimed, ServeRead
<1>2. UNCHANGED <<dbRow, ledger, page, audit, pane, filter, menu, resizing, resetting, thread,
                  stall,
                  health, looked, looking, uses, crossed>>
  BY DEF ServeRead, server, dialogs, diagnosis
<1>3. PICK d \in Call : /\ calls' = (calls \ {c}) \cup {d} /\ d.kind = c.kind /\ d.of = c.of
                        /\ d.st # "sent" /\ (d.st = "served" => d.table = dbRow)
  <2>1. CASE Move(c, "failed")
    <3>1. [c EXCEPT !.st = "failed"] \in Call
      BY <1>1 DEF Call
    <3>2. LET d == [c EXCEPT !.st = "failed"] IN d.kind = c.kind /\ d.of = c.of /\ d.st = "failed"
      BY <1>1 DEF Call
    <3> QED BY <2>1, <3>1, <3>2 DEF Move
  <2>2. CASE ~Move(c, "failed")
    <3> DEFINE d == [c EXCEPT !.st = "served", !.table = dbRow, !.upTo = Len(ledger)]
    <3>1. calls' = (calls \ {c}) \cup {d}
      BY <2>2 DEF ServeRead
    <3>2. Len(ledger) \in 0..MaxUses
      <4>1. IsFiniteSet(ToBeWritten)
        BY FS_Subset DEF CrmInv, CallsCounted, ToBeWritten
      <4>2. Cardinality(ToBeWritten) \in Nat
        BY <4>1, FS_CardinalityType
      <4>3. Len(ledger) \in Nat /\ uses \in Nat /\ uses <= MaxUses
        BY <1>1, CrmAssumption DEF CrmTyped
      <4>4. Len(ledger) + Cardinality(ToBeWritten) <= uses
        BY DEF CrmInv, CallsCounted
      <4> QED BY <4>2, <4>3, <4>4, CrmAssumption
    <3>3. d \in Call /\ d.kind = c.kind /\ d.of = c.of /\ d.st = "served" /\ d.table = dbRow
      BY <1>1, <3>2 DEF Call, CrmTyped
    <3> HIDE DEF d
    <3> QED BY <3>1, <3>3
  <2> QED BY <2>1, <2>2
<1>4. CallAimed(d)
  BY <1>1, <1>3 DEF CallAimed
<1>5. calls' \subseteq Call /\ CallsAimed' /\ CallsCounted'
  BY <1>2, <1>3, <1>4, ReplaceTyped
<1>6. LedgerHasLatest' /\ LedgerExplains'
  BY <1>2, LedgerKept
<1>7. CrmTyped'
  BY <1>1, <1>2, <1>5 DEF CrmTyped
<1>8. ASSUME NEW o \in Orgs \ crossed' PROVE Settled(o)'
  <2>1. Settled(o)
    BY <1>2 DEF CrmInv
  <2>2. CASE c.kind = "orgs"
    <3>1. Touching(o) = {c}
      BY <2>1, <2>2 DEF Settled, Touching
    <3>2. Touching(o)' = {d}
      BY <1>3, <2>2, <3>1 DEF Touching
    <3>3. CallAgrees(c, o)
      BY <2>1, <3>1 DEF Settled
    <3>4. CallAgrees(d, o)'
      BY <1>2, <1>3, <2>2, <3>3 DEF CallAgrees
    <3> QED BY <3>2, <3>4 DEF Settled
  <2>3. CASE c.kind # "orgs"
    <3>1. Touching(o)' = Touching(o)
      BY <1>1, <1>3, <2>3 DEF Touching
    <3> QED BY <1>2, <2>1, <3>1, QuietSettled
  <2> QED BY <2>2, <2>3
<1> QED BY <1>5, <1>6, <1>7, <1>8 DEF CrmInv

(* The refetch of the audit log that follows a success. *)
LEMMA RefetchTyped ==
  ASSUME CrmInv, NEW c \in calls, c.kind # "audit", refetchAuditLogs(c), UNCHANGED <<ledger, uses>>
  PROVE  /\ calls' \subseteq Call /\ CallsAimed' /\ CallsCounted'
         /\ \A o \in Orgs : Touching(o)' = Touching(o) \ {c}
<1> DEFINE new == [c EXCEPT !.kind = "audit", !.of = Nobody, !.st = "sent",
                            !.new = Blank, !.old = Blank]
           kept == {d \in calls : d # c /\ d.kind # "audit"}
<1>1. c \in Call
  BY DEF CrmInv, CrmTyped
<1>2. new \in Call /\ new.kind = "audit"
  BY <1>1, BlankRow DEF Call, Kinds
<1>3. calls' = kept \cup {new}
  BY DEF refetchAuditLogs
<1>4. kept \in SUBSET (calls \ {c})
  OBVIOUS
<1>5. \A o \in Orgs : Touching(o)' = Touching(o) \ {c}
  BY <1>2, <1>3 DEF Touching
<1> HIDE DEF new, kept
<1>6. CallAimed(new)
  BY <1>2 DEF CallAimed
<1>7. new.kind \notin Writes
  BY <1>2 DEF Writes
<1> QED BY <1>2, <1>3, <1>4, <1>5, <1>6, <1>7, ReplaceTyped

(* A call that has ended is gone. *)
LEMMA DropTyped ==
  ASSUME CrmInv, NEW c \in calls, calls' = calls \ {c}, UNCHANGED <<ledger, uses>>
  PROVE  /\ calls' \subseteq Call /\ CallsAimed' /\ CallsCounted'
         /\ \A o \in Orgs : Touching(o)' = Touching(o) \ {c}
<1>1. \A o \in Orgs : Touching(o)' = Touching(o) \ {c}
  BY DEF Touching
<1>2. c \in Call /\ CallAimed(c)
  BY DEF CrmInv, CrmTyped, CallsAimed
<1>3. calls' \subseteq Call /\ CallsAimed'
  BY DEF CrmInv, CrmTyped, CallsAimed
<1>4. IsFiniteSet(calls) /\ Cardinality(calls) \in Nat /\ Cardinality(calls) <= MaxCalls
  BY FS_CardinalityType DEF CrmInv, CallsCounted
<1>5. IsFiniteSet(calls') /\ Cardinality(calls') <= MaxCalls
  BY <1>4, OneLess, CrmAssumption
<1>6. ToBeWritten' \subseteq ToBeWritten
  BY DEF ToBeWritten
<1>7. IsFiniteSet(ToBeWritten)
  BY <1>4, FS_Subset DEF ToBeWritten
<1>8. Cardinality(ToBeWritten') <= Cardinality(ToBeWritten) /\ Cardinality(ToBeWritten') \in Nat
      /\ Cardinality(ToBeWritten) \in Nat
  BY <1>6, <1>7, NoMore
<1>9. Len(ledger) \in Nat /\ uses \in Nat /\ Len(ledger) + Cardinality(ToBeWritten) <= uses
  BY CrmAssumption DEF CrmInv, CrmTyped, CallsCounted
<1> QED BY <1>1, <1>3, <1>5, <1>8, <1>9 DEF CallsCounted

(* An answer ends its call; the page shows the server's status if the call *)
(* was the only one about the organisation.                                *)
LEMMA EndedSettled ==
  ASSUME CrmInv, NEW c \in calls, NEW o \in Orgs, Settled(o), Touching(o)' = Touching(o) \ {c},
         UNCHANGED dbRow,
         c \notin Touching(o) => page'[o].status = page[o].status,
         c \in Touching(o) => page'[o].status = dbRow[o].status
  PROVE  Settled(o)'
<1>1. CASE c \in Touching(o)
  <2>1. Touching(o)' = {}
    BY <1>1 DEF Settled
  <2> QED BY <1>1, <2>1 DEF Settled
<1>2. CASE c \notin Touching(o)
  <2>1. Touching(o)' = Touching(o)
    BY <1>2
  <2> QED BY <1>2, <2>1, QuietSettled
<1> QED BY <1>1, <1>2

(* The page is told of a change to an organisation, or puts the old status *)
(* back.                                                                   *)
LEMMA OrganizationAnswerStep ==
  ASSUME CrmInv, NEW c \in calls, OrganizationAnswer(c)
  PROVE  CrmInv'
<1>1. /\ c \in Call /\ CallAimed(c) /\ CrmTyped /\ c.kind \in {"suspend", "capacity", "reset"}
      /\ c.of \in Orgs /\ c.old \in Row /\ page \in [Orgs -> Row]
  BY DEF CrmInv, CrmTyped, CallsAimed, CallAimed, OrganizationAnswer, Call
<1>2. UNCHANGED <<dbRow, ledger, audit, pane, filter, menu, resizing, resetting, thread, stall,
                  health, looked, looking, uses, crossed>>
  BY DEF OrganizationAnswer, server, dialogs, diagnosis
<1>3. LedgerHasLatest' /\ LedgerExplains'
  BY <1>2, LedgerKept
<1>4. /\ calls' \subseteq Call /\ CallsAimed' /\ CallsCounted'
      /\ \A o \in Orgs : Touching(o)' = Touching(o) \ {c}
  <2>1. CASE refetchAuditLogs(c)
    BY <1>1, <1>2, <2>1, RefetchTyped
  <2>2. CASE calls' = calls \ {c}
    BY <1>2, <2>2, DropTyped
  <2> QED BY <2>1, <2>2 DEF OrganizationAnswer, Rollback
<1>5. CASE c.st = "served" /\ UNCHANGED page
  <2>1. CrmTyped'
    BY <1>1, <1>2, <1>4, <1>5 DEF CrmTyped
  <2>2. ASSUME NEW o \in Orgs \ crossed' PROVE Settled(o)'
    <3>1. Settled(o)
      BY <1>2 DEF CrmInv
    <3>2. c \in Touching(o) => page'[o].status = dbRow[o].status
      BY <1>5, <3>1 DEF Settled, CallAgrees
    <3> QED BY <1>2, <1>4, <1>5, <3>1, <3>2, EndedSettled
  <2> QED BY <1>3, <1>4, <2>1, <2>2 DEF CrmInv
<1>6. CASE Rollback(c)
  <2> DEFINE put == Put(page, c, c.old)
  <2>1. /\ put \in [Orgs -> Row] /\ \A o \in Orgs : o # c.of => put[o] = page[o]
        /\ c.kind = "suspend" => put[c.of].status = c.old.status /\ put[c.of].seats = page[c.of].seats
        /\ c.kind = "capacity" => put[c.of].status = page[c.of].status /\ put[c.of].seats = c.old.seats
        /\ c.kind = "reset" => put = page
    BY <1>1, PutRow
  <2>2. page' = put /\ c.st = "failed"
    BY <1>6 DEF Rollback
  <2> HIDE DEF put
  <2>3. CrmTyped'
    BY <1>1, <1>2, <1>4, <2>1, <2>2 DEF CrmTyped
  <2>4. ASSUME NEW o \in Orgs \ crossed' PROVE Settled(o)'
    <3>1. Settled(o)
      BY <1>2 DEF CrmInv
    <3>2. c \notin Touching(o) => page'[o].status = page[o].status
      BY <1>1, <2>1, <2>2 DEF Touching
    <3>3. ASSUME c \in Touching(o) PROVE page'[o].status = dbRow[o].status
      <4>1. c.of = o /\ c.kind \in {"suspend", "capacity"} /\ CallAgrees(c, o)
        BY <1>1, <3>1, <3>3 DEF Touching, Settled
      <4>2. CASE c.kind = "suspend"
        BY <2>1, <2>2, <4>1, <4>2 DEF CallAgrees
      <4>3. CASE c.kind = "capacity"
        BY <2>1, <2>2, <4>1, <4>3 DEF CallAgrees
      <4> QED BY <4>1, <4>2, <4>3
    <3> QED BY <1>2, <1>4, <3>1, <3>2, <3>3, EndedSettled
  <2> QED BY <1>3, <1>4, <2>3, <2>4 DEF CrmInv
<1> QED BY <1>5, <1>6 DEF OrganizationAnswer

(* The answers of the queue, of the health panel and of the fetches. *)
LEMMA ConsoleAnswerStep ==
  ASSUME CrmInv, NEW c \in calls, InterventionAnswer(c) \/ HealthAnswer(c) \/ ResourceAnswer(c)
  PROVE  CrmInv'
<1>1. c \in Call /\ CallAimed(c) /\ CrmTyped
  BY DEF CrmInv, CrmTyped, CallsAimed
<1>2. UNCHANGED <<dbRow, ledger, pane, filter, menu, resizing, resetting, thread, looked, uses,
                  crossed>>
  BY DEF InterventionAnswer, HealthAnswer, ResourceAnswer, server, dialogs, diagnosis
<1>3. LedgerHasLatest' /\ LedgerExplains'
  BY <1>2, LedgerKept
<1>4. /\ calls' \subseteq Call /\ CallsAimed' /\ CallsCounted'
      /\ \A o \in Orgs : Touching(o)' = Touching(o) \ {c}
  <2>1. CASE c.kind = "intervene" /\ refetchAuditLogs(c)
    BY <1>2, <2>1, RefetchTyped
  <2>2. CASE calls' = calls \ {c}
    BY <1>2, <2>2, DropTyped
  <2> QED BY <2>1, <2>2 DEF InterventionAnswer, HealthAnswer, ResourceAnswer
<1>5. stall' \in [Stalled -> {"stalled", "processing", "resolved"}]
  <2>1. \/ stall' = stall \/ stall' = [stall EXCEPT ![c.of] = "resolved"]
        \/ stall' = [stall EXCEPT ![c.of] = "stalled"]
    BY DEF InterventionAnswer, HealthAnswer, ResourceAnswer
  <2> QED BY <1>1, <2>1 DEF CrmTyped
<1>6. health' \in Stalled \cup {Nobody} /\ looking' \in BOOLEAN
  BY <1>1 DEF InterventionAnswer, HealthAnswer, ResourceAnswer, diagnosis, CrmTyped, CallAimed
<1>7. audit' \in 0..MaxUses
  <2>1. c.upTo \in 0..MaxUses
    BY <1>1 DEF Call
  <2>2. audit' = audit \/ audit' = c.upTo
    BY DEF InterventionAnswer, HealthAnswer, ResourceAnswer
  <2> QED BY <1>1, <2>1, <2>2 DEF CrmTyped
<1>8. page' \in [Orgs -> Row] /\ (page' = page \/ (c.kind = "orgs" /\ c.st = "served" /\ page' = c.table))
      /\ c.kind \notin {"suspend", "capacity", "reset"}
  <2>1. c.table \in [Orgs -> Row]
    BY <1>1 DEF Call
  <2> QED BY <1>1, <2>1 DEF InterventionAnswer, HealthAnswer, ResourceAnswer, CrmTyped
<1>9. CrmTyped'
  BY <1>1, <1>2, <1>4, <1>5, <1>6, <1>7, <1>8 DEF CrmTyped
<1>10. ASSUME NEW o \in Orgs \ crossed' PROVE Settled(o)'
  <2>1. Settled(o)
    BY <1>2 DEF CrmInv
  <2>2. c \notin Touching(o) => page'[o].status = page[o].status
    BY <1>8 DEF Touching
  <2>3. c \in Touching(o) => page'[o].status = dbRow[o].status
    BY <1>8, <2>1 DEF Touching, Settled, CallAgrees
  <2> QED BY <1>2, <1>4, <2>1, <2>2, <2>3, EndedSettled
<1> QED BY <1>3, <1>4, <1>9, <1>10 DEF CrmInv

(* Every click, call and answer keeps the invariant. *)
LEMMA CrmStep == CrmInv /\ [CrmNext]_crmVars => CrmInv'
<1> SUFFICES ASSUME CrmInv, [CrmNext]_crmVars PROVE CrmInv'
  OBVIOUS
<1>1. CASE UNCHANGED crmVars
  <2>1. CrmTyped' /\ UNCHANGED <<dbRow, ledger, page, calls, crossed, uses>>
    BY <1>1 DEF crmVars, CrmInv, CrmTyped
  <2>2. uses <= uses'
    BY <2>1, CrmAssumption DEF CrmInv, CrmTyped
  <2> QED BY <2>1, <2>2, RestStep
<1>2. ASSUME NEW c \in calls, CallStep(c) PROVE CrmInv'
  BY <1>2, ServeOrganizationStep, InterventionServed, ServeReadStep, OrganizationAnswerStep,
     ConsoleAnswerStep DEF CallStep
<1>3. CASE OperatorStep
  BY <1>3, BrowseStep, ToggleStep, CapacityStep, ConsoleRequestStep
     DEF OperatorStep, SearchForm, FilterBar, RowMenu, CapacityModal, RecoveryModal, StalledQueue,
         TicketList
<1> QED BY <1>1, <1>2, <1>3 DEF CrmNext

(* For any number of organisations, calls and uses: the status the console  *)
(* shows of an organisation is the server's whenever no call is under way   *)
(* that touches it (handleToggleSuspend shows a change at once and takes it *)
(* back when the call fails), unless two calls about it crossed; and the    *)
(* ledger's last entry explains each row.                                   *)
THEOREM ConsoleShowsServer == CrmSpec => []ConsoleMatchesServer
<1>1. CrmInv => ConsoleMatchesServer
  BY DEF CrmInv, ConsoleMatchesServer, StatusRollsBack, Settled
<1> QED BY <1>1, CrmInitHolds, CrmStep, PTL DEF CrmSpec

-----------------------------------------------------------------------------
(* Mailboxes and aliases.                                                  *)

(* What a page still has to fetch, by the fetch under way. *)
Todos == {<<"list", "billing">>, <<"list", "aliases", "billing">>, <<"aliases", "billing">>,
          <<"aliases">>, <<"billing">>}

(* A row of mailboxes, and the state of its link. *)
MailboxRow == [addr : Addresses, st : {"none", "pending", "active", "gone"}]
LinkState == {"none", "live", "expired", "used"}

(* The type invariant, over the named sets. *)
ProvTyped ==
  /\ box \in [Boxes -> MailboxRow]
  /\ invites \in [Boxes -> LinkState]
  /\ aliases \subseteq Alias /\ claims \subseteq Boxes
  /\ desk \in [Admins -> Desk]
  /\ asks \subseteq Ask /\ asked \in 0 .. MaxAsks /\ crowd \in 0 .. MaxAsks

(* A request is about a mailbox, carries the kind of name its form asks   *)
(* for, and stands where the handler of its kind can leave it.            *)
Ending == {"done", "failed", "fetch", "read"}
AskAimed(r) ==
  /\ r.kind # "invite" \/ r.at \in {"done", "fetch", "read"} => r.of \in Boxes
  /\ r.kind = "invite" => r.name \in Addresses
  /\ r.kind = "alias" => r.name \in AliasNames
  /\ r.at \in {"fetch", "read"} => r.todo \in Todos
(* Every request is aimed so. *)
AsksAimed == \A r \in asks : AskAimed(r)

(* Each request has its number; the mailboxes and aliases there are, and  *)
(* those still asked for, are no more than the requests there were.       *)
Used == {i \in Boxes : box[i].st # "none"}
InvitesOpen == {r \in asks : r.kind = "invite" /\ r.at \in {"sent", "counted"}}
AliasesOpen == {r \in asks : r.kind = "alias" /\ r.at \in {"sent", "counted"}}
AsksNumbered ==
  /\ IsFiniteSet(asks) /\ Cardinality(asks) <= asked
  /\ \A r \in asks : r.n <= asked
  /\ \A r, s \in asks : r.n = s.n => r = s
(* The aliases, and those asked for. *)
AliasesCounted ==
  IsFiniteSet(aliases) /\ Cardinality(aliases) + Cardinality(AliasesOpen) <= asked
(* The mailboxes are numbered as they are made; with those asked for they *)
(* are no more than the requests and the first one.                       *)
BoxesCounted ==
  \E k \in Boxes : Used = 1 .. k /\ k + Cardinality(InvitesOpen) <= asked + 1

(* A link that works is that of a mailbox waiting for its user, and a     *)
(* claim holds one.                                                       *)
LinksLive ==
  /\ \A i \in Boxes : invites[i] = "live" => box[i].st = "pending"
  /\ \A i \in claims : invites[i] = "live"

(* OverrunBounded needs that the invitations between count and commit are *)
(* no more than the most there ever were.                                 *)
SeatsBounded == Cardinality(Counted) <= crowd /\ OverrunBounded

(* One transaction at a time holds a mailbox's row, so that what the      *)
(* counting of aliases saw is still an upper bound when it inserts, and a *)
(* deletion holds the row of a mailbox there is.                          *)
RowsHeldOnce ==
  /\ \A i \in Boxes : \A r, s \in Holders(i) : r = s
  /\ \A r \in asks : r.at = "locked" => r.of \in Used
(* What mailboxAliasesHandler counted bounds the aliases while it holds the *)
(* row.                                                                     *)
CountsCurrent ==
  \A r \in asks : r.kind = "alias" /\ r.at = "counted" => Cardinality(AliasesOf(r.of)) <= r.seen

(* What a page was told, or is about to be told, is so. *)
ToldTrue ==
  /\ \A g \in Admins : /\ \A i \in desk[g].removed : box[i].st = "gone"
                       /\ desk[g].made \subseteq Used
  /\ \A r \in asks : r.at \in {"done", "fetch", "read"} =>
       /\ r.kind = "delete" => box[r.of].st = "gone"
       /\ r.kind = "invite" => r.of \in Used

(* The list that the last fetch has read and the page does not show yet. *)
ReadCurrent ==
  \A r \in asks : r.at = "read" /\ Head(r.todo) = "list" /\ desk[r.by].last["list"] = r.n /\ r.got.ok =>
    /\ r.got.list \cap desk[r.by].removed = {}
    /\ desk[r.by].made \cap Live \subseteq r.got.list

(* The inductive invariant of the mailboxes page and its handlers. *)
ProvInv ==
  /\ ProvTyped /\ AsksAimed
  /\ AsksNumbered /\ AliasesCounted /\ BoxesCounted
  /\ LinksLive
  /\ SeatsBounded
  /\ RowsHeldOnce /\ CountsCurrent /\ AliasQuotaKept
  /\ ToldTrue /\ ReadCurrent /\ OwnWritesShown

(* The mailboxes are finitely many. *)
LEMMA BoxFacts ==
  /\ IsFiniteSet(Boxes) /\ Cardinality(Boxes) = MaxAsks + 1 /\ 1 \in Boxes /\ 0 \notin Boxes
  /\ Boxes \subseteq Nat /\ MaxAsks \in Nat
  /\ \A S : S \subseteq Boxes => /\ IsFiniteSet(S) /\ Cardinality(S) \in 0 .. MaxAsks + 1
<1>1. IsFiniteSet(Boxes) /\ Cardinality(Boxes) = MaxAsks + 1
  BY FS_Interval, ProvisioningAssumption DEF Boxes
<1>2. ASSUME NEW S, S \subseteq Boxes PROVE IsFiniteSet(S) /\ Cardinality(S) \in 0 .. MaxAsks + 1
  BY <1>1, <1>2, NoMore, ProvisioningAssumption
<1> QED BY <1>1, <1>2, ProvisioningAssumption DEF Boxes

(* What is left to fetch is nothing or begins with a resource; the list is *)
(* fetched first.                                                          *)
LEMMA TodoFacts ==
  ASSUME NEW t \in Todos
  PROVE  /\ t # <<>> /\ t \in Seq(Resources) /\ Head(t) \in Resources
         /\ Tail(t) = <<>> \/ (Tail(t) \in Todos /\ Head(Tail(t)) # "list")
<1> USE DEF Todos, Resources
<1>1. CASE t = <<"list", "billing">>
  BY <1>1
<1>2. CASE t = <<"list", "aliases", "billing">>
  BY <1>2
<1>3. CASE t = <<"aliases", "billing">>
  BY <1>3
<1>4. CASE t = <<"aliases">>
  BY <1>4
<1>5. CASE t = <<"billing">>
  BY <1>5
<1> QED BY <1>1, <1>2, <1>3, <1>4, <1>5

(* The named sets are those of Provisioning's type invariant. *)
LEMMA ProvTypedImplies == ProvTyped => ProvisioningTypeOK
BY DEF ProvTyped, ProvisioningTypeOK, MailboxRow, LinkState

(* The finite sets the invariant counts. *)
LEMMA ProvFinite ==
  ASSUME ProvInv
  PROVE  /\ IsFiniteSet(asks) /\ IsFiniteSet(aliases) /\ IsFiniteSet(Live) /\ Live \subseteq Boxes
         /\ Cardinality(asks) \in Nat /\ Cardinality(aliases) \in Nat /\ Cardinality(Live) \in Nat
         /\ IsFiniteSet(AliasesOpen) /\ Cardinality(AliasesOpen) \in Nat
         /\ IsFiniteSet(InvitesOpen) /\ Cardinality(InvitesOpen) \in Nat
         /\ IsFiniteSet(Counted) /\ Cardinality(Counted) \in Nat
         /\ \A i \in Boxes : /\ IsFiniteSet(AliasesOf(i)) /\ Cardinality(AliasesOf(i)) \in Nat
                             /\ Cardinality(AliasesOf(i)) <= Cardinality(aliases)
         /\ asked \in Nat /\ asked <= MaxAsks /\ crowd \in Nat /\ MaxAsks \in Nat
<1>1. IsFiniteSet(asks) /\ IsFiniteSet(aliases)
  BY DEF ProvInv, AsksNumbered, AliasesCounted
<1>2. AliasesOpen \subseteq asks /\ InvitesOpen \subseteq asks /\ Counted \subseteq asks
      /\ Live \subseteq Boxes /\ \A i \in Boxes : AliasesOf(i) \subseteq aliases
  BY DEF AliasesOpen, InvitesOpen, Counted, Live, AliasesOf
<1>3. IsFiniteSet(Boxes)
  BY BoxFacts
<1>4. asked \in Nat /\ asked <= MaxAsks /\ crowd \in Nat /\ MaxAsks \in Nat
  BY ProvisioningAssumption DEF ProvInv, ProvTyped
<1> QED BY <1>1, <1>2, <1>3, <1>4, NoMore

(* One mailbox, and pages that have been loaded. *)
LEMMA ProvInitHolds == ProvisioningInit => ProvInv
<1> SUFFICES ASSUME ProvisioningInit PROVE ProvInv
  OBVIOUS
<1>0. MaxAsks \in Nat /\ Boxes = 1 .. MaxAsks + 1 /\ SeatLimit \in Nat \ {0} /\ AliasLimit \in Nat
  BY ProvisioningAssumption DEF Boxes
<1>1. (CHOOSE a \in Addresses : TRUE) \in Addresses
  BY ProvisioningAssumption
<1>2. box \in [Boxes -> MailboxRow]
  BY <1>1 DEF ProvisioningInit, MailboxRow
<1>3. desk \in [Admins -> Desk]
  <2>1. MailboxesPage \in Desk
    BY <1>0 DEF MailboxesPage, Desk, Managed, None, Resources
  <2> QED BY <2>1 DEF ProvisioningInit
<1>4. ProvTyped
  BY <1>0, <1>2, <1>3 DEF ProvisioningInit, ProvTyped, LinkState
<1>5. Used = {1} /\ Live = {1}
  BY <1>0 DEF ProvisioningInit, Used, Live, Managed
<1>6. /\ asks = {} /\ aliases = {} /\ Counted = {} /\ InvitesOpen = {} /\ AliasesOpen = {}
      /\ \A i \in Boxes : AliasesOf(i) = {} /\ Holders(i) = {}
  BY DEF ProvisioningInit, Counted, InvitesOpen, AliasesOpen, AliasesOf, Holders
<1>7. IsFiniteSet({}) /\ Cardinality({}) = 0
  BY FS_EmptySet
<1>8. IsFiniteSet(asks) /\ IsFiniteSet(aliases) /\ Cardinality(asks) = 0 /\ Cardinality(aliases) = 0
      /\ Cardinality(Counted) = 0 /\ Cardinality(InvitesOpen) = 0 /\ Cardinality(AliasesOpen) = 0
      /\ \A i \in Boxes : Cardinality(AliasesOf(i)) = 0
  BY <1>6, <1>7
<1>9. AsksAimed /\ AsksNumbered /\ AliasesCounted
  BY <1>6, <1>8 DEF ProvisioningInit, AsksAimed, AsksNumbered, AliasesCounted
<1>10. BoxesCounted
  <2>1. 1 \in Boxes /\ Used = 1 .. 1 /\ 1 + Cardinality(InvitesOpen) <= asked + 1
    BY <1>0, <1>5, <1>8 DEF ProvisioningInit
  <2> QED BY <2>1 DEF BoxesCounted
<1>11. LinksLive
  BY DEF ProvisioningInit, LinksLive
<1>12. SeatsBounded
  <2>1. Cardinality(Live) = 1
    BY <1>5, FS_Singleton
  <2> QED BY <1>0, <1>8, <2>1 DEF ProvisioningInit, SeatsBounded, OverrunBounded
<1>13. RowsHeldOnce /\ CountsCurrent /\ AliasQuotaKept
  BY <1>0, <1>6, <1>8 DEF RowsHeldOnce, CountsCurrent, AliasQuotaKept
<1>14. \A g \in Admins : desk[g].made = {} /\ desk[g].removed = {}
  BY DEF ProvisioningInit, MailboxesPage
<1>15. ToldTrue /\ ReadCurrent /\ OwnWritesShown
  BY <1>6, <1>14 DEF ToldTrue, ReadCurrent, OwnWritesShown
<1> QED BY <1>4, <1>9, <1>10, <1>11, <1>12, <1>13, <1>15 DEF ProvInv

(* What the page shows of the list and was told is left alone. *)
ViewKept ==
  \A g \in Admins :
    /\ desk'[g].list = desk[g].list /\ desk'[g].fresh = desk[g].fresh
    /\ desk'[g].last["list"] = desk[g].last["list"]
    /\ desk'[g].made = desk[g].made /\ desk'[g].removed = desk[g].removed

(* A step that leaves the lists on show alone, adds no mailbox to those   *)
(* already there and revives none, keeps what the pages show in agreement *)
(* with what they were told.                                              *)
LEMMA DeskKept ==
  ASSUME ProvInv, ViewKept, asks' \subseteq Ask,
         \A s \in asks' : \/ s \in asks
                          \/ /\ ~(s.at \in {"fetch", "read"} /\ Head(s.todo) = "list")
                             /\ s.at \in {"done", "fetch", "read"} =>
                                  /\ s.kind = "delete" => box'[s.of].st = "gone"
                                  /\ s.kind = "invite" => s.of \in Used',
         \A s \in asks : s.at \in {"fetch", "read"} /\ Head(s.todo) = "list"
                           /\ desk[s.by].last["list"] = s.n => s \in asks',
         \A i \in Boxes : box[i].st = "gone" => box'[i].st = "gone",
         Used \subseteq Used', Used \cap Live' \subseteq Live
  PROVE  ToldTrue' /\ ReadCurrent' /\ OwnWritesShown'
<1>1. /\ asks \subseteq Ask /\ ToldTrue /\ ReadCurrent /\ OwnWritesShown /\ AsksAimed
      /\ desk \in [Admins -> Desk]
  BY DEF ProvInv, ProvTyped
<1>2. \A s \in asks \cup asks' : s.by \in Admins
  BY <1>1 DEF Ask
<1>3. \A g \in Admins : desk[g].removed \subseteq Boxes /\ desk[g].made \subseteq Used
  BY <1>1 DEF Desk, ToldTrue
<1>4. ToldTrue'
  <2>1. ASSUME NEW g \in Admins
        PROVE  (\A i \in desk'[g].removed : box'[i].st = "gone") /\ desk'[g].made \subseteq Used'
    BY <1>1, <1>3 DEF ToldTrue, ViewKept
  <2>2. ASSUME NEW s \in asks', s.at \in {"done", "fetch", "read"}
        PROVE  /\ s.kind = "delete" => box'[s.of].st = "gone"
               /\ s.kind = "invite" => s.of \in Used'
    BY <1>1, <2>2 DEF ToldTrue, AsksAimed, AskAimed
  <2> QED BY <2>1, <2>2 DEF ToldTrue
<1>5. ReadCurrent'
  <2> SUFFICES ASSUME NEW s \in asks', s.at = "read", Head(s.todo) = "list",
                      desk'[s.by].last["list"] = s.n, s.got.ok
               PROVE  /\ s.got.list \cap desk'[s.by].removed = {}
                      /\ desk'[s.by].made \cap Live' \subseteq s.got.list
    BY DEF ReadCurrent
  <2>1. s \in asks /\ s.by \in Admins
    BY <1>2
  <2>2. /\ desk[s.by].last["list"] = s.n /\ desk'[s.by].removed = desk[s.by].removed
        /\ desk'[s.by].made = desk[s.by].made
    BY <2>1 DEF ViewKept
  <2>3. s.got.list \cap desk[s.by].removed = {} /\ desk[s.by].made \cap Live \subseteq s.got.list
    BY <1>1, <2>1, <2>2 DEF ReadCurrent
  <2> QED BY <1>3, <2>1, <2>2, <2>3
<1>6. OwnWritesShown'
  <2> SUFFICES ASSUME NEW g \in Admins, desk'[g].fresh, ~Loading(g, "list")'
               PROVE  /\ desk'[g].list \cap desk'[g].removed = {}
                      /\ desk'[g].made \cap Live' \subseteq desk'[g].list
    BY DEF OwnWritesShown
  <2>1. ~Loading(g, "list")
    <3> SUFFICES ASSUME NEW s \in asks, s.by = g, s.at \in {"fetch", "read"},
                        Head(s.todo) = "list", desk[g].last["list"] = s.n
                 PROVE  FALSE
      BY DEF Loading
    <3>1. s \in asks' /\ desk'[g].last["list"] = s.n
      BY DEF ViewKept
    <3> QED BY <3>1 DEF Loading
  <2>2. desk[g].list \cap desk[g].removed = {} /\ desk[g].made \cap Live \subseteq desk[g].list
    BY <1>1, <2>1 DEF OwnWritesShown, ViewKept
  <2> QED BY <1>3, <2>2 DEF ViewKept
<1> QED BY <1>4, <1>5, <1>6

(* A request that moves on keeps its number, and leaves the open ones. *)
LEMMA MovedCounts ==
  ASSUME ProvInv, NEW r \in asks, NEW s \in Ask, s.n = r.n, s.kind = r.kind, AskAimed(s),
         s.at # "sent", s.at = "counted" => r.at = "sent",
         asks' \subseteq (asks \ {r}) \cup {s}, asked' = asked
  PROVE  /\ asks' \subseteq Ask /\ AsksAimed' /\ AsksNumbered'
         /\ IsFiniteSet(AliasesOpen') /\ Cardinality(AliasesOpen') \in Nat
         /\ Cardinality(AliasesOpen') <= Cardinality(AliasesOpen)
         /\ r \in AliasesOpen /\ s.at # "counted" =>
              Cardinality(AliasesOpen') <= Cardinality(AliasesOpen) - 1
         /\ IsFiniteSet(InvitesOpen') /\ Cardinality(InvitesOpen') \in Nat
         /\ Cardinality(InvitesOpen') <= Cardinality(InvitesOpen)
         /\ r \in InvitesOpen /\ s.at # "counted" =>
              Cardinality(InvitesOpen') <= Cardinality(InvitesOpen) - 1
<1>0. /\ asks \subseteq Ask /\ AsksAimed /\ AsksNumbered /\ IsFiniteSet(asks)
      /\ IsFiniteSet(AliasesOpen) /\ IsFiniteSet(InvitesOpen) /\ asked \in Nat
  BY ProvFinite DEF ProvInv, ProvTyped
<1>1. asks' \subseteq Ask /\ AsksAimed'
  BY <1>0 DEF AsksAimed
<1>2. AsksNumbered'
  <2>1. IsFiniteSet(asks') /\ Cardinality(asks') <= Cardinality(asks) /\ Cardinality(asks') \in Nat
        /\ Cardinality(asks) \in Nat
    BY <1>0, Swapped
  <2>2. Cardinality(asks') <= asked'
    BY <1>0, <2>1 DEF AsksNumbered
  <2> QED BY <1>0, <2>1, <2>2 DEF AsksNumbered
<1>3. AliasesOpen' \subseteq (AliasesOpen \ {r}) \cup {s} /\ (s \in AliasesOpen' => r \in AliasesOpen)
      /\ (s.at # "counted" => s \notin AliasesOpen')
  BY DEF AliasesOpen
<1>4. InvitesOpen' \subseteq (InvitesOpen \ {r}) \cup {s} /\ (s \in InvitesOpen' => r \in InvitesOpen)
      /\ (s.at # "counted" => s \notin InvitesOpen')
  BY DEF InvitesOpen
<1>5. /\ IsFiniteSet(AliasesOpen') /\ Cardinality(AliasesOpen') \in Nat
      /\ Cardinality(AliasesOpen') <= Cardinality(AliasesOpen)
      /\ r \in AliasesOpen /\ s \notin AliasesOpen' =>
              Cardinality(AliasesOpen') <= Cardinality(AliasesOpen) - 1
  BY <1>0, <1>3, Swapped
<1>6. /\ IsFiniteSet(InvitesOpen') /\ Cardinality(InvitesOpen') \in Nat
      /\ Cardinality(InvitesOpen') <= Cardinality(InvitesOpen)
      /\ r \in InvitesOpen /\ s \notin InvitesOpen' =>
              Cardinality(InvitesOpen') <= Cardinality(InvitesOpen) - 1
  BY <1>0, <1>4, Swapped
<1> QED BY <1>1, <1>2, <1>3, <1>4, <1>5, <1>6

(* The mailboxes are no more than was asked for while none is made. *)
LEMMA BoxesKept ==
  ASSUME ProvInv, Used' = Used, asked' \in Nat, asked <= asked', Cardinality(InvitesOpen') \in Nat,
         Cardinality(InvitesOpen') <= Cardinality(InvitesOpen) + (asked' - asked)
  PROVE  BoxesCounted'
<1>0. asked \in Nat /\ Cardinality(InvitesOpen) \in Nat
  BY ProvFinite
<1>1. PICK k \in Boxes : Used = 1 .. k /\ k + Cardinality(InvitesOpen) <= asked + 1
  BY DEF ProvInv, BoxesCounted
<1>2. k + Cardinality(InvitesOpen') <= asked' + 1
  <2>1. k \in Nat
    BY BoxFacts
  <2> QED BY <1>0, <1>1, <2>1
<1> QED BY <1>1, <1>2 DEF BoxesCounted

(* The counts of mailboxes and aliases stay when the tables do not grow. *)
LEMMA CountsKept ==
  ASSUME ProvInv, Used' = Used, IsFiniteSet(aliases'),
         Cardinality(aliases') <= Cardinality(aliases),
         asked' \in Nat, asked <= asked',
         Cardinality(AliasesOpen') \in Nat, Cardinality(InvitesOpen') \in Nat,
         Cardinality(AliasesOpen') <= Cardinality(AliasesOpen) + (asked' - asked),
         Cardinality(InvitesOpen') <= Cardinality(InvitesOpen) + (asked' - asked)
  PROVE  AliasesCounted' /\ BoxesCounted'
<1>0. Cardinality(aliases) \in Nat /\ Cardinality(aliases') \in Nat /\ asked \in Nat
      /\ Cardinality(AliasesOpen) \in Nat /\ Cardinality(InvitesOpen) \in Nat
  BY ProvFinite, FS_CardinalityType
<1>1. AliasesCounted'
  BY <1>0 DEF ProvInv, AliasesCounted
<1>2. BoxesCounted'
  BY BoxesKept
<1> QED BY <1>1, <1>2

(* The seats stay within bounds while neither mailboxes nor counted *)
(* invitations are added.                                            *)
LEMMA SeatsKept ==
  ASSUME ProvInv, Live' \subseteq Live, Counted' \subseteq Counted, UNCHANGED crowd
  PROVE  SeatsBounded'
<1>0. IsFiniteSet(Live) /\ IsFiniteSet(Counted) /\ crowd \in Nat
  BY ProvFinite
<1>1. Cardinality(Live') <= Cardinality(Live) /\ Cardinality(Live') \in Nat /\ Cardinality(Live) \in Nat
  BY <1>0, NoMore
<1>2. Cardinality(Counted') <= Cardinality(Counted) /\ Cardinality(Counted') \in Nat
      /\ Cardinality(Counted) \in Nat
  BY <1>0, NoMore
<1>3. /\ Cardinality(Counted) <= crowd
      /\ Cardinality(Live) + Cardinality(Counted) <= SeatLimit + (IF crowd = 0 THEN 0 ELSE crowd - 1)
  BY DEF ProvInv, SeatsBounded, OverrunBounded
<1> DEFINE room == SeatLimit + (IF crowd = 0 THEN 0 ELSE crowd - 1)
<1>4. room \in Nat /\ Cardinality(Live) + Cardinality(Counted) <= room
  BY <1>0, <1>3, ProvisioningAssumption
<1>5. Cardinality(Counted') <= crowd'
  BY <1>0, <1>2, <1>3
<1>6. Cardinality(Live') + Cardinality(Counted') <= room
  <2> HIDE DEF room
  <2> QED BY <1>1, <1>2, <1>4
<1> QED BY <1>5, <1>6 DEF SeatsBounded, OverrunBounded

(* The aliases' limit holds while no alias is switched on and no row is   *)
(* taken.                                                                  *)
LEMMA AliasesKept ==
  ASSUME ProvInv, \A i \in Boxes : AliasesOf(i)' \subseteq AliasesOf(i), asks' \subseteq Ask,
         AsksAimed',
         \A s \in asks' : s \in asks \/ ~(s.at = "locked" \/ (s.kind = "alias" /\ s.at = "counted")),
         Used \subseteq Used'
  PROVE  RowsHeldOnce' /\ CountsCurrent' /\ AliasQuotaKept'
<1>1. \A i \in Boxes : /\ Cardinality(AliasesOf(i)') <= Cardinality(AliasesOf(i))
                       /\ Cardinality(AliasesOf(i)') \in Nat /\ Cardinality(AliasesOf(i)) \in Nat
  BY ProvFinite, NoMore
<1>2. \A i \in Boxes : Holders(i)' \subseteq Holders(i)
  BY DEF Holders
<1>3. RowsHeldOnce'
  BY <1>2 DEF ProvInv, RowsHeldOnce
<1>4. ASSUME NEW s \in asks', s.kind = "alias", s.at = "counted"
      PROVE  Cardinality(AliasesOf(s.of)') <= s.seen
  <2>1. s \in asks /\ s \in Ask /\ s.of \in Boxes
    BY <1>4 DEF AsksAimed, AskAimed
  <2>2. Cardinality(AliasesOf(s.of)) <= s.seen /\ s.seen \in Nat
    BY <1>4, <2>1, ProvisioningAssumption DEF ProvInv, CountsCurrent, Ask
  <2> QED BY <1>1, <2>1, <2>2
<1>5. CountsCurrent'
  BY <1>4 DEF CountsCurrent
<1>6. AliasQuotaKept'
  BY <1>1, ProvisioningAssumption DEF ProvInv, AliasQuotaKept
<1> QED BY <1>3, <1>5, <1>6

(* A request that fails, or succeeds without a change to the mailboxes. *)
LEMMA EndsStep ==
  ASSUME ProvInv, NEW r \in asks, NEW at \in {"done", "failed"}, Step(r, at),
         r.at \in {"sent", "counted", "locked"}, at = "done" => r.kind \in {"unalias", "recover"},
         aliases' \subseteq aliases, UNCHANGED <<box, invites, claims, desk, asked, crowd>>
  PROVE  ProvInv'
<1> DEFINE s == [r EXCEPT !.at = at]
<1>0. r \in Ask /\ AskAimed(r) /\ ProvTyped
  BY DEF ProvInv, ProvTyped, AsksAimed
<1>1. s \in Ask /\ s.n = r.n /\ s.kind = r.kind /\ s.at = at /\ s.of = r.of /\ s.name = r.name
  BY <1>0 DEF Ask
<1>2. asks' = (asks \ {r}) \cup {s}
  BY DEF Step
<1> HIDE DEF s
<1>3. AskAimed(s)
  BY <1>0, <1>1 DEF AskAimed
<1>4. /\ asks' \subseteq Ask /\ AsksAimed' /\ AsksNumbered'
      /\ Cardinality(AliasesOpen') \in Nat /\ Cardinality(InvitesOpen') \in Nat
      /\ Cardinality(AliasesOpen') <= Cardinality(AliasesOpen)
      /\ Cardinality(InvitesOpen') <= Cardinality(InvitesOpen)
  BY <1>1, <1>2, <1>3, MovedCounts
<1>5. /\ Used' = Used /\ Live' = Live /\ Counted' \subseteq Counted
      /\ \A i \in Boxes : AliasesOf(i)' \subseteq AliasesOf(i)
  BY <1>1, <1>2 DEF Used, Live, Counted, AliasesOf, WithinPlan
<1>6. IsFiniteSet(aliases') /\ Cardinality(aliases') <= Cardinality(aliases)
  BY ProvFinite, NoMore
<1>7. AliasesCounted' /\ BoxesCounted'
  <2>1. asked' \in Nat /\ asked <= asked' /\ asked' - asked = 0
    BY ProvFinite
  <2> QED BY <1>4, <1>5, <1>6, <2>1, ProvFinite, CountsKept
<1>8. SeatsBounded'
  BY <1>5, SeatsKept
<1>9. RowsHeldOnce' /\ CountsCurrent' /\ AliasQuotaKept'
  BY <1>1, <1>2, <1>4, <1>5, AliasesKept
<1>10. ToldTrue' /\ ReadCurrent' /\ OwnWritesShown'
  BY <1>1, <1>2, <1>4, <1>5, DeskKept DEF ViewKept
<1>11. ProvTyped' /\ LinksLive'
  BY <1>0, <1>4 DEF ProvTyped, ProvInv, LinksLive
<1> QED BY <1>4, <1>7, <1>8, <1>9, <1>10, <1>11 DEF ProvInv

(* A step that changes the claims under way, or a page but neither its    *)
(* list nor what it was told.                                             *)
LEMMA PageOnlyStep ==
  ASSUME ProvInv, UNCHANGED <<tables, asks, asked, crowd>>, desk' \in [Admins -> Desk], ViewKept,
         claims' \subseteq Boxes, \A i \in claims' : i \notin claims => invites[i] = "live"
  PROVE  ProvInv'
<1>1. UNCHANGED <<box, invites, aliases, asks, asked, crowd>>
  BY DEF tables
<1>2. /\ Used' = Used /\ Live' = Live /\ Counted' = Counted /\ InvitesOpen' = InvitesOpen
      /\ AliasesOpen' = AliasesOpen
      /\ \A i \in Boxes : AliasesOf(i)' = AliasesOf(i) /\ Holders(i)' = Holders(i)
  BY <1>1 DEF Used, Live, Counted, InvitesOpen, AliasesOpen, AliasesOf, Holders, WithinPlan
<1>3. ProvTyped' /\ AsksAimed' /\ AsksNumbered' /\ LinksLive'
  BY <1>1 DEF ProvInv, ProvTyped, AsksAimed, AsksNumbered, LinksLive
<1>4. AliasesCounted' /\ BoxesCounted'
  BY <1>1, <1>2 DEF ProvInv, AliasesCounted, BoxesCounted
<1>5. SeatsBounded'
  BY <1>1, <1>2 DEF ProvInv, SeatsBounded, OverrunBounded
<1>6. RowsHeldOnce' /\ AliasQuotaKept'
  BY <1>1, <1>2 DEF ProvInv, RowsHeldOnce, AliasQuotaKept
<1>7. asks \subseteq Ask /\ asks' = asks
  BY <1>1 DEF ProvInv, ProvTyped
<1>8. CountsCurrent'
  BY <1>2, <1>7 DEF ProvInv, CountsCurrent, AsksAimed, AskAimed
<1>9. ToldTrue' /\ ReadCurrent' /\ OwnWritesShown'
  BY <1>1, <1>2, <1>7, DeskKept
<1> QED BY <1>3, <1>4, <1>5, <1>6, <1>8, <1>9 DEF ProvInv

(* A request of a page: one more, and nothing on the server yet. *)
LEMMA RequestMade ==
  ASSUME ProvInv, NEW g \in Admins,
         NEW kind \in {"invite", "delete", "alias", "unalias", "recover"},
         NEW i \in Boxes \cup {None}, NEW name \in Addresses \cup AliasNames \cup {None},
         NEW seen \in 0 .. MaxAsks + 1,
         kind # "invite" => i \in Boxes, kind = "invite" => name \in Addresses,
         kind = "alias" => name \in AliasNames,
         request(g, kind, i, name, seen), desk' \in [Admins -> Desk], ViewKept
  PROVE  ProvInv'
<1> DEFINE s == [n |-> asked + 1, by |-> g, kind |-> kind, of |-> i, name |-> name,
                 at |-> "sent", seen |-> seen, todo |-> <<>>, got |-> Unread]
<1>0. asked \in Nat /\ MaxAsks \in Nat /\ crowd \in Nat
  BY ProvFinite
<1>1. /\ asked' = asked + 1 /\ asked' \in 0 .. MaxAsks /\ asked + 1 \in 1 .. MaxAsks
      /\ UNCHANGED <<box, invites, aliases, claims, crowd>>
  BY <1>0 DEF request, tables
<1>2. s \in Ask
  <2>1. Unread \in [list : SUBSET Boxes, aliases : SUBSET Alias, used : 0 .. MaxAsks + 1, ok : BOOLEAN]
    BY <1>0 DEF Unread, None
  <2>2. <<>> \in Seq(Resources)
    OBVIOUS
  <2> QED BY <1>0, <1>1, <2>1, <2>2 DEF Ask
<1>3. asks' = asks \cup {s}
  BY <1>1 DEF request
<1>4. s.n = asked + 1 /\ s.kind = kind /\ s.at = "sent" /\ s.of = i /\ s.name = name
  OBVIOUS
<1> HIDE DEF s
<1>5. AskAimed(s)
  BY <1>4 DEF AskAimed
<1>6. ProvTyped' /\ AsksAimed' /\ LinksLive' /\ asks' \subseteq Ask
  BY <1>1, <1>2, <1>3, <1>5 DEF ProvInv, ProvTyped, AsksAimed, LinksLive
<1>7. IsFiniteSet(asks') /\ Cardinality(asks') <= Cardinality(asks) + 1 /\ Cardinality(asks') \in Nat
      /\ Cardinality(asks) \in Nat
  BY <1>3, ProvFinite, OneMore
<1>8. AsksNumbered'
  <2>1. AsksNumbered /\ asks \subseteq Ask
    BY DEF ProvInv, ProvTyped
  <2>2. \A t \in asks : t.n \in Nat /\ t.n <= asked
    BY <1>0, <2>1 DEF Ask, AsksNumbered
  <2>3. Cardinality(asks') <= asked'
    BY <1>0, <1>1, <1>7, <2>1 DEF AsksNumbered
  <2>4. \A t \in asks' : t.n <= asked'
    BY <1>0, <1>1, <1>3, <1>4, <2>2
  <2>5. \A t, u \in asks' : t.n = u.n => t = u
    BY <1>0, <1>3, <1>4, <2>1, <2>2 DEF AsksNumbered
  <2> QED BY <1>7, <2>3, <2>4, <2>5 DEF AsksNumbered
<1>9. AliasesOpen' \subseteq AliasesOpen \cup {s} /\ InvitesOpen' \subseteq InvitesOpen \cup {s}
  BY <1>3 DEF AliasesOpen, InvitesOpen
<1>10. Cardinality(AliasesOpen') \in Nat /\ Cardinality(AliasesOpen') <= Cardinality(AliasesOpen) + 1
  <2> DEFINE T == AliasesOpen \cup {s}
  <2>1. IsFiniteSet(T) /\ Cardinality(T) \in Nat /\ Cardinality(T) <= Cardinality(AliasesOpen) + 1
    BY ProvFinite, OneMore
  <2>2. AliasesOpen' \subseteq T
    BY <1>9
  <2> HIDE DEF T
  <2>3. Cardinality(AliasesOpen') \in Nat /\ Cardinality(AliasesOpen') <= Cardinality(T)
    BY <2>1, <2>2, NoMore
  <2> QED BY <2>1, <2>3, ProvFinite
<1>11. Cardinality(InvitesOpen') \in Nat /\ Cardinality(InvitesOpen') <= Cardinality(InvitesOpen) + 1
  <2> DEFINE T == InvitesOpen \cup {s}
  <2>1. IsFiniteSet(T) /\ Cardinality(T) \in Nat /\ Cardinality(T) <= Cardinality(InvitesOpen) + 1
    BY ProvFinite, OneMore
  <2>2. InvitesOpen' \subseteq T
    BY <1>9
  <2> HIDE DEF T
  <2>3. Cardinality(InvitesOpen') \in Nat /\ Cardinality(InvitesOpen') <= Cardinality(T)
    BY <2>1, <2>2, NoMore
  <2> QED BY <2>1, <2>3, ProvFinite
<1>12. /\ Used' = Used /\ Live' = Live /\ Counted' \subseteq Counted
       /\ \A j \in Boxes : AliasesOf(j)' = AliasesOf(j)
  BY <1>1, <1>3, <1>4 DEF Used, Live, Counted, AliasesOf, WithinPlan
<1>13. AliasesCounted' /\ BoxesCounted'
  <2>1. asked' \in Nat /\ asked <= asked' /\ asked' - asked = 1
    BY <1>0, <1>1
  <2>2. IsFiniteSet(aliases') /\ Cardinality(aliases') <= Cardinality(aliases)
    BY <1>1, ProvFinite
  <2> QED BY <1>10, <1>11, <1>12, <2>1, <2>2, CountsKept
<1>14. SeatsBounded'
  BY <1>1, <1>12, SeatsKept
<1>15. RowsHeldOnce' /\ CountsCurrent' /\ AliasQuotaKept'
  BY <1>3, <1>4, <1>6, <1>12, AliasesKept
<1>16. ToldTrue' /\ ReadCurrent' /\ OwnWritesShown'
  BY <1>1, <1>3, <1>4, <1>6, <1>12, DeskKept
<1> QED BY <1>6, <1>8, <1>13, <1>14, <1>15, <1>16 DEF ProvInv

(* Every click of an administrator. *)
LEMMA AdminStepKeeps ==
  ASSUME ProvInv, NEW g \in Admins, AdminStep(g)
  PROVE  ProvInv'
<1>0. /\ desk \in [Admins -> Desk] /\ desk[g] \in Desk /\ desk[g].list \subseteq Boxes
      /\ desk[g].aliases \subseteq Alias /\ MaxAsks \in Nat /\ claims \subseteq Boxes
  BY ProvisioningAssumption DEF ProvInv, ProvTyped, Desk
<1>1. Boxes \subseteq Nat /\ 0 \notin Boxes
  BY BoxFacts
<1> DEFINE Touched(d) ==
      /\ d \in Desk /\ desk' = [desk EXCEPT ![g] = d]
      /\ d.list = desk[g].list /\ d.fresh = desk[g].fresh /\ d.last = desk[g].last
      /\ d.made = desk[g].made /\ d.removed = desk[g].removed
<1>2. ASSUME NEW d, Touched(d) PROVE desk' \in [Admins -> Desk] /\ ViewKept
  BY <1>0, <1>2 DEF ViewKept
<1>3. ASSUME NEW a \in Addresses, handleCreate(g, a) PROVE ProvInv'
  <2>1. Touched([desk[g] EXCEPT !.creating = TRUE])
    BY <1>0, <1>3 DEF handleCreate, Desk
  <2>2. desk' \in [Admins -> Desk] /\ ViewKept
    BY <1>2, <2>1
  <2>3. request(g, "invite", None, a, 0) /\ 0 \in 0 .. MaxAsks + 1
    BY <1>0, <1>3 DEF handleCreate
  <2> QED BY <2>2, <2>3, RequestMade
<1>4. ASSUME CreateAnother(g) PROVE ProvInv'
  <2>1. Touched([desk[g] EXCEPT !.created = None])
    BY <1>0, <1>4 DEF CreateAnother, Desk
  <2> QED BY <1>0, <1>2, <1>4, <2>1, PageOnlyStep DEF CreateAnother, OnlyPage
<1>5. ASSUME NEW i \in desk[g].list, setDeleteTargetMailbox(g, i) PROVE ProvInv'
  <2>1. Touched([desk[g] EXCEPT !.confirm = i])
    BY <1>0, <1>5 DEF setDeleteTargetMailbox, Desk
  <2> QED BY <1>0, <1>2, <1>5, <2>1, PageOnlyStep DEF setDeleteTargetMailbox, OnlyPage
<1>6. ASSUME NEW i \in desk[g].list, setAliasTargetMailboxId(g, i) PROVE ProvInv'
  <2>1. Touched([desk[g] EXCEPT !.target = i])
    BY <1>0, <1>6 DEF setAliasTargetMailboxId, Desk
  <2> QED BY <1>0, <1>2, <1>6, <2>1, PageOnlyStep DEF setAliasTargetMailboxId, OnlyPage
<1>7. ASSUME CancelDelete(g) PROVE ProvInv'
  <2>1. Touched([desk[g] EXCEPT !.confirm = None])
    BY <1>0, <1>7 DEF CancelDelete, Desk
  <2> QED BY <1>0, <1>2, <1>7, <2>1, PageOnlyStep DEF CancelDelete, OnlyPage
<1>8. ASSUME handleDeleteMailbox(g) PROVE ProvInv'
  <2>1. Touched([desk[g] EXCEPT !.deleting = TRUE])
    BY <1>0, <1>8 DEF handleDeleteMailbox, Desk
  <2>2. desk' \in [Admins -> Desk] /\ ViewKept
    BY <1>2, <2>1
  <2>3. request(g, "delete", desk[g].confirm, None, 0) /\ 0 \in 0 .. MaxAsks + 1
        /\ desk[g].confirm \in Boxes
    BY <1>0, <1>8 DEF handleDeleteMailbox, Clickable, Desk
  <2> QED BY <2>2, <2>3, RequestMade
<1>9. ASSUME NEW i \in Managed, handleRecovery(g, i) PROVE ProvInv'
  <2>1. Touched([desk[g] EXCEPT !.recovering = TRUE])
    BY <1>0, <1>9 DEF handleRecovery, Desk
  <2>2. desk' \in [Admins -> Desk] /\ ViewKept
    BY <1>2, <2>1
  <2>3. request(g, "recover", i, None, 0) /\ 0 \in 0 .. MaxAsks + 1 /\ i \in Boxes
    BY <1>0, <1>9 DEF handleRecovery
  <2> QED BY <2>2, <2>3, RequestMade
<1>10. ASSUME NEW name \in AliasNames, handleCreateAlias(g, name) PROVE ProvInv'
  <2>1. Touched([desk[g] EXCEPT !.aliasing = TRUE])
    BY <1>0, <1>10 DEF handleCreateAlias, Desk
  <2>2. desk' \in [Admins -> Desk] /\ ViewKept
    BY <1>2, <2>1
  <2>3. request(g, "alias", desk[g].target, name, 0) /\ 0 \in 0 .. MaxAsks + 1
        /\ desk[g].target \in Boxes
    BY <1>0, <1>10 DEF handleCreateAlias, Desk
  <2> QED BY <2>2, <2>3, RequestMade
<1>11. ASSUME NEW a \in desk[g].aliases, handleDeleteAlias(g, a) PROVE ProvInv'
  <2>0. a \in Alias
    BY <1>0
  <2>1. a.id \in 0 .. MaxAsks /\ a.id \in 0 .. MaxAsks + 1 /\ a.of \in Boxes /\ a.name \in AliasNames
    BY <1>0, <2>0 DEF Alias
  <2>2. Touched([desk[g] EXCEPT !.dropping = a.id])
    BY <1>0, <1>11, <2>1 DEF handleDeleteAlias, Desk
  <2>3. desk' \in [Admins -> Desk] /\ ViewKept
    BY <1>2, <2>2
  <2>4. request(g, "unalias", a.of, a.name, a.id)
    BY <1>11 DEF handleDeleteAlias
  <2> QED BY <2>1, <2>3, <2>4, RequestMade
<1> QED BY <1>3, <1>4, <1>5, <1>6, <1>7, <1>8, <1>9, <1>10, <1>11
        DEF AdminStep, CreationForm, InviteCard, MailboxRows, DeleteModal, RecoveryCard, AliasForm,
            AliasRows

(* mailboxInviteHandler counts the mailboxes: one more invitation is      *)
(* between its count and its commit.                                      *)
LEMMA CountStep ==
  ASSUME ProvInv, NEW r \in asks, CountMailboxes(r)
  PROVE  ProvInv'
<1> DEFINE s == [r EXCEPT !.at = "counted", !.seen = Cardinality(Live)]
<1>0. /\ r \in Ask /\ AskAimed(r) /\ ProvTyped /\ r.kind = "invite" /\ r.at = "sent"
      /\ UNCHANGED <<box, invites, aliases, claims, desk, asked>>
  BY DEF ProvInv, ProvTyped, AsksAimed, CountMailboxes, tables
<1>1. Cardinality(Live) \in 0 .. MaxAsks + 1 /\ Cardinality(Live) \in Nat
  BY BoxFacts, ProvFinite
<1>2. /\ s \in Ask /\ s.n = r.n /\ s.kind = "invite" /\ s.at = "counted" /\ s.of = r.of
      /\ s.name = r.name /\ s.seen = Cardinality(Live)
  BY <1>0, <1>1 DEF Ask
<1>3. asks' = (asks \ {r}) \cup {s}
  BY DEF CountMailboxes
<1> HIDE DEF s
<1>4. AskAimed(s)
  BY <1>0, <1>2 DEF AskAimed
<1>5. /\ asks' \subseteq Ask /\ AsksAimed' /\ AsksNumbered'
      /\ Cardinality(AliasesOpen') \in Nat /\ Cardinality(InvitesOpen') \in Nat
      /\ Cardinality(AliasesOpen') <= Cardinality(AliasesOpen)
      /\ Cardinality(InvitesOpen') <= Cardinality(InvitesOpen)
  BY <1>0, <1>2, <1>3, <1>4, MovedCounts
<1>6. /\ Used' = Used /\ Live' = Live /\ \A i \in Boxes : AliasesOf(i)' = AliasesOf(i)
  BY <1>0 DEF Used, Live, AliasesOf
<1>7. AliasesCounted' /\ BoxesCounted'
  <2>1. asked' \in Nat /\ asked <= asked' /\ asked' - asked = 0
    BY <1>0, ProvFinite
  <2>2. IsFiniteSet(aliases') /\ Cardinality(aliases') <= Cardinality(aliases)
    BY <1>0, ProvFinite
  <2> QED BY <1>5, <1>6, <2>1, <2>2, ProvFinite, CountsKept
<1>8. /\ Counted' \subseteq Counted \cup {s}
      /\ WithinPlan(s) => s \in Counted'
      /\ ~WithinPlan(s) => Counted' \subseteq Counted
      /\ Counted' \subseteq asks'
  BY <1>2, <1>3 DEF Counted, WithinPlan
<1>9. /\ IsFiniteSet(Counted') /\ Cardinality(Counted') \in Nat
      /\ Cardinality(Counted') <= Cardinality(asks') /\ Cardinality(asks') \in Nat
  BY <1>5, <1>8, NoMore DEF AsksNumbered
<1>10. crowd' = (IF Cardinality(Counted') > crowd THEN Cardinality(Counted') ELSE crowd)
  BY DEF CountMailboxes
<1>11. /\ crowd' \in 0 .. MaxAsks /\ Cardinality(Counted') <= crowd' /\ crowd <= crowd'
       /\ crowd \in Nat /\ crowd' \in Nat
  <2>1. Cardinality(asks') <= asked /\ asked <= MaxAsks /\ asked \in Nat /\ crowd \in 0 .. MaxAsks
        /\ MaxAsks \in Nat
    BY <1>0, <1>5, ProvFinite DEF AsksNumbered, ProvTyped
  <2> QED BY <1>9, <1>10, <2>1
<1>12. SeatsBounded'
  <2>1. CASE ~WithinPlan(s)
    <3>1. Cardinality(Counted') <= Cardinality(Counted) /\ Cardinality(Counted) <= crowd
          /\ Cardinality(Counted) \in Nat
      BY <1>8, <2>1, ProvFinite, NoMore DEF ProvInv, SeatsBounded
    <3>2. UNCHANGED crowd
      BY <1>9, <1>10, <1>11, <3>1
    <3> QED BY <1>6, <1>8, <2>1, <3>2, SeatsKept
  <2>2. CASE WithinPlan(s)
    <3>1. Cardinality(Live) < SeatLimit /\ SeatLimit \in Nat
      BY <1>2, <2>2, ProvisioningAssumption DEF WithinPlan
    <3>2. Cardinality(Counted') # 0
      BY <1>8, <1>9, <2>2, FS_EmptySet
    <3>3. crowd' >= 1 /\ Cardinality(Live') = Cardinality(Live)
      BY <1>6, <1>9, <1>11, <3>2
    <3>4. Cardinality(Live) + Cardinality(Counted') <= SeatLimit + (crowd' - 1)
      BY <1>1, <1>9, <1>11, <3>1, <3>3
    <3>5. OverrunBounded'
      BY <1>11, <3>3, <3>4 DEF OverrunBounded
    <3> QED BY <1>11, <3>5 DEF SeatsBounded
  <2> QED BY <2>1, <2>2
<1>13. RowsHeldOnce' /\ CountsCurrent' /\ AliasQuotaKept'
  BY <1>2, <1>3, <1>5, <1>6, AliasesKept
<1>14. ToldTrue' /\ ReadCurrent' /\ OwnWritesShown'
  BY <1>0, <1>2, <1>3, <1>5, <1>6, DeskKept DEF ViewKept
<1>15. ProvTyped' /\ LinksLive'
  BY <1>0, <1>5, <1>11 DEF ProvTyped, ProvInv, LinksLive
<1> QED BY <1>5, <1>7, <1>12, <1>13, <1>14, <1>15 DEF ProvInv

(* The mailbox that is made next is the first of those there are not. *)
LEMMA FreshFacts ==
  ASSUME ProvInv, NEW r \in InvitesOpen
  PROVE  \E k \in Boxes : /\ Used = 1 .. k /\ k + 1 \in Boxes /\ Fresh = k + 1
                          /\ k + Cardinality(InvitesOpen) <= asked + 1
<1>0. asked \in Nat /\ asked <= MaxAsks /\ MaxAsks \in Nat /\ IsFiniteSet(InvitesOpen)
      /\ Cardinality(InvitesOpen) \in Nat
  BY ProvFinite
<1>1. PICK k \in Boxes : Used = 1 .. k /\ k + Cardinality(InvitesOpen) <= asked + 1
  BY DEF ProvInv, BoxesCounted
<1>2. Cardinality(InvitesOpen) # 0
  BY <1>0, FS_EmptySet
<1>3. k + 1 \in Boxes /\ k \in Nat
  BY <1>0, <1>1, <1>2 DEF Boxes
<1>4. box[k + 1].st = "none"
  BY <1>1, <1>3 DEF Used
<1>5. \A j \in Boxes : box[j].st = "none" => k + 1 <= j
  BY <1>1, <1>3 DEF Used, Boxes
<1>6. \A i \in Boxes : (box[i].st = "none" /\ \A j \in Boxes : box[j].st = "none" => i <= j) => i = k + 1
  BY <1>3, <1>4, <1>5 DEF Boxes
<1>7. Fresh = k + 1
  BY <1>3, <1>4, <1>5, <1>6 DEF Fresh
<1> QED BY <1>1, <1>3, <1>7

(* An invitation within the plan makes the next mailbox, and leaves those *)
(* that are counted.                                                       *)
LEMMA InviteMade ==
  ASSUME ProvInv, NEW r \in asks, r.kind = "invite", r.at = "counted", WithinPlan(r),
         box' = [box EXCEPT ![Fresh] = [addr |-> r.name, st |-> "pending"]],
         invites' = [invites EXCEPT ![Fresh] = "live"],
         NEW at \in {"done", "failed"},
         asks' = (asks \ {r}) \cup {[r EXCEPT !.at = at, !.of = Fresh]},
         UNCHANGED <<aliases, claims, desk, asked, crowd>>
  PROVE  ProvInv'
<1>0. r \in Ask /\ AskAimed(r) /\ ProvTyped /\ r \in InvitesOpen /\ r \in Counted
  BY DEF ProvInv, ProvTyped, AsksAimed, InvitesOpen, Counted
<1>1. PICK k \in Boxes : /\ Used = 1 .. k /\ k + 1 \in Boxes /\ Fresh = k + 1
                         /\ k + Cardinality(InvitesOpen) <= asked + 1
  BY <1>0, FreshFacts
<1> DEFINE f == k + 1
           s == [r EXCEPT !.at = at, !.of = f]
<1>2. k \in Nat /\ f \in Boxes /\ f \notin Used
  BY <1>1, BoxFacts
<1>3. /\ s \in Ask /\ s.n = r.n /\ s.kind = "invite" /\ s.at = at /\ s.of = f /\ s.name = r.name
  BY <1>0, <1>2 DEF Ask
<1>4. asks' = (asks \ {r}) \cup {s}
  BY <1>1
<1>5. /\ box' = [box EXCEPT ![f] = [addr |-> r.name, st |-> "pending"]]
      /\ invites' = [invites EXCEPT ![f] = "live"]
  BY <1>1
<1>6. Used = 1 .. k /\ 1 .. f = (1 .. k) \cup {f}
  BY <1>1, <1>2
<1> HIDE DEF s, f
<1>7. AskAimed(s)
  BY <1>0, <1>2, <1>3 DEF AskAimed
<1>8. /\ asks' \subseteq Ask /\ AsksAimed' /\ AsksNumbered'
      /\ Cardinality(AliasesOpen') \in Nat /\ Cardinality(InvitesOpen') \in Nat
      /\ Cardinality(AliasesOpen') <= Cardinality(AliasesOpen)
      /\ Cardinality(InvitesOpen') <= Cardinality(InvitesOpen) - 1
  BY <1>0, <1>3, <1>4, <1>7, MovedCounts
<1>9. /\ box' \in [Boxes -> MailboxRow] /\ box'[f].st = "pending" /\ box[f].st = "none"
      /\ \A i \in Boxes : i # f => box'[i] = box[i]
  BY <1>0, <1>2, <1>5 DEF ProvTyped, MailboxRow, AskAimed, Used
<1>10. /\ invites' \in [Boxes -> LinkState] /\ invites'[f] = "live"
       /\ \A i \in Boxes : i # f => invites'[i] = invites[i]
  BY <1>0, <1>2, <1>5 DEF ProvTyped, LinkState
<1>11. /\ Used' = Used \cup {f} /\ Live' = Live \cup {f} /\ f \notin Live
       /\ \A i \in Boxes : AliasesOf(i)' = AliasesOf(i)
  BY <1>2, <1>9 DEF Used, Live, AliasesOf
<1>12. AliasesCounted'
  BY <1>8, ProvFinite DEF ProvInv, AliasesCounted
<1>13. BoxesCounted'
  <2>1. Used' = 1 .. f
    BY <1>6, <1>11
  <2>2. f + Cardinality(InvitesOpen') <= asked' + 1
    BY <1>1, <1>2, <1>8, ProvFinite DEF f
  <2> QED BY <1>2, <2>1, <2>2 DEF BoxesCounted
<1>14. SeatsBounded'
  <2>1. Counted' \subseteq (Counted \ {r}) \cup {s} /\ s \notin Counted'
    BY <1>3, <1>4 DEF Counted, WithinPlan
  <2>2. Cardinality(Counted') <= Cardinality(Counted) - 1 /\ Cardinality(Counted') \in Nat
        /\ Cardinality(Counted) \in Nat
    BY <1>0, <2>1, ProvFinite, Swapped
  <2>3. Cardinality(Live') <= Cardinality(Live) + 1 /\ Cardinality(Live') \in Nat
        /\ Cardinality(Live) \in Nat
    BY <1>11, ProvFinite, OneMore
  <2> DEFINE room == SeatLimit + (IF crowd = 0 THEN 0 ELSE crowd - 1)
  <2>4. room \in Nat /\ Cardinality(Live) + Cardinality(Counted) <= room /\ crowd \in Nat
        /\ Cardinality(Counted) <= crowd
    BY ProvFinite, ProvisioningAssumption DEF ProvInv, SeatsBounded, OverrunBounded
  <2>5. Cardinality(Counted') <= crowd'
    BY <2>2, <2>4
  <2>6. Cardinality(Live') + Cardinality(Counted') <= room
    <3> HIDE DEF room
    <3> QED BY <2>2, <2>3, <2>4
  <2> QED BY <2>5, <2>6 DEF SeatsBounded, OverrunBounded
<1>15. RowsHeldOnce' /\ CountsCurrent' /\ AliasQuotaKept'
  BY <1>3, <1>4, <1>8, <1>11, AliasesKept
<1>16. ToldTrue' /\ ReadCurrent' /\ OwnWritesShown'
  <2>1. \A i \in Boxes : box[i].st = "gone" => box'[i].st = "gone"
    BY <1>9
  <2>2. Used \subseteq Used' /\ Used \cap Live' \subseteq Live
    BY <1>2, <1>11
  <2>3. r.at \notin {"fetch", "read"} /\ s.of \in Used' /\ s.at \notin {"fetch", "read"}
    BY <1>3, <1>11
  <2> QED BY <1>3, <1>4, <1>8, <2>1, <2>2, <2>3, DeskKept DEF ViewKept
<1>17. ProvTyped' /\ LinksLive'
  BY <1>0, <1>8, <1>9, <1>10 DEF ProvTyped, ProvInv, LinksLive
<1> QED BY <1>8, <1>12, <1>13, <1>14, <1>15, <1>16, <1>17 DEF ProvInv

(* mailboxInviteHandler, whether the plan allows it or not. *)
LEMMA InviteStep ==
  ASSUME ProvInv, NEW r \in asks, mailboxInviteHandler(r)
  PROVE  ProvInv'
<1>1. CASE WithinPlan(r) /\ ~Taken(r.name)
  <2>1. PICK at \in {"done", "failed"} : asks' = (asks \ {r}) \cup {[r EXCEPT !.at = at,
                                                                    !.of = Fresh]}
    BY <1>1 DEF mailboxInviteHandler
  <2> QED BY <1>1, <2>1, InviteMade DEF mailboxInviteHandler
<1>2. CASE ~(WithinPlan(r) /\ ~Taken(r.name))
  BY <1>2, EndsStep DEF mailboxInviteHandler
<1> QED BY <1>1, <1>2

(* A transaction takes the row of its mailbox, which nobody holds. *)
LEMMA RowTaken ==
  ASSUME ProvInv, NEW r \in asks, r.at = "sent", r.kind \in {"delete", "alias"}, Unlocked(r.of),
         NEW s \in Ask, s.n = r.n, s.kind = r.kind, s.of = r.of, s.name = r.name,
         \/ s.at = "locked" /\ r.kind = "delete" /\ r.of \in Live
         \/ s.at = "counted" /\ r.kind = "alias" /\ s.seen = Cardinality(AliasesOf(r.of)),
         asks' = (asks \ {r}) \cup {s}, UNCHANGED <<tables, claims, desk, asked, crowd>>
  PROVE  ProvInv'
<1>0. /\ AskAimed(r) /\ ProvTyped /\ r.of \in Boxes
      /\ UNCHANGED <<box, invites, aliases, claims, desk, asked, crowd>>
  BY DEF ProvInv, ProvTyped, AsksAimed, AskAimed, tables
<1>1. AskAimed(s)
  BY <1>0 DEF AskAimed
<1>2. /\ asks' \subseteq Ask /\ AsksAimed' /\ AsksNumbered'
      /\ Cardinality(AliasesOpen') \in Nat /\ Cardinality(InvitesOpen') \in Nat
      /\ Cardinality(AliasesOpen') <= Cardinality(AliasesOpen)
      /\ Cardinality(InvitesOpen') <= Cardinality(InvitesOpen)
  BY <1>1, MovedCounts
<1>3. /\ Used' = Used /\ Live' = Live /\ Counted' \subseteq Counted
      /\ \A i \in Boxes : AliasesOf(i)' = AliasesOf(i)
  BY <1>0 DEF Used, Live, Counted, AliasesOf, WithinPlan
<1>4. AliasesCounted' /\ BoxesCounted'
  <2>1. asked' \in Nat /\ asked <= asked' /\ asked' - asked = 0
    BY <1>0, ProvFinite
  <2>2. IsFiniteSet(aliases') /\ Cardinality(aliases') <= Cardinality(aliases)
    BY <1>0, ProvFinite
  <2> QED BY <1>2, <1>3, <2>1, <2>2, ProvFinite, CountsKept
<1>5. SeatsBounded'
  BY <1>0, <1>3, SeatsKept
<1>6. RowsHeldOnce'
  <2>1. ASSUME NEW i \in Boxes, NEW t \in Holders(i)', NEW u \in Holders(i)' PROVE t = u
    <3>1. CASE i = r.of
      <4>1. \A v \in Holders(i)' : v = s
        BY <3>1 DEF Holders, Unlocked
      <4> QED BY <4>1
    <3>2. CASE i # r.of
      <4>1. Holders(i)' \subseteq Holders(i)
        BY <3>2 DEF Holders
      <4> QED BY <4>1 DEF ProvInv, RowsHeldOnce
    <3> QED BY <3>1, <3>2
  <2>2. ASSUME NEW t \in asks', t.at = "locked" PROVE t.of \in Used'
    <3>1. CASE t = s
      BY <1>3, <2>2, <3>1 DEF Live, Used
    <3>2. CASE t # s
      BY <1>3, <2>2, <3>2 DEF ProvInv, RowsHeldOnce
    <3> QED BY <3>1, <3>2
  <2> QED BY <2>1, <2>2 DEF RowsHeldOnce
<1>7. CountsCurrent'
  <2> SUFFICES ASSUME NEW t \in asks', t.kind = "alias", t.at = "counted"
               PROVE  Cardinality(AliasesOf(t.of)') <= t.seen
    BY DEF CountsCurrent
  <2>1. t.of \in Boxes
    BY <1>2 DEF AsksAimed, AskAimed
  <2>2. CASE t = s
    <3>1. t.seen = Cardinality(AliasesOf(t.of)) /\ Cardinality(AliasesOf(t.of)) \in Nat
      BY <2>1, <2>2, ProvFinite
    <3> QED BY <1>3, <2>1, <3>1
  <2>3. CASE t # s
    BY <1>3, <2>1, <2>3 DEF ProvInv, CountsCurrent
  <2> QED BY <2>2, <2>3
<1>8. AliasQuotaKept'
  BY <1>3 DEF ProvInv, AliasQuotaKept
<1>9. ToldTrue' /\ ReadCurrent' /\ OwnWritesShown'
  <2>1. r.at \notin {"fetch", "read"} /\ s.at \notin {"done", "fetch", "read"}
    OBVIOUS
  <2> QED BY <1>0, <1>2, <1>3, <2>1, DeskKept DEF ViewKept
<1>10. ProvTyped' /\ LinksLive'
  BY <1>0, <1>2 DEF ProvTyped, ProvInv, LinksLive
<1> QED BY <1>2, <1>4, <1>5, <1>6, <1>7, <1>8, <1>9, <1>10 DEF ProvInv

(* deleteMailbox and mailboxAliasesHandler take the row of the mailbox. *)
LEMMA LockStep ==
  ASSUME ProvInv, NEW r \in asks, LockMailbox(r) \/ LockAndCount(r)
  PROVE  ProvInv'
<1>0. r \in Ask /\ AskAimed(r)
  BY DEF ProvInv, ProvTyped, AsksAimed
<1>1. CASE LockMailbox(r) /\ r.of \in Live
  <2> DEFINE s == [r EXCEPT !.at = "locked"]
  <2>1. s \in Ask /\ s.n = r.n /\ s.kind = r.kind /\ s.of = r.of /\ s.name = r.name /\ s.at = "locked"
    BY <1>0 DEF Ask
  <2>2. asks' = (asks \ {r}) \cup {s}
    BY <1>1 DEF LockMailbox, Step
  <2> HIDE DEF s
  <2> QED BY <1>1, <2>1, <2>2, RowTaken DEF LockMailbox
<1>2. CASE LockMailbox(r) /\ r.of \notin Live
  BY <1>2, EndsStep DEF LockMailbox, tables
<1>3. CASE LockAndCount(r)
  <2> DEFINE s == [r EXCEPT !.at = "counted", !.seen = Cardinality(AliasesOf(r.of))]
  <2>1. Cardinality(AliasesOf(r.of)) \in 0 .. MaxAsks + 1
    <3>1. r.of \in Boxes
      BY <1>0, <1>3 DEF LockAndCount, AskAimed
    <3>2. Cardinality(AliasesOf(r.of)) \in Nat /\ Cardinality(AliasesOf(r.of)) <= Cardinality(aliases)
          /\ Cardinality(aliases) \in Nat /\ Cardinality(AliasesOpen) \in Nat
          /\ asked \in Nat /\ MaxAsks \in Nat /\ asked <= MaxAsks
      BY <3>1, ProvFinite
    <3>3. Cardinality(aliases) + Cardinality(AliasesOpen) <= asked
      BY DEF ProvInv, AliasesCounted
    <3> QED BY <3>2, <3>3
  <2>2. s \in Ask /\ s.n = r.n /\ s.kind = r.kind /\ s.of = r.of /\ s.name = r.name /\ s.at = "counted"
        /\ s.seen = Cardinality(AliasesOf(r.of))
    BY <1>0, <2>1 DEF Ask
  <2>3. asks' = (asks \ {r}) \cup {s}
    BY <1>3 DEF LockAndCount
  <2> HIDE DEF s
  <2> QED BY <1>3, <2>2, <2>3, RowTaken DEF LockAndCount
<1> QED BY <1>1, <1>2, <1>3

(* Switching off the aliases of a mailbox adds none. *)
LEMMA SwitchedOff ==
  ASSUME ProvInv, NEW b \in Boxes,
         aliases' = {IF a.of = b THEN [a EXCEPT !.on = FALSE] ELSE a : a \in aliases}
  PROVE  /\ aliases' \subseteq Alias /\ IsFiniteSet(aliases') /\ Cardinality(aliases') <= Cardinality(aliases)
         /\ \A i \in Boxes : AliasesOf(i)' \subseteq AliasesOf(i)
<1>0. aliases \subseteq Alias /\ IsFiniteSet(aliases)
  BY ProvFinite DEF ProvInv, ProvTyped
<1>1. aliases' \subseteq Alias
  BY <1>0 DEF Alias
<1>2. ASSUME NEW i \in Boxes PROVE AliasesOf(i)' \subseteq AliasesOf(i)
  BY <1>0 DEF AliasesOf, Alias
<1>3. IsFiniteSet(aliases') /\ Cardinality(aliases') <= Cardinality(aliases)
  <2> DEFINE f == [a \in aliases |-> IF a.of = b THEN [a EXCEPT !.on = FALSE] ELSE a]
             T == {IF a.of = b THEN [a EXCEPT !.on = FALSE] ELSE a : a \in aliases}
  <2>1. f \in Surjection(aliases, T)
    BY DEF Surjection
  <2> HIDE DEF f, T
  <2>2. IsFiniteSet(T) /\ Cardinality(T) <= Cardinality(aliases)
    BY <1>0, <2>1, FS_Surjection
  <2> QED BY <2>2 DEF T
<1> QED BY <1>1, <1>2, <1>3

(* deleteMailbox, once it has both rows: nothing of the mailbox is left   *)
(* that a claim could bring back.                                         *)
LEMMA DecommissionKeeps ==
  ASSUME ProvInv, NEW r \in asks, r.kind = "delete", r.at = "locked", Decommission(r),
         claims' \subseteq claims, r.of \notin claims', UNCHANGED <<desk, asked, crowd>>
  PROVE  ProvInv'
<1>0. r \in Ask /\ AskAimed(r) /\ ProvTyped /\ r.of \in Boxes /\ r.of \in Used
  BY DEF ProvInv, ProvTyped, AsksAimed, AskAimed, RowsHeldOnce
<1>1. PICK at \in {"done", "failed"} : Step(r, at)
  BY DEF Decommission, Told
<1> DEFINE s == [r EXCEPT !.at = at]
<1>2. s \in Ask /\ s.n = r.n /\ s.kind = "delete" /\ s.of = r.of /\ s.name = r.name /\ s.at = at
  BY <1>0 DEF Ask
<1>3. asks' = (asks \ {r}) \cup {s}
  BY <1>1 DEF Step
<1> HIDE DEF s
<1>4. AskAimed(s)
  BY <1>0, <1>2 DEF AskAimed
<1>5. /\ asks' \subseteq Ask /\ AsksAimed' /\ AsksNumbered'
      /\ Cardinality(AliasesOpen') \in Nat /\ Cardinality(InvitesOpen') \in Nat
      /\ Cardinality(AliasesOpen') <= Cardinality(AliasesOpen)
      /\ Cardinality(InvitesOpen') <= Cardinality(InvitesOpen)
  BY <1>2, <1>3, <1>4, MovedCounts
<1>6. /\ box' \in [Boxes -> MailboxRow] /\ box'[r.of].st = "gone"
      /\ \A i \in Boxes : i # r.of => box'[i] = box[i]
  BY <1>0 DEF ProvTyped, MailboxRow, Decommission
<1>7. /\ invites' \in [Boxes -> LinkState] /\ invites'[r.of] # "live"
      /\ \A i \in Boxes : i # r.of => invites'[i] = invites[i]
  BY <1>0 DEF ProvTyped, LinkState, Decommission
<1>8. /\ aliases' \subseteq Alias /\ IsFiniteSet(aliases') /\ Cardinality(aliases') <= Cardinality(aliases)
      /\ \A i \in Boxes : AliasesOf(i)' \subseteq AliasesOf(i)
  BY <1>0, SwitchedOff DEF Decommission
<1>9. Used' = Used /\ Live' \subseteq Live
  BY <1>0, <1>6 DEF Used, Live
<1>10. Counted' \subseteq Counted
  BY <1>2, <1>3 DEF Counted, WithinPlan
<1>11. AliasesCounted' /\ BoxesCounted'
  <2>1. asked' \in Nat /\ asked <= asked' /\ asked' - asked = 0
    BY ProvFinite
  <2> QED BY <1>5, <1>8, <1>9, <2>1, ProvFinite, CountsKept
<1>12. SeatsBounded'
  BY <1>9, <1>10, SeatsKept
<1>13. RowsHeldOnce' /\ CountsCurrent' /\ AliasQuotaKept'
  BY <1>2, <1>3, <1>5, <1>8, <1>9, AliasesKept
<1>14. ToldTrue' /\ ReadCurrent' /\ OwnWritesShown'
  <2>1. r.at \notin {"fetch", "read"} /\ s.at \notin {"fetch", "read"} /\ box'[s.of].st = "gone"
        /\ s.kind # "invite"
    BY <1>2, <1>6
  <2>2. \A i \in Boxes : box[i].st = "gone" => box'[i].st = "gone"
    BY <1>6
  <2> QED BY <1>3, <1>5, <1>9, <2>1, <2>2, DeskKept DEF ViewKept
<1>15. ProvTyped'
  BY <1>0, <1>5, <1>6, <1>7, <1>8 DEF ProvTyped
<1>16. LinksLive'
  BY <1>0, <1>6, <1>7 DEF ProvTyped, ProvInv, LinksLive
<1> QED BY <1>5, <1>11, <1>12, <1>13, <1>14, <1>15, <1>16 DEF ProvInv

(* deleteMailbox, also when it and a claim wait for each other. *)
LEMMA DeleteStep ==
  ASSUME ProvInv, NEW r \in asks, deleteMailbox(r) \/ DeadlockBroken(r)
  PROVE  ProvInv'
<1>1. CASE deleteMailbox(r)
  BY <1>1, DecommissionKeeps DEF deleteMailbox
<1>2. CASE DeadlockBroken(r) /\ Step(r, "failed") /\ UNCHANGED <<tables, claims>>
  BY <1>2, EndsStep DEF DeadlockBroken, tables
<1>3. CASE DeadlockBroken(r) /\ Decommission(r) /\ claims' = claims \ {r.of}
  BY <1>3, DecommissionKeeps DEF DeadlockBroken
<1> QED BY <1>1, <1>2, <1>3 DEF DeadlockBroken

(* mailboxAliasesHandler inserts under the row's lock: what it counted    *)
(* still bounds the aliases of the mailbox.                               *)
LEMMA AliasMade ==
  ASSUME ProvInv, NEW r \in asks, r.kind = "alias", r.at = "counted", r.seen < AliasLimit,
         aliases' = aliases \cup {[id |-> r.n, name |-> r.name, of |-> r.of, on |-> TRUE]},
         Told(r), UNCHANGED <<box, invites, claims, desk, asked, crowd>>
  PROVE  ProvInv'
<1>0. r \in Ask /\ AskAimed(r) /\ ProvTyped /\ r.of \in Boxes /\ r \in AliasesOpen
  BY DEF ProvInv, ProvTyped, AsksAimed, AskAimed, AliasesOpen
<1>1. PICK at \in {"done", "failed"} : Step(r, at)
  BY DEF Told
<1> DEFINE s == [r EXCEPT !.at = at]
           a == [id |-> r.n, name |-> r.name, of |-> r.of, on |-> TRUE]
<1>2. s \in Ask /\ s.n = r.n /\ s.kind = "alias" /\ s.of = r.of /\ s.name = r.name /\ s.at = at
  BY <1>0 DEF Ask
<1>3. asks' = (asks \ {r}) \cup {s}
  BY <1>1 DEF Step
<1>4. a \in Alias /\ a.of = r.of
  BY <1>0 DEF Alias, Ask, AskAimed
<1>5. aliases' = aliases \cup {a}
  OBVIOUS
<1> HIDE DEF s, a
<1>6. AskAimed(s)
  BY <1>0, <1>2 DEF AskAimed
<1>7. /\ asks' \subseteq Ask /\ AsksAimed' /\ AsksNumbered'
      /\ Cardinality(AliasesOpen') \in Nat /\ Cardinality(InvitesOpen') \in Nat
      /\ Cardinality(AliasesOpen') <= Cardinality(AliasesOpen) - 1
      /\ Cardinality(InvitesOpen') <= Cardinality(InvitesOpen)
  BY <1>0, <1>2, <1>3, <1>6, MovedCounts
<1>8. Used' = Used /\ Live' = Live /\ Counted' \subseteq Counted
  BY <1>2, <1>3 DEF Used, Live, Counted, WithinPlan
<1>9. AliasesCounted'
  <2>1. IsFiniteSet(aliases') /\ Cardinality(aliases') <= Cardinality(aliases) + 1
        /\ Cardinality(aliases') \in Nat /\ Cardinality(aliases) \in Nat
    <3> DEFINE T == aliases \cup {a}
    <3>1. IsFiniteSet(T) /\ Cardinality(T) <= Cardinality(aliases) + 1
          /\ Cardinality(T) \in Nat /\ Cardinality(aliases) \in Nat
      BY ProvFinite, OneMore
    <3>2. aliases' = T
      BY <1>5
    <3> HIDE DEF T
    <3> QED BY <3>1, <3>2
  <2> QED BY <1>7, <2>1, ProvFinite DEF ProvInv, AliasesCounted
<1>10. BoxesCounted'
  <2>1. asked' \in Nat /\ asked <= asked' /\ asked' - asked = 0
    BY ProvFinite
  <2> QED BY <1>7, <1>8, <2>1, ProvFinite, BoxesKept
<1>11. SeatsBounded'
  BY <1>8, SeatsKept
<1>12. /\ \A i \in Boxes : Holders(i)' \subseteq Holders(i)
       /\ r \in Holders(r.of) /\ r \notin asks'
  BY <1>2, <1>3 DEF Holders
<1>13. RowsHeldOnce'
  BY <1>2, <1>3, <1>8, <1>12 DEF ProvInv, RowsHeldOnce
<1>14. \A i \in Boxes : i # r.of => AliasesOf(i)' = AliasesOf(i)
  BY <1>4, <1>5 DEF AliasesOf
<1>15. CountsCurrent'
  <2> SUFFICES ASSUME NEW t \in asks', t.kind = "alias", t.at = "counted"
               PROVE  Cardinality(AliasesOf(t.of)') <= t.seen
    BY DEF CountsCurrent
  <2>1. t \in asks /\ t.of \in Boxes /\ t \in Holders(t.of) /\ t # r
    BY <1>2, <1>3, <1>7, <1>12 DEF AsksAimed, AskAimed, Holders
  <2>2. t.of # r.of
    BY <1>0, <1>12, <2>1 DEF ProvInv, RowsHeldOnce
  <2>3. Cardinality(AliasesOf(t.of)) <= t.seen
    BY <2>1 DEF ProvInv, CountsCurrent
  <2> QED BY <1>14, <2>1, <2>2, <2>3
<1>16. AliasQuotaKept'
  <2>1. AliasesOf(r.of)' \subseteq AliasesOf(r.of) \cup {a}
    BY <1>5 DEF AliasesOf
  <2>2. IsFiniteSet(AliasesOf(r.of)) /\ Cardinality(AliasesOf(r.of)) \in Nat
    BY <1>0, ProvFinite
  <2> DEFINE T == AliasesOf(r.of) \cup {a}
  <2>3. IsFiniteSet(T) /\ Cardinality(T) <= Cardinality(AliasesOf(r.of)) + 1 /\ Cardinality(T) \in Nat
    BY <2>2, OneMore
  <2> HIDE DEF T
  <2>4. Cardinality(AliasesOf(r.of)') <= Cardinality(T) /\ Cardinality(AliasesOf(r.of)') \in Nat
    BY <2>1, <2>3, NoMore DEF T
  <2>5. Cardinality(AliasesOf(r.of)) <= r.seen /\ r.seen \in Nat /\ AliasLimit \in Nat
    BY <1>0, ProvisioningAssumption DEF ProvInv, CountsCurrent, Ask
  <2>6. Cardinality(AliasesOf(r.of)') <= AliasLimit
    BY <2>2, <2>3, <2>4, <2>5
  <2> QED BY <1>14, <2>6 DEF ProvInv, AliasQuotaKept
<1>17. ToldTrue' /\ ReadCurrent' /\ OwnWritesShown'
  <2>1. r.at \notin {"fetch", "read"} /\ s.at \notin {"fetch", "read"} /\ s.kind \notin {"invite",
          "delete"}
    BY <1>2
  <2> QED BY <1>3, <1>7, <1>8, <2>1, DeskKept DEF ViewKept
<1>18. ProvTyped' /\ LinksLive'
  BY <1>0, <1>4, <1>5, <1>7 DEF ProvTyped, ProvInv, LinksLive
<1> QED BY <1>7, <1>9, <1>10, <1>11, <1>13, <1>15, <1>16, <1>17, <1>18 DEF ProvInv

(* An alias is made or released. *)
LEMMA AliasStep ==
  ASSUME ProvInv, NEW r \in asks, mailboxAliasesHandler(r) \/ mailboxAliasItemHandler(r)
  PROVE  ProvInv'
<1>1. CASE mailboxAliasesHandler(r) /\ r.seen < AliasLimit /\ \A a \in aliases : a.name # r.name
  BY <1>1, AliasMade DEF mailboxAliasesHandler
<1>2. CASE mailboxAliasesHandler(r) /\ ~(r.seen < AliasLimit /\ \A a \in aliases : a.name # r.name)
  BY <1>2, EndsStep DEF mailboxAliasesHandler
<1>3. CASE mailboxAliasItemHandler(r)
  <2>1. aliases' \subseteq aliases /\ (Step(r, "done") \/ Step(r, "failed"))
    BY <1>3 DEF mailboxAliasItemHandler, Told
  <2> QED BY <1>3, <2>1, EndsStep DEF mailboxAliasItemHandler
<1> QED BY <1>1, <1>2, <1>3

(* A request that only reads, or is refused. *)
LEMMA PlainEndStep ==
  ASSUME ProvInv, NEW r \in asks, openMailboxSecret(r) \/ Refused(r)
  PROVE  ProvInv'
<1>1. CASE openMailboxSecret(r)
  BY <1>1, EndsStep DEF openMailboxSecret, Told, tables
<1>2. CASE Refused(r)
  BY <1>2, EndsStep DEF Refused, tables
<1> QED BY <1>1, <1>2

(* A fetch is answered with what there is now, which agrees with what the *)
(* page was told.                                                         *)
LEMMA ServeFetchStep ==
  ASSUME ProvInv, NEW r \in asks, ServeFetch(r)
  PROVE  ProvInv'
<1>0. /\ r \in Ask /\ AskAimed(r) /\ ProvTyped /\ r.at = "fetch"
      /\ UNCHANGED <<box, invites, aliases, claims, desk, asked, crowd>>
  BY DEF ProvInv, ProvTyped, AsksAimed, ServeFetch, tables
<1>1. PICK ok \in BOOLEAN :
        asks' = (asks \ {r}) \cup
             {[r EXCEPT !.at = "read",
                        !.got = [list |-> IF ok /\ Head(r.todo) = "list" THEN Live ELSE {},
                                 aliases |-> IF ok /\ Head(r.todo) = "aliases"
                                             THEN {a \in aliases : a.of \in Live} ELSE {},
                                 used |-> IF ok /\ Head(r.todo) = "billing" THEN Cardinality(Live) ELSE None,
                                 ok |-> ok]]}
  BY DEF ServeFetch
<1> DEFINE got == [list |-> IF ok /\ Head(r.todo) = "list" THEN Live ELSE {},
                   aliases |-> IF ok /\ Head(r.todo) = "aliases"
                               THEN {a \in aliases : a.of \in Live} ELSE {},
                   used |-> IF ok /\ Head(r.todo) = "billing" THEN Cardinality(Live) ELSE None,
                   ok |-> ok]
           s == [r EXCEPT !.at = "read", !.got = got]
<1>2. got \in [list : SUBSET Boxes, aliases : SUBSET Alias, used : 0 .. MaxAsks + 1, ok : BOOLEAN]
  <2>1. Live \subseteq Boxes /\ Cardinality(Live) \in 0 .. MaxAsks + 1 /\ 0 \in 0 .. MaxAsks + 1
    BY BoxFacts DEF Live
  <2>2. aliases \subseteq Alias
    BY <1>0 DEF ProvTyped
  <2> QED BY <2>1, <2>2 DEF None
<1>3. got.ok /\ Head(r.todo) = "list" => got.list = Live
  OBVIOUS
<1> HIDE DEF got
<1>4. /\ s \in Ask /\ s.n = r.n /\ s.by = r.by /\ s.kind = r.kind /\ s.of = r.of /\ s.name = r.name
      /\ s.at = "read" /\ s.todo = r.todo /\ s.got = got
  BY <1>0, <1>2 DEF Ask
<1>5. asks' = (asks \ {r}) \cup {s}
  BY <1>1 DEF got
<1> HIDE DEF s
<1>6. AskAimed(s)
  BY <1>0, <1>4 DEF AskAimed
<1>7. /\ asks' \subseteq Ask /\ AsksAimed' /\ AsksNumbered'
      /\ Cardinality(AliasesOpen') \in Nat /\ Cardinality(InvitesOpen') \in Nat
      /\ Cardinality(AliasesOpen') <= Cardinality(AliasesOpen)
      /\ Cardinality(InvitesOpen') <= Cardinality(InvitesOpen)
  BY <1>0, <1>4, <1>5, <1>6, MovedCounts
<1>8. /\ Used' = Used /\ Live' = Live /\ Counted' \subseteq Counted
      /\ \A i \in Boxes : AliasesOf(i)' = AliasesOf(i)
  BY <1>0, <1>4, <1>5 DEF Used, Live, Counted, AliasesOf, WithinPlan
<1>9. AliasesCounted' /\ BoxesCounted'
  <2>1. asked' \in Nat /\ asked <= asked' /\ asked' - asked = 0
    BY <1>0, ProvFinite
  <2>2. IsFiniteSet(aliases') /\ Cardinality(aliases') <= Cardinality(aliases)
    BY <1>0, ProvFinite
  <2> QED BY <1>7, <1>8, <2>1, <2>2, ProvFinite, CountsKept
<1>10. SeatsBounded'
  BY <1>0, <1>8, SeatsKept
<1>11. RowsHeldOnce' /\ CountsCurrent' /\ AliasQuotaKept'
  BY <1>4, <1>5, <1>7, <1>8, AliasesKept
<1>12. ToldTrue'
  BY <1>0, <1>4, <1>5, <1>8 DEF ProvInv, ToldTrue
<1>13. ReadCurrent'
  <2> SUFFICES ASSUME NEW t \in asks', t.at = "read", Head(t.todo) = "list",
                      desk[t.by].last["list"] = t.n, t.got.ok
               PROVE  /\ t.got.list \cap desk[t.by].removed = {}
                      /\ desk[t.by].made \cap Live \subseteq t.got.list
    BY <1>0, <1>8 DEF ReadCurrent
  <2>1. CASE t = s
    <3>1. t.got.list = Live
      BY <1>3, <1>4, <2>1
    <3>2. t.by \in Admins
      BY <1>7 DEF Ask
    <3>3. \A i \in desk[t.by].removed : box[i].st = "gone"
      BY <3>2 DEF ProvInv, ToldTrue
    <3> QED BY <3>1, <3>3 DEF Live
  <2>2. CASE t # s
    BY <1>5, <2>2 DEF ProvInv, ReadCurrent
  <2> QED BY <2>1, <2>2
<1>14. OwnWritesShown'
  <2>1. ASSUME NEW g \in Admins, Loading(g, "list") PROVE Loading(g, "list")'
    <3>1. PICK t \in asks : t.by = g /\ t.at \in {"fetch", "read"} /\ Head(t.todo) = "list"
                            /\ desk[g].last["list"] = t.n
      BY <2>1 DEF Loading
    <3>2. PICK u \in asks' : u.by = g /\ u.at \in {"fetch", "read"} /\ Head(u.todo) = "list"
                             /\ desk[g].last["list"] = u.n
      BY <1>4, <1>5, <3>1
    <3> QED BY <1>0, <3>2 DEF Loading
  <2> QED BY <1>0, <1>8, <2>1 DEF ProvInv, OwnWritesShown
<1>15. ProvTyped' /\ LinksLive'
  BY <1>0, <1>7 DEF ProvTyped, ProvInv, LinksLive
<1> QED BY <1>7, <1>9, <1>10, <1>11, <1>12, <1>13, <1>14, <1>15 DEF ProvInv

(* The handler of a page goes on with its next fetch, or ends: neither    *)
(* the list nor what the page was told changes but as d has them.         *)
Resumed(r, todo, d) ==
  /\ desk' \in [Admins -> Desk]
  /\ \A g \in Admins : g # r.by => desk'[g] = desk[g]
  /\ desk'[r.by].list = d.list /\ desk'[r.by].fresh = d.fresh
  /\ desk'[r.by].made = d.made /\ desk'[r.by].removed = d.removed
  /\ desk'[r.by].last["list"] =
       IF todo # <<>> /\ Head(todo) = "list" THEN r.n ELSE d.last["list"]

(* finally: what the handler marked is cleared, nothing else. *)
LEMMA EndedFacts ==
  ASSUME NEW r \in Ask, NEW d \in Desk
  PROVE  /\ Ended(d, r) \in Desk
         /\ Ended(d, r).list = d.list /\ Ended(d, r).fresh = d.fresh /\ Ended(d, r).last = d.last
         /\ Ended(d, r).made = d.made /\ Ended(d, r).removed = d.removed
<1> DEFINE Alike(e) == /\ e \in Desk /\ e.list = d.list /\ e.fresh = d.fresh /\ e.last = d.last
                       /\ e.made = d.made /\ e.removed = d.removed
<1>0. MaxAsks \in Nat
  BY ProvisioningAssumption
<1>1. /\ Alike([d EXCEPT !.creating = FALSE]) /\ Alike([d EXCEPT !.deleting = FALSE])
      /\ Alike([d EXCEPT !.aliasing = FALSE]) /\ Alike([d EXCEPT !.recovering = FALSE])
  BY DEF Desk
<1>2. Alike([d EXCEPT !.dropping = None])
  BY <1>0 DEF Desk, None
<1>3. r.kind \in {"invite", "delete", "alias", "unalias", "recover"}
  BY DEF Ask
<1> HIDE DEF Alike
<1>4. Alike(Ended(d, r))
  BY <1>1, <1>2, <1>3 DEF Ended
<1> QED BY <1>4 DEF Alike

(* What Resume does to a page. *)
LEMMA ResumedPage ==
  ASSUME NEW r \in Ask, NEW d \in Desk, NEW todo \in Todos \cup {<<>>},
         Resume(r, todo, d), desk \in [Admins -> Desk]
  PROVE  Resumed(r, todo, d)
<1>0. r.by \in Admins /\ r.n \in 0 .. MaxAsks
  BY ProvisioningAssumption DEF Ask
<1>1. CASE todo = <<>>
  <2> DEFINE e == Ended(d, r)
  <2>1. /\ e \in Desk /\ e.list = d.list /\ e.fresh = d.fresh /\ e.last = d.last
        /\ e.made = d.made /\ e.removed = d.removed
    BY EndedFacts
  <2>2. desk' = [desk EXCEPT ![r.by] = e]
    BY <1>1 DEF Resume
  <2> HIDE DEF e
  <2> QED BY <1>0, <1>1, <2>1, <2>2 DEF Resumed
<1>2. CASE todo # <<>>
  <2> DEFINE e == [d EXCEPT !.last[Head(todo)] = r.n]
  <2>1. Head(todo) \in Resources /\ "list" \in Resources
    BY <1>2, TodoFacts DEF Resources
  <2>2. d.last \in [Resources -> 0 .. MaxAsks]
    BY DEF Desk
  <2>3. /\ e \in Desk /\ e.list = d.list /\ e.fresh = d.fresh
        /\ e.made = d.made /\ e.removed = d.removed
        /\ e.last["list"] = IF Head(todo) = "list" THEN r.n ELSE d.last["list"]
    BY <1>0, <2>1, <2>2 DEF Desk
  <2>4. desk' = [desk EXCEPT ![r.by] = e]
    BY <1>2 DEF Resume
  <2> HIDE DEF e
  <2> QED BY <1>0, <1>2, <2>3, <2>4 DEF Resumed
<1> QED BY <1>1, <1>2

(* A handler that goes on leaves the server's side of the invariant.      *)
LEMMA ResumeKeeps ==
  ASSUME ProvInv, NEW r \in asks, r.at \in {"done", "failed", "read"},
         NEW d \in Desk, NEW todo \in Todos \cup {<<>>}, todo # <<>> => r.of \in Boxes,
         Resume(r, todo, d), UNCHANGED <<tables, claims, asked, crowd>>
  PROVE  /\ ProvTyped' /\ AsksAimed' /\ AsksNumbered' /\ AliasesCounted' /\ BoxesCounted'
         /\ LinksLive' /\ SeatsBounded' /\ RowsHeldOnce' /\ CountsCurrent' /\ AliasQuotaKept'
         /\ Resumed(r, todo, d)
         /\ \A t \in asks' : \/ t \in asks /\ t # r
                             \/ /\ todo # <<>> /\ t.n = r.n /\ t.by = r.by /\ t.kind = r.kind
                                /\ t.of = r.of /\ t.at = "fetch" /\ t.todo = todo
         /\ todo # <<>> => \E t \in asks' : t.n = r.n /\ t.by = r.by /\ t.at = "fetch" /\ t.todo = todo
         /\ \A t \in asks : t # r => t \in asks'
<1>0. /\ r \in Ask /\ AskAimed(r) /\ ProvTyped /\ desk \in [Admins -> Desk]
      /\ UNCHANGED <<box, invites, aliases, claims, asked, crowd>>
  BY DEF ProvInv, ProvTyped, AsksAimed, tables
<1>1. Resumed(r, todo, d)
  BY <1>0, ResumedPage
<1> DEFINE s == IF todo = <<>> THEN [r EXCEPT !.at = "failed"]
                ELSE [r EXCEPT !.at = "fetch", !.todo = todo, !.got = Unread]
<1>2. Unread \in [list : SUBSET Boxes, aliases : SUBSET Alias, used : 0 .. MaxAsks + 1, ok : BOOLEAN]
  BY ProvisioningAssumption DEF Unread, None
<1>3. todo \in Seq(Resources)
  <2>1. CASE todo \in Todos
    BY <2>1, TodoFacts
  <2>2. CASE todo = <<>>
    BY <2>2
  <2> QED BY <2>1, <2>2
<1>4. /\ s \in Ask /\ s.n = r.n /\ s.by = r.by /\ s.kind = r.kind /\ s.of = r.of /\ s.name = r.name
      /\ s.at \in {"failed", "fetch"}
      /\ todo # <<>> => (s.at = "fetch" /\ s.todo = todo)
      /\ todo = <<>> => s.at = "failed"
  BY <1>0, <1>2, <1>3 DEF Ask
<1>5. /\ asks' \subseteq (asks \ {r}) \cup {s} /\ asks \ {r} \subseteq asks'
      /\ todo # <<>> => s \in asks'
      /\ todo = <<>> => asks' \subseteq asks \ {r}
  BY DEF Resume
<1> HIDE DEF s
<1>6. AskAimed(s)
  BY <1>0, <1>4 DEF AskAimed
<1>7. /\ asks' \subseteq Ask /\ AsksAimed' /\ AsksNumbered'
      /\ Cardinality(AliasesOpen') \in Nat /\ Cardinality(InvitesOpen') \in Nat
      /\ Cardinality(AliasesOpen') <= Cardinality(AliasesOpen)
      /\ Cardinality(InvitesOpen') <= Cardinality(InvitesOpen)
  BY <1>0, <1>4, <1>5, <1>6, MovedCounts
<1>8. /\ Used' = Used /\ Live' = Live /\ Counted' \subseteq Counted
      /\ \A i \in Boxes : AliasesOf(i)' = AliasesOf(i)
  BY <1>0, <1>4, <1>5 DEF Used, Live, Counted, AliasesOf, WithinPlan
<1>9. AliasesCounted' /\ BoxesCounted'
  <2>1. asked' \in Nat /\ asked <= asked' /\ asked' - asked = 0
    BY <1>0, ProvFinite
  <2>2. IsFiniteSet(aliases') /\ Cardinality(aliases') <= Cardinality(aliases)
    BY <1>0, ProvFinite
  <2> QED BY <1>7, <1>8, <2>1, <2>2, ProvFinite, CountsKept
<1>10. SeatsBounded'
  BY <1>0, <1>8, SeatsKept
<1>11. RowsHeldOnce' /\ CountsCurrent' /\ AliasQuotaKept'
  BY <1>4, <1>5, <1>7, <1>8, AliasesKept
<1>12. ProvTyped' /\ LinksLive'
  BY <1>0, <1>1, <1>7 DEF ProvTyped, ProvInv, LinksLive, Resumed
<1>13. \A t \in asks' : \/ t \in asks /\ t # r
                        \/ /\ todo # <<>> /\ t.n = r.n /\ t.by = r.by /\ t.kind = r.kind
                           /\ t.of = r.of /\ t.at = "fetch" /\ t.todo = todo
  BY <1>4, <1>5
<1>14. todo # <<>> => \E t \in asks' : t.n = r.n /\ t.by = r.by /\ t.at = "fetch" /\ t.todo = todo
  BY <1>4, <1>5
<1>15. \A t \in asks : t # r => t \in asks'
  BY <1>5
<1> QED BY <1>1, <1>7, <1>9, <1>10, <1>11, <1>12, <1>13, <1>14, <1>15

(* The end of a handler, and an answer the page ignores or that is about  *)
(* something else than the list.                                          *)
LEMMA ResumeQuiet ==
  ASSUME ProvInv, NEW r \in asks, r.at \in {"done", "failed", "read"},
         NEW d \in Desk, NEW todo \in Todos \cup {<<>>}, todo # <<>> => r.of \in Boxes,
         Resume(r, todo, d), UNCHANGED <<tables, claims, asked, crowd>>,
         todo # <<>> => r.at # "failed" /\ Head(todo) # "list",
         d.list = desk[r.by].list, d.fresh = desk[r.by].fresh, d.last = desk[r.by].last,
         d.made = desk[r.by].made, d.removed = desk[r.by].removed,
         r.at = "read" /\ Head(r.todo) = "list" => desk[r.by].last["list"] # r.n
  PROVE  ProvInv'
<1>0. /\ asks \subseteq Ask /\ r \in Ask /\ UNCHANGED <<box, invites, aliases>> /\ r.by \in Admins
  BY DEF ProvInv, ProvTyped, tables, Ask
<1>1. /\ ProvTyped' /\ AsksAimed' /\ AsksNumbered' /\ AliasesCounted' /\ BoxesCounted'
      /\ LinksLive' /\ SeatsBounded' /\ RowsHeldOnce' /\ CountsCurrent' /\ AliasQuotaKept'
  BY ResumeKeeps
<1>2. Resumed(r, todo, d)
  BY ResumeKeeps
<1>3. ViewKept
  BY <1>2 DEF ViewKept, Resumed
<1>4. \A t \in asks' : \/ t \in asks
                       \/ /\ todo # <<>> /\ t.kind = r.kind /\ t.of = r.of /\ t.at = "fetch"
                          /\ t.todo = todo
  BY ResumeKeeps
<1>5. \A t \in asks : t # r => t \in asks'
  BY ResumeKeeps
<1>6. /\ r.at \in {"done", "read"} /\ r.kind = "delete" => box[r.of].st = "gone"
      /\ r.at \in {"done", "read"} /\ r.kind = "invite" => r.of \in Used
  BY DEF ProvInv, ToldTrue
<1>7. Used' = Used /\ Live' = Live /\ asks' \subseteq Ask
  BY <1>0, <1>1 DEF Used, Live, ProvTyped
<1>8. ToldTrue' /\ ReadCurrent' /\ OwnWritesShown'
  BY <1>0, <1>3, <1>4, <1>5, <1>6, <1>7, DeskKept
<1> QED BY <1>1, <1>8 DEF ProvInv

(* A page is told of a mailbox made or deleted: it shows its old list     *)
(* only until the fetch it begins now has been answered.                  *)
LEMMA ToldStep ==
  ASSUME ProvInv, NEW r \in asks, r.at = "done", r.kind \in {"invite", "delete"},
         Resume(r, Refetches[r.kind], Succeeded(r)), UNCHANGED <<tables, claims, asked, crowd>>
  PROVE  ProvInv'
<1> DEFINE todo == Refetches[r.kind]
           d == Succeeded(r)
           o == desk[r.by]
<1>0. /\ asks \subseteq Ask /\ r \in Ask /\ UNCHANGED <<box, invites, aliases>> /\ r.by \in Admins
      /\ AskAimed(r) /\ o \in Desk /\ r.of \in Boxes
  BY DEF ProvInv, ProvTyped, tables, Ask, AsksAimed, AskAimed
<1>1. todo \in Todos /\ todo # <<>> /\ Head(todo) = "list"
  BY DEF Refetches, Todos
<1>2. /\ d \in Desk
      /\ d.made = IF r.kind = "invite" THEN o.made \cup {r.of} ELSE o.made
      /\ d.removed = IF r.kind = "delete" THEN o.removed \cup {r.of} ELSE o.removed
  <2>1. CASE r.kind = "invite"
    <3>0. r.name \in Addresses
      BY <1>0, <2>1 DEF AskAimed
    <3>1. d = [o EXCEPT !.created = r.of, !.known = @ \cup {r.of}, !.mail[r.name] = r.of,
                        !.made = @ \cup {r.of}]
      BY <2>1 DEF Succeeded
    <3>2. [o EXCEPT !.created = r.of, !.known = @ \cup {r.of}, !.mail[r.name] = r.of,
                        !.made = @ \cup {r.of}] \in Desk
      BY <1>0, <3>0 DEF Desk
    <3>3. d.made = o.made \cup {r.of} /\ d.removed = o.removed
      BY <1>0, <3>1 DEF Desk
    <3> QED BY <2>1, <3>1, <3>2, <3>3
  <2>2. CASE r.kind = "delete"
    <3>1. d = [o EXCEPT !.confirm = None, !.removed = @ \cup {r.of}]
      BY <2>2 DEF Succeeded
    <3>2. [o EXCEPT !.confirm = None, !.removed = @ \cup {r.of}] \in Desk
      BY <1>0 DEF Desk
    <3>3. d.made = o.made /\ d.removed = o.removed \cup {r.of}
      BY <1>0, <3>1 DEF Desk
    <3> QED BY <2>2, <3>1, <3>2, <3>3
  <2> QED BY <2>1, <2>2
<1>3. Resume(r, todo, d)
  OBVIOUS
<1> HIDE DEF todo, d, o
<1>4. /\ ProvTyped' /\ AsksAimed' /\ AsksNumbered' /\ AliasesCounted' /\ BoxesCounted'
      /\ LinksLive' /\ SeatsBounded' /\ RowsHeldOnce' /\ CountsCurrent' /\ AliasQuotaKept'
  BY <1>0, <1>1, <1>2, <1>3, ResumeKeeps
<1>5. Resumed(r, todo, d)
  BY <1>0, <1>1, <1>2, <1>3, ResumeKeeps
<1>6. \A t \in asks' : \/ t \in asks /\ t # r
                       \/ /\ t.n = r.n /\ t.by = r.by /\ t.kind = r.kind
                          /\ t.of = r.of /\ t.at = "fetch" /\ t.todo = todo
  BY <1>0, <1>1, <1>2, <1>3, ResumeKeeps
<1>7. PICK s \in asks' : s.n = r.n /\ s.by = r.by /\ s.at = "fetch" /\ s.todo = todo
  BY <1>0, <1>1, <1>2, <1>3, ResumeKeeps
<1>8. \A t \in asks : t # r => t \in asks'
  BY <1>0, <1>1, <1>2, <1>3, ResumeKeeps
<1>9. desk'[r.by].last["list"] = r.n /\ \A g \in Admins : g # r.by => desk'[g] = desk[g]
  BY <1>1, <1>5 DEF Resumed
<1>10. Used' = Used /\ Live' = Live /\ asks' \subseteq Ask
  BY <1>0, <1>4 DEF Used, Live, ProvTyped
<1>11. /\ r.kind = "delete" => box[r.of].st = "gone"
       /\ r.kind = "invite" => r.of \in Used
  BY DEF ProvInv, ToldTrue
<1>12. ToldTrue'
  <2>1. ASSUME NEW g \in Admins
        PROVE  (\A i \in desk'[g].removed : box'[i].st = "gone") /\ desk'[g].made \subseteq Used'
    <3>0. (\A i \in desk[g].removed : box[i].st = "gone") /\ desk[g].made \subseteq Used
      BY DEF ProvInv, ToldTrue
    <3>1. CASE g # r.by
      BY <1>0, <1>9, <1>10, <3>0, <3>1
    <3>2. CASE g = r.by
      <4>1. desk'[g].removed = d.removed /\ desk'[g].made = d.made
        BY <1>5, <3>2 DEF Resumed
      <4> QED BY <1>0, <1>2, <1>10, <1>11, <3>0, <3>2, <4>1 DEF o
    <3> QED BY <3>1, <3>2
  <2>2. ASSUME NEW t \in asks', t.at \in {"done", "fetch", "read"}
        PROVE  /\ t.kind = "delete" => box'[t.of].st = "gone"
               /\ t.kind = "invite" => t.of \in Used'
    BY <1>0, <1>6, <1>10, <1>11, <2>2 DEF ProvInv, ToldTrue
  <2> QED BY <2>1, <2>2 DEF ToldTrue
<1>13. ReadCurrent'
  <2> SUFFICES ASSUME NEW t \in asks', t.at = "read", Head(t.todo) = "list",
                      desk'[t.by].last["list"] = t.n, t.got.ok
               PROVE  /\ t.got.list \cap desk'[t.by].removed = {}
                      /\ desk'[t.by].made \cap Live' \subseteq t.got.list
    BY DEF ReadCurrent
  <2>1. t \in asks /\ t # r /\ t.by \in Admins
    BY <1>6, <1>10 DEF Ask
  <2>2. t.by # r.by
    BY <1>9, <2>1 DEF ProvInv, AsksNumbered
  <2> QED BY <1>9, <1>10, <2>1, <2>2 DEF ProvInv, ReadCurrent
<1>14. OwnWritesShown'
  <2> SUFFICES ASSUME NEW g \in Admins, desk'[g].fresh, ~Loading(g, "list")'
               PROVE  /\ desk'[g].list \cap desk'[g].removed = {}
                      /\ desk'[g].made \cap Live' \subseteq desk'[g].list
    BY DEF OwnWritesShown
  <2>1. g # r.by
    BY <1>1, <1>7, <1>9 DEF Loading
  <2>2. ~Loading(g, "list")
    BY <1>8, <1>9, <2>1 DEF Loading
  <2> QED BY <1>9, <1>10, <2>1, <2>2 DEF ProvInv, OwnWritesShown
<1> QED BY <1>4, <1>12, <1>13, <1>14 DEF ProvInv

(* The answers to what the pages asked. *)
LEMMA AnsweredStep ==
  ASSUME ProvInv, NEW r \in asks, Answered(r)
  PROVE  ProvInv'
<1>0. /\ r \in Ask /\ AskAimed(r) /\ r.by \in Admins /\ desk[r.by] \in Desk
      /\ UNCHANGED <<tables, claims, asked, crowd>>
      /\ r.kind \in {"invite", "delete", "alias", "unalias", "recover"}
  BY DEF ProvInv, ProvTyped, Ask, AsksAimed, Answered
<1>1. CASE r.at = "failed" /\ Resume(r, <<>>, desk[r.by])
  BY <1>0, <1>1, ResumeQuiet
<1>2. CASE r.at = "done" /\ Resume(r, Refetches[r.kind], Succeeded(r)) /\ r.kind \in {"invite",
        "delete"}
  BY <1>0, <1>2, ToldStep
<1>3. CASE r.at = "done" /\ Resume(r, Refetches[r.kind], Succeeded(r)) /\ r.kind \notin {"invite",
        "delete"}
  <2> DEFINE todo == Refetches[r.kind]
  <2>1. Succeeded(r) = desk[r.by]
    BY <1>3 DEF Succeeded
  <2>2. todo \in Todos \cup {<<>>} /\ (todo # <<>> => Head(todo) # "list")
    BY <1>0, <1>3 DEF Refetches, Todos
  <2>3. Resume(r, todo, desk[r.by]) /\ r.of \in Boxes
    BY <1>0, <1>3, <2>1 DEF AskAimed
  <2> HIDE DEF todo
  <2> QED BY <1>0, <1>3, <2>2, <2>3, ResumeQuiet
<1> QED BY <1>1, <1>2, <1>3 DEF Answered

(* The list that is shown is the one the last fetch read. *)
LEMMA ListShown ==
  ASSUME ProvInv, NEW r \in asks, r.at = "read", Head(r.todo) = "list",
         desk[r.by].last["list"] = r.n,
         NEW d \in Desk, d.list = r.got.list, d.fresh = r.got.ok, d.last = desk[r.by].last,
         d.made = desk[r.by].made, d.removed = desk[r.by].removed,
         Resume(r, Tail(r.todo), d), UNCHANGED <<tables, claims, asked, crowd>>
  PROVE  ProvInv'
<1> DEFINE todo == Tail(r.todo)
<1>0. /\ asks \subseteq Ask /\ r \in Ask /\ UNCHANGED <<box, invites, aliases>> /\ r.by \in Admins
      /\ r.of \in Boxes /\ r.todo \in Todos
  BY DEF ProvInv, ProvTyped, tables, Ask, AsksAimed, AskAimed
<1>1. todo \in Todos \cup {<<>>} /\ (todo # <<>> => Head(todo) # "list") /\ Resume(r, todo, d)
  BY <1>0, TodoFacts
<1> HIDE DEF todo
<1>2. /\ ProvTyped' /\ AsksAimed' /\ AsksNumbered' /\ AliasesCounted' /\ BoxesCounted'
      /\ LinksLive' /\ SeatsBounded' /\ RowsHeldOnce' /\ CountsCurrent' /\ AliasQuotaKept'
  BY <1>0, <1>1, ResumeKeeps
<1>3. Resumed(r, todo, d)
  BY <1>0, <1>1, ResumeKeeps
<1>4. \A t \in asks' : \/ t \in asks /\ t # r
                       \/ /\ todo # <<>> /\ t.n = r.n /\ t.by = r.by /\ t.kind = r.kind
                          /\ t.of = r.of /\ t.at = "fetch" /\ t.todo = todo
  BY <1>0, <1>1, ResumeKeeps
<1>5. \A t \in asks : t # r => t \in asks'
  BY <1>0, <1>1, ResumeKeeps
<1>6. /\ \A g \in Admins : g # r.by => desk'[g] = desk[g]
      /\ desk'[r.by].list = r.got.list /\ desk'[r.by].fresh = r.got.ok
      /\ desk'[r.by].made = desk[r.by].made /\ desk'[r.by].removed = desk[r.by].removed
      /\ desk'[r.by].last["list"] = r.n
  BY <1>1, <1>3 DEF Resumed
<1>7. Used' = Used /\ Live' = Live /\ asks' \subseteq Ask
  BY <1>0, <1>2 DEF Used, Live, ProvTyped
<1>8. ToldTrue'
  <2>1. ASSUME NEW g \in Admins
        PROVE  (\A i \in desk'[g].removed : box'[i].st = "gone") /\ desk'[g].made \subseteq Used'
    <3>1. desk'[g].removed = desk[g].removed /\ desk'[g].made = desk[g].made
      BY <1>6
    <3> QED BY <1>0, <1>7, <3>1 DEF ProvInv, ToldTrue
  <2>2. /\ r.kind = "delete" => box[r.of].st = "gone"
        /\ r.kind = "invite" => r.of \in Used
    BY DEF ProvInv, ToldTrue
  <2>3. ASSUME NEW t \in asks', t.at \in {"done", "fetch", "read"}
        PROVE  /\ t.kind = "delete" => box'[t.of].st = "gone"
               /\ t.kind = "invite" => t.of \in Used'
    BY <1>0, <1>4, <1>7, <2>2, <2>3 DEF ProvInv, ToldTrue
  <2> QED BY <2>1, <2>3 DEF ToldTrue
<1>9. ReadCurrent'
  <2> SUFFICES ASSUME NEW t \in asks', t.at = "read", Head(t.todo) = "list",
                      desk'[t.by].last["list"] = t.n, t.got.ok
               PROVE  /\ t.got.list \cap desk'[t.by].removed = {}
                      /\ desk'[t.by].made \cap Live' \subseteq t.got.list
    BY DEF ReadCurrent
  <2>1. t \in asks /\ t # r /\ t.by \in Admins
    BY <1>4, <1>7 DEF Ask
  <2>2. t.by # r.by
    BY <1>6, <2>1 DEF ProvInv, AsksNumbered
  <2> QED BY <1>6, <1>7, <2>1, <2>2 DEF ProvInv, ReadCurrent
<1>10. OwnWritesShown'
  <2> SUFFICES ASSUME NEW g \in Admins, desk'[g].fresh, ~Loading(g, "list")'
               PROVE  /\ desk'[g].list \cap desk'[g].removed = {}
                      /\ desk'[g].made \cap Live' \subseteq desk'[g].list
    BY DEF OwnWritesShown
  <2>1. CASE g = r.by
    BY <1>6, <1>7, <2>1 DEF ProvInv, ReadCurrent
  <2>2. CASE g # r.by
    <3>1. ~Loading(g, "list")
      BY <1>5, <1>6, <2>2 DEF Loading
    <3> QED BY <1>6, <1>7, <2>2, <3>1 DEF ProvInv, OwnWritesShown
  <2> QED BY <2>1, <2>2
<1> QED BY <1>2, <1>8, <1>9, <1>10 DEF ProvInv

(* The answers to what the pages fetch. *)
LEMMA FetchedStep ==
  ASSUME ProvInv, NEW r \in asks, Fetched(r)
  PROVE  ProvInv'
<1> DEFINE o == desk[r.by]
<1>0. /\ r \in Ask /\ r.by \in Admins /\ o \in Desk /\ r.todo \in Todos /\ r.of \in Boxes
      /\ UNCHANGED <<tables, claims, asked, crowd>> /\ r.at = "read"
      /\ r.got \in [list : SUBSET Boxes, aliases : SUBSET Alias, used : 0 .. MaxAsks + 1, ok : BOOLEAN]
  BY DEF ProvInv, ProvTyped, Ask, AsksAimed, AskAimed, Fetched
<1>1. PICK d \in Shown(o, r) : Resume(r, Tail(r.todo), d)
  BY DEF Fetched
<1>2. Tail(r.todo) \in Todos \cup {<<>>} /\ (Tail(r.todo) # <<>> => Head(Tail(r.todo)) # "list")
      /\ Head(r.todo) \in Resources
  BY <1>0, TodoFacts
<1>3. CASE o.last[Head(r.todo)] # r.n
  <2>1. d = o
    BY <1>1, <1>3 DEF Shown
  <2> QED BY <1>0, <1>1, <1>2, <1>3, <2>1, ResumeQuiet
<1>4. CASE o.last[Head(r.todo)] = r.n /\ Head(r.todo) = "list"
  <2>1. PICK i \in Targets(o, r.got.list) :
          d = [o EXCEPT !.list = r.got.list, !.fresh = r.got.ok, !.target = i]
    BY <1>1, <1>4 DEF Shown, ShownAnyway
  <2>2. i \in Boxes \cup {None}
    BY <1>0 DEF Targets, Desk
  <2>3. d \in Desk /\ d.list = r.got.list /\ d.fresh = r.got.ok /\ d.last = o.last
        /\ d.made = o.made /\ d.removed = o.removed
    BY <1>0, <2>1, <2>2 DEF Desk
  <2> QED BY <1>0, <1>1, <1>4, <2>3, ListShown
<1>5. CASE o.last[Head(r.todo)] = r.n /\ Head(r.todo) = "aliases"
  <2>1. d = [o EXCEPT !.aliases = r.got.aliases]
    BY <1>1, <1>5 DEF Shown, ShownAnyway
  <2>2. d \in Desk /\ d.list = o.list /\ d.fresh = o.fresh /\ d.last = o.last
        /\ d.made = o.made /\ d.removed = o.removed
    BY <1>0, <2>1 DEF Desk
  <2> QED BY <1>0, <1>1, <1>2, <1>5, <2>2, ResumeQuiet
<1>6. CASE o.last[Head(r.todo)] = r.n /\ Head(r.todo) = "billing"
  <2>1. d = [o EXCEPT !.used = r.got.used]
    BY <1>1, <1>6 DEF Shown, ShownAnyway
  <2>2. d \in Desk /\ d.list = o.list /\ d.fresh = o.fresh /\ d.last = o.last
        /\ d.made = o.made /\ d.removed = o.removed
    BY <1>0, <2>1 DEF Desk
  <2> QED BY <1>0, <1>1, <1>2, <1>6, <2>2, ResumeQuiet
<1> QED BY <1>2, <1>3, <1>4, <1>5, <1>6 DEF Resources

(* The claims: a link that works is that of a pending mailbox, so that a  *)
(* claim, which ignores the status, brings no deleted one back.           *)
LEMMA ClaimStepKeeps ==
  ASSUME ProvInv, NEW b \in Boxes, ClaimInvitation(b) \/ ClaimStep(b)
  PROVE  ProvInv'
<1>0. ProvTyped /\ claims \subseteq Boxes /\ desk \in [Admins -> Desk]
  BY DEF ProvInv, ProvTyped
<1>1. CASE ClaimInvitation(b) \/ ClaimFails(b)
  <2>1. /\ UNCHANGED <<tables, asks, asked, crowd>> /\ claims' \subseteq Boxes
        /\ \A i \in claims' : i \notin claims => invites[i] = "live"
        /\ desk' \in [Admins -> Desk] /\ ViewKept
    BY <1>0, <1>1 DEF ClaimInvitation, ClaimFails, ViewKept
  <2> QED BY <2>1, PageOnlyStep
<1>2. CASE invitationClaimHandler(b)
  <2>1. /\ b \in claims /\ box' = [box EXCEPT ![b].st = "active"]
        /\ invites' = [invites EXCEPT ![b] = "used"] /\ claims' = claims \ {b}
        /\ UNCHANGED <<aliases, desk, asks, asked, crowd>>
    BY <1>2 DEF invitationClaimHandler
  <2>2. invites[b] = "live" /\ box[b].st = "pending"
    BY <1>0, <2>1 DEF ProvInv, LinksLive
  <2>3. /\ box' \in [Boxes -> MailboxRow] /\ box'[b].st = "active"
        /\ \A i \in Boxes : i # b => box'[i] = box[i]
    BY <1>0, <2>1 DEF ProvTyped, MailboxRow
  <2>4. /\ invites' \in [Boxes -> LinkState] /\ invites'[b] = "used"
        /\ \A i \in Boxes : i # b => invites'[i] = invites[i]
    BY <1>0, <2>1 DEF ProvTyped, LinkState
  <2>5. /\ Used' = Used /\ Live' = Live /\ Counted' = Counted /\ InvitesOpen' = InvitesOpen
        /\ AliasesOpen' = AliasesOpen
        /\ \A i \in Boxes : AliasesOf(i)' = AliasesOf(i) /\ Holders(i)' = Holders(i)
    BY <2>1, <2>2, <2>3 DEF Used, Live, Counted, InvitesOpen, AliasesOpen, AliasesOf, Holders,
                            WithinPlan
  <2>6. ProvTyped' /\ AsksAimed' /\ AsksNumbered'
    BY <2>1, <2>3, <2>4 DEF ProvInv, ProvTyped, AsksAimed, AsksNumbered
  <2>7. LinksLive'
    BY <1>0, <2>1, <2>3, <2>4 DEF ProvInv, LinksLive
  <2>8. AliasesCounted' /\ BoxesCounted'
    BY <2>1, <2>5 DEF ProvInv, AliasesCounted, BoxesCounted
  <2>9. SeatsBounded'
    BY <2>1, <2>5 DEF ProvInv, SeatsBounded, OverrunBounded
  <2>10. RowsHeldOnce' /\ AliasQuotaKept'
    BY <2>1, <2>5 DEF ProvInv, RowsHeldOnce, AliasQuotaKept
  <2>11. CountsCurrent'
    BY <2>1, <2>5 DEF ProvInv, CountsCurrent, AsksAimed, AskAimed
  <2>12. asks \subseteq Ask /\ asks' = asks /\ \A i \in Boxes : box[i].st = "gone" => box'[i].st = "gone"
    BY <1>0, <2>1, <2>2, <2>3 DEF ProvTyped
  <2>13. ToldTrue' /\ ReadCurrent' /\ OwnWritesShown'
    BY <2>1, <2>5, <2>12, DeskKept DEF ViewKept
  <2> QED BY <2>6, <2>7, <2>8, <2>9, <2>10, <2>11, <2>13 DEF ProvInv
<1> QED BY <1>1, <1>2 DEF ClaimStep

(* Every step of the pages, the server and the invited users keeps the    *)
(* invariant.                                                             *)
LEMMA ProvStep == ProvInv /\ [ProvisioningNext]_provisioningVars => ProvInv'
<1> SUFFICES ASSUME ProvInv, [ProvisioningNext]_provisioningVars PROVE ProvInv'
  OBVIOUS
<1>1. ASSUME NEW g \in Admins, AdminStep(g) PROVE ProvInv'
  BY <1>1, AdminStepKeeps
<1>2. ASSUME NEW r \in asks, AskStep(r) PROVE ProvInv'
  BY <1>2, CountStep, InviteStep, LockStep, DeleteStep, AliasStep, PlainEndStep, AnsweredStep,
     ServeFetchStep, FetchedStep DEF AskStep
<1>3. ASSUME NEW i \in Boxes, ClaimInvitation(i) \/ ClaimStep(i) PROVE ProvInv'
  BY <1>3, ClaimStepKeeps
<1>4. CASE UNCHANGED provisioningVars
  <2>1. /\ UNCHANGED <<tables, asks, asked, crowd>> /\ UNCHANGED <<claims, desk>>
    BY <1>4 DEF provisioningVars, tables
  <2>2. claims' \subseteq Boxes /\ desk' \in [Admins -> Desk] /\ ViewKept
    BY <2>1 DEF ProvInv, ProvTyped, ViewKept
  <2> QED BY <2>1, <2>2, PageOnlyStep
<1> QED BY <1>1, <1>2, <1>3, <1>4 DEF ProvisioningNext

(* What the invariant is for. *)
LEMMA ProvInvImplies ==
  ProvInv => OwnWritesShown /\ OverrunBounded /\ AliasQuotaKept /\ DeletedStaysGone /\ ProvisioningTypeOK
<1>1. ProvInv => ProvisioningTypeOK
  BY ProvTypedImplies DEF ProvInv
<1>2. ProvInv => DeletedStaysGone
  <2> SUFFICES ASSUME ProvInv, NEW g \in Admins, NEW i \in desk[g].removed
               PROVE  box[i].st = "gone" /\ invites[i] # "live"
    BY DEF DeletedStaysGone
  <2>1. i \in Boxes
    BY DEF ProvInv, ProvTyped, Desk
  <2>2. box[i].st = "gone"
    BY DEF ProvInv, ToldTrue
  <2> QED BY <2>1, <2>2 DEF ProvInv, LinksLive
<1> QED BY <1>1, <1>2 DEF ProvInv, SeatsBounded

(* For any number of administrators, addresses, aliases and requests and    *)
(* any plan: the page shows what it was told it did once its list is        *)
(* fetched (refetchMailboxes), the plan's seats are overrun by no more than *)
(* the invitations that were between count and commit at once               *)
(* (mailboxInviteHandler), no mailbox has more aliases than the plan allows *)
(* (mailboxAliasesHandler), and a mailbox that was deleted stays so,        *)
(* whatever claims its link met (deleteMailbox, invitationClaimHandler).    *)
THEOREM MailboxesKept ==
  ProvisioningSpec => [](OwnWritesShown /\ OverrunBounded /\ AliasQuotaKept /\ DeletedStaysGone)
<1>1. ProvisioningInit => ProvInv
  BY ProvInitHolds
<1>2. ProvInv /\ [ProvisioningNext]_provisioningVars => ProvInv'
  BY ProvStep
<1>3. ProvInv => OwnWritesShown /\ OverrunBounded /\ AliasQuotaKept /\ DeletedStaysGone
  BY ProvInvImplies
<1> QED BY <1>1, <1>2, <1>3, PTL DEF ProvisioningSpec

-----------------------------------------------------------------------------
(* The calculator and the page beside it.                                  *)

(* A price that was computed is that of its seats and its cycle. *)
LEMMA PriceIsFor ==
  ASSUME NEW n, NEW c, NEW price \in calculateGraduatedPricing(n, c)
  PROVE  price.seats = n /\ price.cycle = c
BY DEF calculateGraduatedPricing

(* For any numbers a link asks for, a slider is moved to or a user types:  *)
(* the page quotes the number, the cycle and the price of the calculator   *)
(* it shows (handleSeatsChange), through every order of sliding, typing,   *)
(* leaving the field, changing the cycle and coming back.                  *)
THEOREM QuoteFollows == PricingSpec => []QuoteFollowsCalculator
<1>1. PricingInit => QuoteFollowsCalculator
  BY PriceIsFor DEF PricingInit, QuoteFollowsCalculator
<1>2. QuoteFollowsCalculator /\ [PricingNext]_pricingVars => QuoteFollowsCalculator'
  <2> SUFFICES ASSUME QuoteFollowsCalculator, [PricingNext]_pricingVars
               PROVE  QuoteFollowsCalculator'
    OBVIOUS
  <2>1. ASSUME NEW calc, Recalculate(calc) PROVE QuoteFollowsCalculator'
    <3>1. stage = "pricing" /\ stage' = stage /\ calculator' = calc
      BY <2>1 DEF Recalculate
    <3>2. CASE <<calc.seats, calc.cycle>> # <<calculator.seats, calculator.cycle>>
      <4>1. PICK price \in calculateGraduatedPricing(calc.seats, calc.cycle) :
              quote' = handleSeatsChange(calc.seats, calc.cycle, price)
        BY <2>1, <3>2 DEF Recalculate
      <4>2. price.seats = calc.seats /\ price.cycle = calc.cycle
        BY <4>1, PriceIsFor
      <4>3. quote'.seats = calc.seats /\ quote'.cycle = calc.cycle /\ quote'.price = price
        BY <4>1 DEF handleSeatsChange
      <4> QED BY <3>1, <4>2, <4>3 DEF QuoteFollowsCalculator
    <3>3. CASE <<calc.seats, calc.cycle>> = <<calculator.seats, calculator.cycle>>
      <4>1. quote' = quote
        BY <2>1, <3>3 DEF Recalculate
      <4> QED BY <3>1, <3>3, <4>1 DEF QuoteFollowsCalculator
    <3> QED BY <3>2, <3>3
  <2>2. CASE Controls
    BY <2>1, <2>2 DEF Controls, handleSliderChange, handleInputChange, handleInputBlur,
                      setBillingCycle
  <2>3. CASE BackToPricing
    <3>1. PICK price \in calculateGraduatedPricing(checkoutLink.seats, checkoutLink.cycle) :
            quote' = [seats |-> checkoutLink.seats, cycle |-> checkoutLink.cycle, price |-> price]
      BY <2>3 DEF BackToPricing, OpenPricing
    <3>2. price.seats = checkoutLink.seats /\ price.cycle = checkoutLink.cycle
      BY <3>1, PriceIsFor
    <3>3. /\ calculator'.seats = checkoutLink.seats /\ calculator'.cycle = checkoutLink.cycle
      BY <2>3 DEF BackToPricing, OpenPricing
    <3> QED BY <3>1, <3>2, <3>3 DEF QuoteFollowsCalculator
  <2>4. CASE ContinueToCheckout \/ handlePaymentSubmit \/ ToDashboard
    BY <2>4 DEF ContinueToCheckout, handleContinue, handlePaymentSubmit, ToDashboard,
                QuoteFollowsCalculator
  <2>5. ASSUME NEW done \in BOOLEAN, updateCapacity(done) PROVE QuoteFollowsCalculator'
    BY <2>5 DEF updateCapacity, QuoteFollowsCalculator
  <2>6. CASE UNCHANGED pricingVars
    BY <2>6 DEF pricingVars, QuoteFollowsCalculator
  <2> QED BY <2>2, <2>3, <2>4, <2>5, <2>6 DEF PricingNext
<1> QED BY <1>1, <1>2, PTL DEF PricingSpec

(* The larger and the smaller of two numbers. *)
LEMMA LargerSmaller ==
  ASSUME NEW i \in Int, NEW j \in Int
  PROVE  /\ Max({i, j}) = IF i >= j THEN i ELSE j
         /\ Min({i, j}) = IF i <= j THEN i ELSE j
<1>1. Max({i, j}) = IF i >= j THEN i ELSE j
  BY DEF Max
<1>2. Min({i, j}) = IF i <= j THEN i ELSE j
  BY DEF Min
<1> QED BY <1>1, <1>2

(* The seats beyond the first k, and what the loop over the brackets has   *)
(* left after each.                                                        *)
Beyond(n, k) == IF n > k THEN n - k ELSE 0
LeftAfter(n) ==
  [t \in 0..5 |-> IF t = 0 THEN n ELSE IF t = 1 THEN Beyond(n, 10) ELSE IF t = 2 THEN Beyond(n, 25)
                  ELSE IF t = 3 THEN Beyond(n, 50) ELSE IF t = 4 THEN Beyond(n, 100) ELSE 0]
Waterfall(g, n) ==
  g = [t \in 0..5 |->
        IF t = 0 THEN n
        ELSE LET cap == TIER_BRACKETS[t].seats IN IF cap = 0 THEN 0 ELSE Max({0, g[t - 1] - cap})]

(* The brackets. *)
LEMMA Brackets ==
  /\ TIER_BRACKETS[1].seats = 10 /\ TIER_BRACKETS[2].seats = 15 /\ TIER_BRACKETS[3].seats = 25
  /\ TIER_BRACKETS[4].seats = 50 /\ TIER_BRACKETS[5].seats = 0
  /\ RateOf(1) = 300 /\ RateOf(2) = 285 /\ RateOf(3) = 271 /\ RateOf(4) = 257 /\ RateOf(5) = 244
BY DEF TIER_BRACKETS, RateOf

(* What the loop over the brackets leaves is what lies beyond them.        *)
LEMMA RemainingIs ==
  ASSUME NEW n \in Nat
  PROVE  /\ Remaining(n)[0] = n /\ Remaining(n)[1] = Beyond(n, 10) /\ Remaining(n)[2] = Beyond(n, 25)
         /\ Remaining(n)[3] = Beyond(n, 50) /\ Remaining(n)[4] = Beyond(n, 100)
         /\ Remaining(n)[5] = 0
<1> DEFINE w == LeftAfter(n)
           step(g, t) == IF t = 0 THEN n
                         ELSE LET cap == TIER_BRACKETS[t].seats
                              IN IF cap = 0 THEN 0 ELSE Max({0, g[t - 1] - cap})
<1>1. \A k \in Nat : Beyond(n, k) \in Nat
  BY DEF Beyond
<1>2. /\ w[0] = n /\ w[1] = Beyond(n, 10) /\ w[2] = Beyond(n, 25) /\ w[3] = Beyond(n, 50)
      /\ w[4] = Beyond(n, 100) /\ w[5] = 0
  BY DEF LeftAfter
<1>3. \A i \in Int, c \in Nat : Max({0, i - c}) = IF i > c THEN i - c ELSE 0
  <2> SUFFICES ASSUME NEW i \in Int, NEW c \in Nat PROVE Max({0,
                      i - c}) = IF i > c THEN i - c ELSE 0
    OBVIOUS
  <2>1. i - c \in Int /\ 0 \in Int
    OBVIOUS
  <2>2. Max({0, i - c}) = IF 0 >= i - c THEN 0 ELSE i - c
    BY <2>1, LargerSmaller
  <2> QED BY <2>2
<1>3a. \A k \in Nat, c \in Nat : Max({0, Beyond(n, k) - c}) = Beyond(n, k + c)
  <2> SUFFICES ASSUME NEW k \in Nat, NEW c \in Nat
      PROVE Max({0, Beyond(n, k) - c}) = Beyond(n, k + c)
    OBVIOUS
  <2>1. Beyond(n, k) \in Int
    BY <1>1
  <2>2. Max({0, Beyond(n, k) - c}) = IF Beyond(n, k) > c THEN Beyond(n, k) - c ELSE 0
    BY <1>3, <2>1
  <2>3. (IF Beyond(n, k) > c THEN Beyond(n, k) - c ELSE 0) = Beyond(n, k + c)
    BY DEF Beyond
  <2> QED BY <2>2, <2>3
<1>3b. /\ Max({0, Beyond(n, 10) - 15}) = Beyond(n, 25) /\ Max({0, Beyond(n, 25) - 25}) = Beyond(n, 50)
       /\ Max({0, Beyond(n, 50) - 50}) = Beyond(n, 100)
  <2>1. 10 + 15 = 25 /\ 25 + 25 = 50 /\ 50 + 50 = 100
    OBVIOUS
  <2> QED BY <1>3a, <2>1
<1>4. ASSUME NEW g, g[0] = n, g[1] = Beyond(n, 10), g[2] = Beyond(n, 25), g[3] = Beyond(n, 50),
             g[4] = Beyond(n, 100)
      PROVE  step(g, 0) = n /\ step(g, 1) = Beyond(n, 10) /\ step(g, 2) = Beyond(n, 25)
             /\ step(g, 3) = Beyond(n, 50) /\ step(g, 4) = Beyond(n, 100) /\ step(g, 5) = 0
  <2>1. step(g, 1) = Max({0, n - 10}) /\ step(g, 2) = Max({0, Beyond(n, 10) - 15})
        /\ step(g, 3) = Max({0, Beyond(n, 25) - 25}) /\ step(g, 4) = Max({0, Beyond(n, 50) - 50})
        /\ step(g, 5) = 0 /\ step(g, 0) = n
    BY <1>4, Brackets
  <2>2. Max({0, n - 10}) = Beyond(n, 10) /\ Max({0, Beyond(n, 10) - 15}) = Beyond(n, 25)
    BY <1>3, <1>3b DEF Beyond
  <2>3. Max({0, Beyond(n, 25) - 25}) = Beyond(n, 50) /\ Max({0, Beyond(n, 50) - 50}) = Beyond(n, 100)
    BY <1>3b
  <2> HIDE DEF step
  <2> QED BY <2>1, <2>2, <2>3
<1>5. Remaining(n) = CHOOSE g : Waterfall(g, n)
  BY DEF Remaining, Waterfall
<1>6. Waterfall(w, n)
  <2>1. w = [t \in 0..5 |-> w[t]]
    BY DEF LeftAfter
  <2>2. \A t \in 0..5 : t = 0 \/ t = 1 \/ t = 2 \/ t = 3 \/ t = 4 \/ t = 5
    OBVIOUS
  <2>3. /\ step(w, 0) = w[0] /\ step(w, 1) = w[1] /\ step(w, 2) = w[2] /\ step(w, 3) = w[3]
        /\ step(w, 4) = w[4] /\ step(w, 5) = w[5]
    <3> HIDE DEF w, step
    <3> QED BY <1>2, <1>4
  <2>4. \A t \in 0..5 : w[t] = step(w, t)
    <3> HIDE DEF w, step
    <3> QED BY <2>2, <2>3
  <2>5. w = [t \in 0..5 |-> step(w, t)]
    <3> HIDE DEF w, step
    <3> QED BY <2>1, <2>4
  <2> QED BY <2>5 DEF Waterfall
<1>7. Waterfall(Remaining(n), n)
  <2> HIDE DEF w
  <2> QED BY <1>5, <1>6
<1> DEFINE r == Remaining(n)
<1>8. \A t \in 0..5 : r[t] = step(r, t)
  BY <1>7 DEF Waterfall
<1>9. r[0] = n
  BY <1>8
<1>10. r[1] = Beyond(n, 10) /\ r[5] = 0
  <2>1. r[1] = Max({0, r[0] - 10}) /\ r[5] = 0
    BY <1>8, Brackets
  <2> QED BY <2>1, <1>3, <1>9 DEF Beyond
<1>11. r[2] = Beyond(n, 25)
  <2>1. r[2] = Max({0, r[1] - 15})
    BY <1>8, Brackets
  <2>2. r[2] = Max({0, Beyond(n, 10) - 15})
    BY <1>10, <2>1
  <2> QED BY <2>2, <1>3b
<1>12. r[3] = Beyond(n, 50)
  <2>1. r[3] = Max({0, r[2] - 25})
    BY <1>8, Brackets
  <2>2. r[3] = Max({0, Beyond(n, 25) - 25})
    BY <1>11, <2>1
  <2> QED BY <2>2, <1>3b
<1>13. r[4] = Beyond(n, 100)
  <2>1. r[4] = Max({0, r[3] - 50})
    BY <1>8, Brackets
  <2>2. r[4] = Max({0, Beyond(n, 50) - 50})
    BY <1>12, <2>1
  <2> QED BY <2>2, <1>3b
<1> QED BY <1>9, <1>10, <1>11, <1>12, <1>13

(* The seats of each bracket: those of the number that lie in it.          *)
LEMMA SeatsAre ==
  ASSUME NEW n \in Nat
  PROVE  /\ seatsInTier(n, 1) = n - Beyond(n, 10)
         /\ seatsInTier(n, 2) = Beyond(n, 10) - Beyond(n, 25)
         /\ seatsInTier(n, 3) = Beyond(n, 25) - Beyond(n, 50)
         /\ seatsInTier(n, 4) = Beyond(n, 50) - Beyond(n, 100)
         /\ seatsInTier(n, 5) = Beyond(n, 100)
         /\ \A t \in Tiers : seatsInTier(n, t) \in Nat
<1>1. \A k \in Nat : Beyond(n, k) \in Nat
  BY DEF Beyond
<1>2. /\ seatsInTier(n, 1) = n - Beyond(n, 10)
      /\ seatsInTier(n, 2) = Beyond(n, 10) - Beyond(n, 25)
      /\ seatsInTier(n, 3) = Beyond(n, 25) - Beyond(n, 50)
      /\ seatsInTier(n, 4) = Beyond(n, 50) - Beyond(n, 100)
      /\ seatsInTier(n, 5) = Beyond(n, 100)
  BY <1>1, RemainingIs DEF seatsInTier
<1>3. /\ n - Beyond(n, 10) \in Nat /\ Beyond(n, 10) - Beyond(n, 25) \in Nat
      /\ Beyond(n, 25) - Beyond(n, 50) \in Nat /\ Beyond(n, 50) - Beyond(n, 100) \in Nat
      /\ Beyond(n, 100) \in Nat
  BY DEF Beyond
<1>4. \A t \in Tiers : t = 1 \/ t = 2 \/ t = 3 \/ t = 4 \/ t = 5
  BY DEF Tiers
<1> QED BY <1>2, <1>3, <1>4

(* The positions of a bracket up to n are as many.                         *)
LEMMA PositionsCounted ==
  ASSUME NEW n \in Nat, NEW k \in Nat, NEW m \in Nat, k <= m
  PROVE  Cardinality((1..n) \cap ((k + 1)..m)) = Beyond(n, k) - Beyond(n, m)
<1> DEFINE z == IF m <= n THEN m ELSE n
<1>1. z \in Int /\ (1..n) \cap ((k + 1)..m) = (k + 1)..z
  OBVIOUS
<1> HIDE DEF z
<1>2. Cardinality((k + 1)..z) = IF k + 1 > z THEN 0 ELSE z - (k + 1) + 1
  BY <1>1, FS_Interval
<1>3. (IF k + 1 > z THEN 0 ELSE z - (k + 1) + 1) = Beyond(n, k) - Beyond(n, m)
  BY DEF z, Beyond
<1> QED BY <1>1, <1>2, <1>3

(* The sum over all brackets.                                              *)
LEMMA TotalOfAll ==
  ASSUME NEW f
  PROVE  Total(f, Tiers) = f[1] + f[2] + f[3] + f[4] + f[5]
BY DEF Total, Tiers

(* What each number of seats costs: each seat the rate of its position.    *)
LEMMA BaseIsSeatBySeat ==
  ASSUME NEW n \in Nat
  PROVE  baseMonthlyTotal(n) = SeatBySeat(n)
<1> DEFINE f == [t \in Tiers |-> Cost(n, t)]
           g == [t \in Tiers |-> RateOf(t) * Cardinality(1..n \cap PositionsAt(n)[t])]
           count(t) == Cardinality(1..n \cap PositionsAt(n)[t])
<1>1. 1 \in Tiers /\ 2 \in Tiers /\ 3 \in Tiers /\ 4 \in Tiers /\ 5 \in Tiers
  BY DEF Tiers
<1>2. /\ PositionsAt(n)[1] = (0 + 1)..10 /\ PositionsAt(n)[2] = (10 + 1)..25
      /\ PositionsAt(n)[3] = (25 + 1)..50 /\ PositionsAt(n)[4] = (50 + 1)..100
      /\ PositionsAt(n)[5] = (100 + 1)..n
  BY DEF PositionsAt
<1>3. /\ count(1) = Beyond(n, 0) - Beyond(n, 10) /\ count(2) = Beyond(n, 10) - Beyond(n, 25)
      /\ count(3) = Beyond(n, 25) - Beyond(n, 50) /\ count(4) = Beyond(n, 50) - Beyond(n, 100)
  <2>1. /\ Cardinality((1..n) \cap ((0 + 1)..10)) = Beyond(n, 0) - Beyond(n, 10)
        /\ Cardinality((1..n) \cap ((10 + 1)..25)) = Beyond(n, 10) - Beyond(n, 25)
    <3>1. 0 <= 10 /\ 10 <= 25
      OBVIOUS
    <3> QED BY <3>1, PositionsCounted
  <2>2. /\ Cardinality((1..n) \cap ((25 + 1)..50)) = Beyond(n, 25) - Beyond(n, 50)
        /\ Cardinality((1..n) \cap ((50 + 1)..100)) = Beyond(n, 50) - Beyond(n, 100)
    <3>1. 25 <= 50 /\ 50 <= 100
      OBVIOUS
    <3> QED BY <3>1, PositionsCounted
  <2> QED BY <1>2, <2>1, <2>2
<1>4. Beyond(n, 0) = n
  BY DEF Beyond
<1>5. count(5) = Beyond(n, 100)
  <2>1. (1..n) \cap ((100 + 1)..n) = 101..n
    OBVIOUS
  <2>2. Cardinality(101..n) = IF 101 > n THEN 0 ELSE n - 101 + 1
    BY FS_Interval
  <2>3. (IF 101 > n THEN 0 ELSE n - 101 + 1) = Beyond(n, 100)
    BY DEF Beyond
  <2> QED BY <1>2, <2>1, <2>2, <2>3
<1>6. \A t \in Tiers : count(t) = seatsInTier(n, t)
  <2>1. \A t \in Tiers : t = 1 \/ t = 2 \/ t = 3 \/ t = 4 \/ t = 5
    BY DEF Tiers
  <2> HIDE DEF count
  <2> QED BY <1>3, <1>4, <1>5, <2>1, SeatsAre
<1>7. \A t \in Tiers : seatsInTier(n, t) * RateOf(t) = RateOf(t) * seatsInTier(n, t)
  <2>1. \A t \in Tiers : seatsInTier(n, t) \in Nat
    BY SeatsAre
  <2>2. \A t \in Tiers : RateOf(t) \in Nat
    BY Brackets DEF Tiers
  <2> QED BY <2>1, <2>2
<1>8. f = g
  <2>1. \A t \in Tiers : Cost(n, t) = RateOf(t) * count(t)
    <3> HIDE DEF count
    <3> QED BY <1>6, <1>7 DEF Cost
  <2> QED BY <2>1
<1> QED BY <1>8 DEF baseMonthlyTotal, SeatBySeat

(* The costs are whole cents.                                              *)
LEMMA CostsTyped ==
  ASSUME NEW n \in Nat
  PROVE  /\ \A t \in Tiers : Cost(n, t) \in Nat /\ (t \notin Lines(n) => Cost(n, t) = 0)
         /\ Lines(n) \subseteq Tiers /\ baseMonthlyTotal(n) \in Nat
<1>1. \A t \in Tiers : seatsInTier(n, t) \in Nat
  BY SeatsAre
<1>2. \A t \in Tiers : RateOf(t) \in Nat
  BY Brackets DEF Tiers
<1>3. \A i, j \in Nat : i * j \in Nat /\ 0 * j = 0
  OBVIOUS
<1>4. \A t \in Tiers : Cost(n, t) \in Nat
  BY <1>1, <1>2, <1>3 DEF Cost
<1>5. \A t \in Tiers : t \notin Lines(n) => seatsInTier(n, t) = 0
  BY <1>1 DEF Lines
<1>6. \A t \in Tiers : t \notin Lines(n) => Cost(n, t) = 0
  BY <1>2, <1>3, <1>5 DEF Cost
<1>7. Lines(n) \subseteq Tiers
  BY DEF Lines
<1>8. baseMonthlyTotal(n) \in Nat
  <2> DEFINE f == [t \in Tiers |-> Cost(n, t)]
  <2>1. 1 \in Tiers /\ 2 \in Tiers /\ 3 \in Tiers /\ 4 \in Tiers /\ 5 \in Tiers
    BY DEF Tiers
  <2>2. f[1] \in Nat /\ f[2] \in Nat /\ f[3] \in Nat /\ f[4] \in Nat /\ f[5] \in Nat
    BY <1>4, <2>1
  <2>3. baseMonthlyTotal(n) = Total(f, Tiers)
    BY DEF baseMonthlyTotal
  <2> HIDE DEF f
  <2> QED BY <2>2, <2>3, TotalOfAll
<1> QED BY <1>4, <1>6, <1>7, <1>8

(* Lines of nothing may be left out of a sum.                              *)
LEMMA TotalOfLines ==
  ASSUME NEW S \in SUBSET Tiers, NEW f \in [Tiers -> Int], \A t \in Tiers \ S : f[t] = 0
  PROVE  Total([t \in S |-> f[t]], S) = Total(f, Tiers)
<1> DEFINE g == [t \in S |-> f[t]]
           at(t) == IF t \in S THEN g[t] ELSE 0
<1>1. 1 \in Tiers /\ 2 \in Tiers /\ 3 \in Tiers /\ 4 \in Tiers /\ 5 \in Tiers
  BY DEF Tiers
<1>2. \A t \in Tiers : at(t) = f[t]
  OBVIOUS
<1>3. Total(g, S) = at(1) + at(2) + at(3) + at(4) + at(5)
  BY DEF Total
<1> HIDE DEF at, g
<1>4. Total(g, S) = f[1] + f[2] + f[3] + f[4] + f[5]
  BY <1>1, <1>2, <1>3
<1> QED BY <1>4, TotalOfAll DEF g

(* What is added to one line is added to the sum.                          *)
LEMMA OneLineMore ==
  ASSUME NEW S \in SUBSET Tiers, NEW f \in [S -> Int], NEW m \in S, NEW d \in Int
  PROVE  /\ Total([t \in S |-> IF t = m THEN f[t] + d ELSE f[t]], S) = Total(f, S) + d
         /\ Total(f, S) \in Int
<1> DEFINE g == [t \in S |-> IF t = m THEN f[t] + d ELSE f[t]]
           at(t) == IF t \in S THEN f[t] ELSE 0
           more(t) == IF t = m THEN at(t) + d ELSE at(t)
           bt(t) == IF t \in S THEN g[t] ELSE 0
<1>1. \A t \in Tiers : at(t) \in Int /\ bt(t) = more(t)
  OBVIOUS
<1>2. m = 1 \/ m = 2 \/ m = 3 \/ m = 4 \/ m = 5
  BY DEF Tiers
<1>3. 1 \in Tiers /\ 2 \in Tiers /\ 3 \in Tiers /\ 4 \in Tiers /\ 5 \in Tiers
  BY DEF Tiers
<1>4. Total(f, S) = at(1) + at(2) + at(3) + at(4) + at(5)
  BY DEF Total
<1>5. Total(g, S) = bt(1) + bt(2) + bt(3) + bt(4) + bt(5)
  BY DEF Total
<1> HIDE DEF at, bt, g
<1>6. Total(g, S) = more(1) + more(2) + more(3) + more(4) + more(5)
  BY <1>1, <1>3, <1>5
<1>7. Total(g, S) = Total(f, S) + d /\ Total(f, S) \in Int
  BY <1>1, <1>2, <1>3, <1>4, <1>6
<1> QED BY <1>7 DEF g

(* Someone who buys a seat has a line, and the lines have a last one.      *)
LEMMA LastLine ==
  ASSUME NEW n \in Nat, n # 0
  PROVE  Max(Lines(n)) \in Lines(n)
<1>1. 1 \in Lines(n)
  <2>1. seatsInTier(n, 1) = n - Beyond(n, 10)
    BY SeatsAre
  <2>2. n - Beyond(n, 10) > 0
    BY DEF Beyond
  <2> QED BY <2>1, <2>2 DEF Lines, Tiers
<1>2. Lines(n) \in SUBSET {1, 2, 3, 4, 5}
  BY DEF Lines, Tiers
<1> DEFINE S == Lines(n)
<1> HIDE DEF S
<1>3. \E i \in S : \A j \in S : i >= j
  <2>1. 1 \in S /\ S \in SUBSET {1, 2, 3, 4, 5}
    BY <1>1, <1>2 DEF S
  <2>2. CASE 5 \in S
    BY <2>1, <2>2
  <2>3. CASE 5 \notin S /\ 4 \in S
    BY <2>1, <2>3
  <2>4. CASE 5 \notin S /\ 4 \notin S /\ 3 \in S
    BY <2>1, <2>4
  <2>5. CASE 5 \notin S /\ 4 \notin S /\ 3 \notin S /\ 2 \in S
    BY <2>1, <2>5
  <2>6. CASE 5 \notin S /\ 4 \notin S /\ 3 \notin S /\ 2 \notin S
    BY <2>1, <2>6
  <2> QED BY <2>2, <2>3, <2>4, <2>5, <2>6
<1>4. Max(S) \in S
  BY <1>3 DEF Max
<1> QED BY <1>4 DEF S

(* A rounded number of cents is a number of cents.                         *)
LEMMA RoundedTyped ==
  ASSUME NEW i \in Nat, NEW r \in Rounded(i, 12)
  PROVE  r \in Int
<1>1. i \div 12 \in Int
  OBVIOUS
<1> QED BY <1>1 DEF Rounded

(* A price: what its seats cost, and lines that add up to its total.       *)
Sound(price) ==
  /\ price.base = SeatBySeat(price.seats)
  /\ price.total = Total(price.lines, DOMAIN price.lines)

(* Every price the code may compute is so, for every number of seats, both *)
(* cycles and whichever way the halves are rounded.                        *)
LEMMA PricesSound ==
  ASSUME NEW n \in Nat, n # 0, NEW c \in Cycles, NEW price \in calculateGraduatedPricing(n, c)
  PROVE  Sound(price) /\ price.seats = n /\ price.cycle = c
<1> DEFINE base == baseMonthlyTotal(n)
           S == Lines(n)
           costs == [t \in Tiers |-> Cost(n, t)]
<1>1. base = SeatBySeat(n) /\ base \in Nat /\ S \in SUBSET Tiers
  BY BaseIsSeatBySeat, CostsTyped
<1>2. costs \in [Tiers -> Int] /\ \A t \in Tiers \ S : costs[t] = 0
  BY CostsTyped
<1>3. base = Total(costs, Tiers)
  BY DEF baseMonthlyTotal
<1>4. CASE c = "monthly"
  <2> DEFINE lines == [t \in S |-> Cost(n, t)]
  <2>1. /\ price.seats = n /\ price.cycle = c /\ price.base = base /\ price.total = base
        /\ price.lines = lines
    BY <1>4 DEF calculateGraduatedPricing
  <2>2. lines = [t \in S |-> costs[t]] /\ DOMAIN lines = S
    BY <1>1
  <2> HIDE DEF lines, costs, S, base
  <2>3. Total(lines, S) = base
    BY <1>1, <1>2, <1>3, <2>2, TotalOfLines
  <2> QED BY <1>1, <2>1, <2>2, <2>3 DEF Sound
<1>5. CASE c = "annual"
  <2>1. PICK f \in AnnualShares(n), r \in Rounded(base * 10, 12) :
          /\ price.seats = n /\ price.cycle = c /\ price.base = base /\ price.total = r
          /\ price.lines = Apportioned(S, f, r)
    BY <1>5 DEF calculateGraduatedPricing
  <2>2. f \in [S -> Int]
    <3>1. PICK u \in [S -> {0, 1}] : f = [t \in S |-> (Cost(n, t) * 10) \div 12 + u[t]]
      BY <2>1 DEF AnnualShares
    <3>2. \A t \in S : Cost(n, t) \in Nat
      BY <1>1, CostsTyped
    <3>3. \A k \in Nat : (k * 10) \div 12 \in Int
      OBVIOUS
    <3>4. \A t \in S : (Cost(n, t) * 10) \div 12 + u[t] \in Int
      BY <3>2, <3>3
    <3> HIDE DEF S
    <3> QED BY <3>1, <3>4
  <2>3. base * 10 \in Nat
    BY <1>1
  <2>4. r \in Int
    BY <2>3, RoundedTyped
  <2>5. Max(S) \in S
    BY LastLine
  <2> DEFINE m == Max(S)
             d == r - Total(f, S)
             lines == [t \in S |-> IF t = m THEN f[t] + d ELSE f[t]]
  <2>6. price.lines = lines /\ DOMAIN lines = S
    BY <2>1 DEF Apportioned
  <2> HIDE DEF S, base, costs
  <2>7. Total(f, S) \in Int
    BY <1>1, <2>2, <2>5, OneLineMore
  <2>8. d \in Int
    BY <2>4, <2>7
  <2>9. d = r - Total(f, S)
    OBVIOUS
  <2>10. m \in S
    BY <2>5
  <2> HIDE DEF d, m
  <2>11. Total(lines, S) = Total(f, S) + d
    BY <1>1, <2>2, <2>8, <2>10, OneLineMore
  <2> HIDE DEF lines
  <2>12. Total(lines, S) = r
    BY <2>4, <2>7, <2>9, <2>11
  <2> QED BY <1>1, <2>1, <2>6, <2>12 DEF Sound
<1> QED BY <1>4, <1>5 DEF Cycles

(* The seats of the calculator, of the page and of the address are at      *)
(* least one, so the price has a line to put the remainder on.             *)
Seats == Nat \ {0}
PricingInv ==
  /\ calculator \in [seats : Seats, field : Nat \cup {Junk}, cycle : Cycles]
  /\ quote.seats \in Seats /\ quote.cycle \in Cycles /\ Sound(quote.price)
  /\ checkoutLink \in [seats : Seats, cycle : Cycles]

(* The field's number is put within the limits.                            *)
LEMMA NormalSeats ==
  ASSUME NEW v \in Nat \cup {Junk} PROVE normalizeSeats(v) \in Seats
<1>1. CASE v = Junk
  BY <1>1 DEF normalizeSeats, minLimit, Seats
<1>2. CASE v # Junk
  <2>1. v \in Nat /\ minLimit = 1 /\ maxLimit = 250
    BY <1>2 DEF minLimit, maxLimit
  <2>2. Max({1, v}) = IF 1 >= v THEN 1 ELSE v
    BY <2>1, LargerSmaller
  <2>3. PICK k \in Seats : k = Max({1, v})
    BY <2>1, <2>2 DEF Seats
  <2>4. Min({k, 250}) = IF k <= 250 THEN k ELSE 250
    BY LargerSmaller DEF Seats
  <2>5. normalizeSeats(v) = Min({k, 250})
    BY <1>2, <2>1, <2>3 DEF normalizeSeats
  <2> QED BY <2>4, <2>5 DEF Seats
<1> QED BY <1>1, <1>2

(* The calculator changes and the page is told.                            *)
LEMMA RecalculateKeeps ==
  ASSUME PricingInv, NEW calc \in [seats : Seats, field : Nat \cup {Junk}, cycle : Cycles],
         Recalculate(calc)
  PROVE  PricingInv'
<1>1. calculator' = calc /\ checkoutLink' = checkoutLink
  BY DEF Recalculate
<1>2. quote'.seats \in Seats /\ quote'.cycle \in Cycles /\ Sound(quote'.price)
  <2>1. CASE quote' = quote
    BY <2>1 DEF PricingInv
  <2>2. CASE \E price \in calculateGraduatedPricing(calc.seats, calc.cycle) :
               quote' = handleSeatsChange(calc.seats, calc.cycle, price)
    <3>1. PICK price \in calculateGraduatedPricing(calc.seats, calc.cycle) :
            quote' = handleSeatsChange(calc.seats, calc.cycle, price)
      BY <2>2
    <3>2. quote'.seats = calc.seats /\ quote'.cycle = calc.cycle /\ quote'.price = price
      BY <3>1 DEF handleSeatsChange
    <3>3. calc.seats \in Seats /\ calc.cycle \in Cycles
      OBVIOUS
    <3>4. Sound(price)
      BY <3>1, <3>3, PricesSound DEF Seats
    <3> QED BY <3>2, <3>3, <3>4
  <2> QED BY <2>1, <2>2 DEF Recalculate
<1> QED BY <1>1, <1>2 DEF PricingInv

(* No step of the pricing pages leaves a price that does not add up.       *)
LEMMA PricingStep ==
  ASSUME PricingInv, [PricingNext]_pricingVars PROVE PricingInv'
<1>1. /\ calculator \in [seats : Seats, field : Nat \cup {Junk}, cycle : Cycles]
      /\ quote.seats \in Seats /\ quote.cycle \in Cycles /\ Sound(quote.price)
      /\ checkoutLink \in [seats : Seats, cycle : Cycles]
  BY DEF PricingInv
<1>2. CASE Controls
  <2>1. ASSUME NEW v \in Moves, handleSliderChange(v) PROVE PricingInv'
    <3>1. normalizeSeats(v) \in Seats
      BY PricingAssumption, NormalSeats
    <3>2. [calculator EXCEPT !.seats = normalizeSeats(v), !.field = normalizeSeats(v)]
            \in [seats : Seats, field : Nat \cup {Junk}, cycle : Cycles]
      BY <1>1, <3>1 DEF Seats
    <3> QED BY <2>1, <3>2, RecalculateKeeps DEF handleSliderChange
  <2>2. ASSUME NEW v \in Typed \cup {Junk}, handleInputChange(v) PROVE PricingInv'
    <3> DEFINE calc == [calculator EXCEPT !.field = v,
                          !.seats = IF v # Junk /\ v \in minLimit..maxLimit THEN v ELSE @]
    <3>1. v \in Nat \cup {Junk}
      BY PricingAssumption
    <3>2. v \in minLimit..maxLimit => v \in Seats
      BY DEF minLimit, maxLimit, Seats
    <3>3. calc \in [seats : Seats, field : Nat \cup {Junk}, cycle : Cycles]
      BY <1>1, <3>1, <3>2
    <3>4. Recalculate(calc)
      BY <2>2 DEF handleInputChange
    <3> HIDE DEF calc
    <3> QED BY <3>3, <3>4, RecalculateKeeps
  <2>3. CASE handleInputBlur
    <3>1. normalizeSeats(calculator.field) \in Seats
      BY <1>1, NormalSeats
    <3>2. [calculator EXCEPT !.seats = normalizeSeats(calculator.field),
                             !.field = normalizeSeats(calculator.field)]
            \in [seats : Seats, field : Nat \cup {Junk}, cycle : Cycles]
      BY <1>1, <3>1 DEF Seats
    <3> QED BY <2>3, <3>2, RecalculateKeeps DEF handleInputBlur
  <2>4. ASSUME NEW c \in Cycles, setBillingCycle(c) PROVE PricingInv'
    <3>1. [calculator EXCEPT !.cycle = c] \in [seats : Seats, field : Nat \cup {Junk}, cycle : Cycles]
      BY <1>1
    <3> QED BY <2>4, <3>1, RecalculateKeeps DEF setBillingCycle
  <2> QED BY <1>2, <2>1, <2>2, <2>3, <2>4 DEF Controls
<1>3. CASE ContinueToCheckout
  <2>1. ASSUME NEW n \in Seats, handleContinue(n) PROVE PricingInv'
    <3>1. /\ calculator' = calculator /\ checkoutLink' = [seats |-> n, cycle |-> quote.cycle]
          /\ quote' = [quote EXCEPT !.seats = n]
      BY <2>1 DEF handleContinue
    <3>2. quote'.cycle = quote.cycle /\ quote'.price = quote.price /\ quote'.seats \in Seats
      BY <3>1
    <3> QED BY <1>1, <3>1, <3>2 DEF PricingInv
  <2>2. 1 \in Seats
    BY DEF Seats
  <2> QED BY <1>1, <1>3, <2>1, <2>2 DEF ContinueToCheckout
<1>4. CASE BackToPricing
  <2>1. checkoutLink' = checkoutLink /\ OpenPricing(checkoutLink.seats, checkoutLink.cycle)
    BY <1>4 DEF BackToPricing
  <2>2. checkoutLink.seats \in Seats /\ checkoutLink.cycle \in Cycles
    BY <1>1
  <2>3. calculator' = [seats |-> checkoutLink.seats, field |-> checkoutLink.seats,
                       cycle |-> checkoutLink.cycle]
    BY <2>1 DEF OpenPricing
  <2>4. PICK price \in calculateGraduatedPricing(checkoutLink.seats, checkoutLink.cycle) :
          quote' = [seats |-> checkoutLink.seats, cycle |-> checkoutLink.cycle, price |-> price]
    BY <2>1 DEF OpenPricing
  <2>5. Sound(price)
    BY <2>2, <2>4, PricesSound DEF Seats
  <2>6. calculator' \in [seats : Seats, field : Nat \cup {Junk}, cycle : Cycles]
    BY <2>2, <2>3 DEF Seats
  <2> QED BY <1>1, <2>1, <2>2, <2>4, <2>5, <2>6 DEF PricingInv
<1>5. CASE UNCHANGED <<calculator, quote, checkoutLink>>
  BY <1>5 DEF PricingInv
<1> QED
  BY <1>2, <1>3, <1>4, <1>5
  DEF PricingNext, handlePaymentSubmit, updateCapacity, ToDashboard, pricingVars

(* The page opened with the seats and the cycle of its address.            *)
LEMMA PricingStarts ==
  ASSUME PricingInit PROVE PricingInv
<1>1. PICK n \in Params, c \in Cycles :
        /\ checkoutLink = [seats |-> n, cycle |-> c]
        /\ calculator = [seats |-> n, field |-> n, cycle |-> c]
        /\ \E price \in calculateGraduatedPricing(n, c) :
             quote = [seats |-> n, cycle |-> c, price |-> price]
  BY DEF PricingInit
<1>2. n \in Seats
  BY PricingAssumption DEF Seats
<1>3. PICK price \in calculateGraduatedPricing(n, c) : quote = [seats |-> n, cycle |-> c, price |-> price]
  BY <1>1
<1>4. Sound(price)
  BY <1>2, <1>3, PricesSound DEF Seats
<1>5. calculator \in [seats : Seats, field : Nat \cup {Junk}, cycle : Cycles]
  BY <1>1, <1>2 DEF Seats
<1> QED BY <1>1, <1>2, <1>3, <1>4, <1>5 DEF PricingInv

(* For any number of seats a link asks for, a slider is moved to or a user *)
(* types, both cycles and whichever way exact halves are rounded: the      *)
(* price charges each seat the rate of its position, the lines add up to   *)
(* the total shown under them, and the page quotes what the calculator     *)
(* beside it shows (calculateGraduatedPricing, handleSeatsChange).         *)
THEOREM PricesRight == PricingSpec => []PriceAddsUp
<1>1. PricingInit => PricingInv
  BY PricingStarts
<1>2. PricingInv /\ [PricingNext]_pricingVars => PricingInv'
  BY PricingStep
<1>3. PricingInv /\ QuoteFollowsCalculator => PriceAddsUp
  BY DEF PricingInv, Sound, PriceAddsUp, ChargedSeatBySeat, LinesAddUp
<1> QED BY <1>1, <1>2, <1>3, QuoteFollows, PTL DEF PricingSpec

-----------------------------------------------------------------------------
(* The consoles together: each behaviour is one of each part, of which all *)
(* but one rest.                                                           *)

(* A behaviour of the consoles is a behaviour of each part. *)
LEMMA PartsRun ==
  Init /\ [][Next]_consoleVars =>
    KeyRingSpec /\ AttSpec /\ CrmSpec /\ RotationSpec /\ ProvisioningSpec /\ PricingSpec
<1>1. Init => KeyRingInit /\ AttInit /\ CrmInit /\ RotationInit /\ ProvisioningInit /\ PricingInit
  BY DEF Init
<1>2. [Next]_consoleVars => [KeyRingNext]_keyVars
  BY DEF Next, consoleVars
<1>3. [Next]_consoleVars => [AttNext]_attVars
  BY DEF Next, consoleVars
<1>4. [Next]_consoleVars => [CrmNext]_crmVars
  BY DEF Next, consoleVars
<1>5. [Next]_consoleVars => [RotationNext]_rotationVars
  BY DEF Next, consoleVars
<1>6. [Next]_consoleVars => [ProvisioningNext]_provisioningVars
  BY DEF Next, consoleVars
<1>7. [Next]_consoleVars => [PricingNext]_pricingVars
  BY DEF Next, consoleVars
<1> QED BY <1>1, <1>2, <1>3, <1>4, <1>5, <1>6, <1>7, PTL
        DEF KeyRingSpec, AttSpec, CrmSpec, RotationSpec, ProvisioningSpec, PricingSpec

(* The parts there are. *)
Parts == {"keys", "attachments", "crm", "rotation", "pricing", "provisioning"}

(* The part that moves never changes. *)
LEMMA PartChosen == Init /\ [][Next]_consoleVars => [](part \in Parts)
<1>1. Init => part \in Parts
  BY DEF Init, Parts
<1>2. part \in Parts /\ [Next]_consoleVars => (part \in Parts)'
  BY DEF Next, consoleVars
<1> QED BY <1>1, <1>2, PTL

(* Every request, row and form of the consoles stays well formed, whatever *)
(* the sets of users, organisations, mailboxes and attachments.            *)
THEOREM ConsolesTyped == FairSpec => []ConsolesTypeOK
<1>1. CrmSpec => []CrmTypeOK
  <2>1. CrmInv => CrmTypeOK
    BY CrmTypedImplies DEF CrmInv
  <2> QED BY <2>1, CrmInitHolds, CrmStep, PTL DEF CrmSpec
<1>2. RotationSpec => []RotationTypeOK
  <2>1. RotationInv => RotationTypeOK
    BY RotationTypedImplies DEF RotationInv
  <2> QED BY <2>1, RotationInitHolds, RotationStep, PTL DEF RotationSpec
<1>3. ProvisioningSpec => []ProvisioningTypeOK
  <2>1. ProvInv => ProvisioningTypeOK
    BY ProvInvImplies
  <2> QED BY <2>1, ProvInitHolds, ProvStep, PTL DEF ProvisioningSpec
<1>4. /\ part \in Parts /\ KeyRingTypeOK /\ AttTypeOK /\ CrmTypeOK /\ RotationTypeOK
      /\ ProvisioningTypeOK
      => ConsolesTypeOK
  BY DEF Parts, ConsolesTypeOK
<1> QED BY <1>1, <1>2, <1>3, <1>4, PartsRun, PartChosen, KeyRingTyped, AttTypeCorrect,
           PTL DEF FairSpec

(* What the console and the page of mailboxes show agrees with the server, *)
(* and the server keeps to its limits, in every behaviour of the consoles  *)
(* (handleToggleSuspend, refetchMailboxes, mailboxInviteHandler,           *)
(* mailboxAliasesHandler, deleteMailbox, invitationClaimHandler).          *)
THEOREM PagesAgree == FairSpec => []PagesAndServerAgree
<1>1. /\ ConsoleMatchesServer
      /\ OwnWritesShown /\ OverrunBounded /\ AliasQuotaKept /\ DeletedStaysGone
      => PagesAndServerAgree
  BY DEF PagesAndServerAgree
<1> QED BY <1>1, PartsRun, ConsoleShowsServer, MailboxesKept, PTL DEF FairSpec

(* The price adds up in every behaviour of the consoles                    *)
(* (calculateGraduatedPricing).                                            *)
THEOREM PricesAddUp == FairSpec => []PriceAddsUp
<1> QED BY PartsRun, PricesRight, PTL DEF FairSpec
=============================================================================
