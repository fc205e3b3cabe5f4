-------------------------- MODULE EventLedgerProofs --------------------------
(***************************************************************************)
(* What holds of the ledger and its read model for any number of recorders *)
(* and crashes: the read model holds nothing the ledger does not, nothing  *)
(* twice, and never the later of two events before the earlier.            *)
(*                                                                         *)
(* RecordedOrder is not inductive.  A replay appends what is missing after *)
(* what is there, so it must never append an event that something in the   *)
(* table was recorded after; that it does not is NothingOverdue.           *)
(*                                                                         *)
(* And for at most two recorders: the read model has all of it.  With any  *)
(* number, a replay from the beginning brings all of it back.              *)
(***************************************************************************)
EXTENDS EventLedger, FiniteSetTheorems, TLAPS

Missing(i) == i \in 1 .. Len(ledger) /\ ledger[i] \notin Elements(rows) \cup Orphan

\* A line is written once, by the one recorder that waits for it.
OneLineEach ==
  /\ \A i, j \in 1 .. Len(ledger) : ledger[i] = ledger[j] => i = j
  /\ \A r, q \in Recorder : writing[r] # None /\ writing[r] = writing[q] => r = q
  /\ \A r \in Recorder : r \in landed <=> writing[r] \in Elements(ledger)
  /\ \A r \in Recorder : writing[r] # None => mode = "up"
  /\ \A e \in Elements(ledger) \cup InFlight : earlier[e] # None

\* The ledger itself has the order callers saw.
LinesInOrder ==
  /\ \A e \in Event : earlier[e] # None => earlier[e] \subseteq Settled
  /\ \A i, j \in 1 .. Len(ledger) : ledger[i] \in earlier[ledger[j]] => i < j

\* What a replay has passed is in the table; one that began at the beginning
\* has nothing else in it, and any other began at the counter.
ReplaySoFar ==
  mode = "opening" =>
    /\ from \in {0, counter}
    /\ from <= cursor /\ cursor <= Len(ledger)
    /\ orphaned <= cursor - from
    /\ \A i \in (from + 1) .. cursor : ~Missing(i)
    /\ from = 0 => Elements(rows) \subseteq {ledger[i] : i \in 1 .. cursor}

\* What is missing, and should have been there when a row was recorded or is
\* needed by nobody in flight, lies before the counter: no replay returns to it.
NothingOverdue ==
  /\ \A i \in Nat, k \in 1 .. Len(rows) :
       Missing(i) /\ ledger[i] \in earlier[rows[k]] => i <= counter
  /\ mode = "up" => \A i \in Nat :
       Missing(i) /\ ledger[i] \in Settled => i <= counter

LedgerInv == /\ LedgerTypeOK
             /\ OneLineEach
             /\ RowsComeFromLedger
             /\ LinesInOrder
             /\ ReplaySoFar
             /\ NothingOverdue
             /\ RecordedOrder

-----------------------------------------------------------------------------
\* One more element at the end of a sequence.
LEMMA AppendFacts ==
  ASSUME NEW S, NEW s \in Seq(S), NEW e \in S
  PROVE  /\ Append(s, e) \in Seq(S)
         /\ Len(Append(s, e)) = Len(s) + 1
         /\ \A i \in 1 .. Len(s) : Append(s, e)[i] = s[i]
         /\ Append(s, e)[Len(s) + 1] = e
         /\ Elements(Append(s, e)) = Elements(s) \cup {e}
<1>1. /\ Append(s, e) \in Seq(S)
      /\ Len(Append(s, e)) = Len(s) + 1
      /\ \A i \in 1 .. Len(s) : Append(s, e)[i] = s[i]
      /\ Append(s, e)[Len(s) + 1] = e
      /\ Len(s) \in Nat
  OBVIOUS
<1>2. 1 .. (Len(s) + 1) = (1 .. Len(s)) \cup {Len(s) + 1}
  BY <1>1
<1>3. QED
  BY <1>1, <1>2 DEF Elements

\* projectEvent keeps every row where it is and adds at most one at the end.
LEMMA ProjectedFacts ==
  ASSUME rows \in Seq(Event), NEW e \in Event
  PROVE  /\ Projected(e) \in Seq(Event)
         /\ Elements(Projected(e)) = Elements(rows) \cup {e}
         /\ \A i \in 1 .. Len(rows) : Projected(e)[i] = rows[i]
         /\ \/ e \in Elements(rows) /\ Projected(e) = rows
            \/ /\ e \notin Elements(rows)
               /\ Len(Projected(e)) = Len(rows) + 1
               /\ Projected(e)[Len(rows) + 1] = e
<1>1. CASE e \in Elements(rows)
  BY <1>1 DEF Projected
<1>2. CASE e \notin Elements(rows)
  <2>1. Projected(e) = Append(rows, e)
    BY <1>2 DEF Projected
  <2>2. QED
    BY <1>2, <2>1, AppendFacts
<1>3. QED
  BY <1>1, <1>2

-----------------------------------------------------------------------------
\* Every row is an event somebody recorded.
LEMMA RowsWereRecorded ==
  ASSUME LedgerTypeOK, OneLineEach, RowsComeFromLedger
  PROVE  \A k \in 1 .. Len(rows) : /\ rows[k] \in Event
                                   /\ rows[k] \in Elements(ledger)
                                   /\ earlier[rows[k]] # None
<1> SUFFICES ASSUME NEW k \in 1 .. Len(rows)
             PROVE  /\ rows[k] \in Event
                    /\ rows[k] \in Elements(ledger)
                    /\ earlier[rows[k]] # None
  OBVIOUS
<1>1. rows[k] \in Event
  BY DEF LedgerTypeOK
<1>2. rows[k] \in Elements(rows)
  BY DEF Elements
<1>3. rows[k] \in Elements(ledger)
  BY <1>2 DEF RowsComeFromLedger
<1>4. QED
  BY <1>1, <1>3 DEF OneLineEach

LEMMA InitInv == LedgerInit => LedgerInv
<1> SUFFICES ASSUME LedgerInit PROVE LedgerInv
  OBVIOUS
<1>1. Elements(ledger) = {} /\ Elements(rows) = {} /\ InFlight = {} /\ Len(ledger) = 0
      /\ Len(rows) = 0
  BY DEF LedgerInit, InFlight, Elements
<1>2. LedgerTypeOK
  BY LedgerAssumption DEF LedgerInit, LedgerTypeOK
<1>3. OneLineEach /\ RowsComeFromLedger /\ LinesInOrder /\ RecordedOrder
  BY <1>1 DEF LedgerInit, OneLineEach, RowsComeFromLedger, LinesInOrder, RecordedOrder
<1>4. ReplaySoFar /\ NothingOverdue
  BY <1>1 DEF LedgerInit, ReplaySoFar, NothingOverdue, Missing
<1>5. QED
  BY <1>2, <1>3, <1>4 DEF LedgerInv

\* A recorder begins: what it records is new to the ledger and to the table.
LEMMA RecordStep ==
  ASSUME LedgerInv, NEW r \in Recorder, Record(r)
  PROVE  LedgerInv'
<1> USE DEF LedgerInv
<1>1. PICK e \in Event : /\ earlier[e] = None
                         /\ writing' = [writing EXCEPT ![r] = e]
                         /\ earlier' = [earlier EXCEPT ![e] = Settled]
  BY DEF Record
<1>2. /\ mode = "up" /\ writing[r] = None
      /\ UNCHANGED <<ledger, rows, counter, mode, from, cursor, orphaned, landed, crashes>>
  BY DEF Record, reading
<1>3. Settled \subseteq Event /\ Settled # None /\ e # None
  BY LedgerAssumption DEF Settled, LedgerTypeOK, Elements
<1>4. /\ writing'[r] = e /\ \A q \in Recorder \ {r} : writing'[q] = writing[q]
      /\ earlier'[e] = Settled /\ \A f \in Event \ {e} : earlier'[f] = earlier[f]
  BY <1>1 DEF LedgerTypeOK
<1>5. e \notin Elements(ledger) /\ e \notin Elements(rows) /\ e \notin InFlight
  BY <1>1 DEF OneLineEach, RowsComeFromLedger
<1>6. InFlight' = InFlight \cup {e}
  BY <1>2, <1>3, <1>4 DEF InFlight
<1>7. Settled' = Settled
  BY <1>2, <1>5, <1>6 DEF Settled
<1>8. LedgerTypeOK'
  BY <1>1, <1>2, <1>3 DEF LedgerTypeOK
<1>9. OneLineEach'
  <2>1. \A q \in Recorder : writing[q] # e
    BY <1>3, <1>5 DEF InFlight
  <2>2. r \notin landed
    BY <1>2, LedgerAssumption DEF OneLineEach, LedgerTypeOK, Elements
  <2>3. \A f \in Elements(ledger) \cup InFlight : f \in Event
    BY DEF LedgerTypeOK, InFlight, Elements
  <2>4. \A f \in (Elements(ledger) \cup InFlight)' : earlier'[f] # None
    BY <1>2, <1>3, <1>4, <1>6, <2>3 DEF OneLineEach
  <2>5. QED
    BY <1>2, <1>3, <1>4, <1>5, <2>1, <2>2, <2>4 DEF OneLineEach
<1>10. LinesInOrder'
  <2>1. \A i \in 1 .. Len(ledger) : ledger[i] \in Event /\ ledger[i] # e
    BY <1>5 DEF LedgerTypeOK, Elements
  <2>2. QED
    BY <1>2, <1>3, <1>4, <1>7, <2>1 DEF LinesInOrder
<1>11. \A k \in 1 .. Len(rows) : earlier'[rows[k]] = earlier[rows[k]]
  BY <1>4, <1>5 DEF LedgerTypeOK, Elements
<1>12. RowsComeFromLedger' /\ RecordedOrder' /\ ReplaySoFar'
  BY <1>2, <1>11 DEF RowsComeFromLedger, RecordedOrder, ReplaySoFar
<1>13. NothingOverdue'
  BY <1>2, <1>7, <1>11 DEF NothingOverdue, Missing
<1>14. QED
  BY <1>8, <1>9, <1>10, <1>12, <1>13

\* A line lands: it is the last, and nothing was recorded after it was settled.
LEMMA AppendLandsStep ==
  ASSUME LedgerInv, NEW r \in Recorder, AppendLands(r)
  PROVE  LedgerInv'
<1> USE DEF LedgerInv
<1> DEFINE e == writing[r]
           n == Len(ledger)
<1>1. /\ mode = "up" /\ e # None /\ r \notin landed
      /\ ledger' = Append(ledger, e)
      /\ landed' = landed \cup {r}
      /\ UNCHANGED <<rows, counter, mode, from, cursor, orphaned, writing, crashes, earlier>>
  BY DEF AppendLands, reading
<1>2. e \in Event /\ ledger \in Seq(Event) /\ n \in Nat
  BY <1>1 DEF LedgerTypeOK
<1>3. e \notin Elements(ledger) /\ e \in InFlight
  BY <1>1 DEF OneLineEach, InFlight
<1> HIDE DEF e
<1>4. /\ ledger' \in Seq(Event) /\ Len(ledger') = n + 1
      /\ \A i \in 1 .. n : ledger'[i] = ledger[i]
      /\ ledger'[n + 1] = e
      /\ Elements(ledger') = Elements(ledger) \cup {e}
  BY <1>1, <1>2, AppendFacts
<1>5. InFlight' = InFlight
  BY <1>1 DEF InFlight
<1>6. Settled' = Settled
  BY <1>3, <1>4, <1>5 DEF Settled
<1>7. LedgerTypeOK'
  BY <1>1, <1>4 DEF LedgerTypeOK
<1>8. OneLineEach'
  <2>1. \A i, j \in 1 .. n + 1 : ledger'[i] = ledger'[j] => i = j
    BY <1>2, <1>3, <1>4 DEF OneLineEach, Elements
  <2>2. \A q \in Recorder : q \in landed' <=> writing'[q] \in Elements(ledger')
    <3>1. \A q \in Recorder : writing[q] = e <=> q = r
      BY <1>1 DEF OneLineEach, e
    <3>2. QED
      BY <1>1, <1>4, <3>1 DEF OneLineEach
  <2>3. QED
    BY <1>1, <1>3, <1>4, <1>5, <2>1, <2>2 DEF OneLineEach
<1>9. RowsComeFromLedger' /\ RecordedOrder' /\ ReplaySoFar'
  BY <1>1, <1>4 DEF RowsComeFromLedger, RecordedOrder, ReplaySoFar
<1>10. e \notin Settled
  BY <1>3 DEF Settled
<1>11. \A f \in Event : earlier[f] # None => e \notin earlier[f]
  BY <1>10 DEF LinesInOrder
<1>12. earlier[e] # None
  BY <1>3 DEF OneLineEach
<1>13. LinesInOrder'
  <2>1. \A i, j \in 1 .. n + 1 : ledger'[i] \in earlier[ledger'[j]] => i < j
    <3> SUFFICES ASSUME NEW i \in 1 .. n + 1, NEW j \in 1 .. n + 1,
                        ledger'[i] \in earlier[ledger'[j]]
                 PROVE  i < j
      OBVIOUS
    <3>1. ledger'[j] \in Event /\ earlier[ledger'[j]] # None
      <4>1. CASE j = n + 1
        BY <1>2, <1>4, <1>12, <4>1
      <4>2. CASE j \in 1 .. n
        BY <1>2, <1>4, <4>2 DEF OneLineEach, Elements
      <4>3. QED
        BY <1>2, <4>1, <4>2
    <3>2. i \in 1 .. n
      BY <1>2, <1>4, <1>11, <3>1
    <3>3. QED
      BY <1>2, <1>4, <3>2 DEF LinesInOrder
  <2>2. QED
    BY <1>1, <1>4, <1>6, <2>1 DEF LinesInOrder
<1>14. NothingOverdue'
  <2>1. \A k \in 1 .. Len(rows) : rows[k] \in Event /\ earlier[rows[k]] # None
    BY RowsWereRecorded
  <2>2. \A i \in Nat : Missing(i)' => \/ i = n + 1 /\ ledger'[i] = e
                                      \/ Missing(i) /\ ledger'[i] = ledger[i]
    <3> SUFFICES ASSUME NEW i \in Nat, Missing(i)'
                 PROVE  \/ i = n + 1 /\ ledger'[i] = e
                        \/ Missing(i) /\ ledger'[i] = ledger[i]
      OBVIOUS
    <3>1. i \in 1 .. n + 1 /\ ledger'[i] \notin Elements(rows) \cup Orphan
      BY <1>1, <1>4 DEF Missing
    <3>2. i = n + 1 \/ i \in 1 .. n
      BY <1>2, <3>1
    <3>3. QED
      BY <1>4, <3>1, <3>2 DEF Missing
  <2>3. QED
    BY <1>1, <1>6, <1>10, <1>11, <2>1, <2>2 DEF NothingOverdue
<1>15. QED
  BY <1>7, <1>8, <1>9, <1>13, <1>14

\* An append is rejected: its event was never in the ledger, and never will be.
LEMMA AppendFailsStep ==
  ASSUME LedgerInv, NEW r \in Recorder, AppendFails(r)
  PROVE  LedgerInv'
<1> USE DEF LedgerInv
<1>1. /\ mode = "up" /\ writing[r] # None /\ r \notin landed
      /\ writing' = [writing EXCEPT ![r] = None]
      /\ UNCHANGED <<ledger, rows, counter, mode, from, cursor, orphaned, landed, crashes, earlier>>
  BY DEF AppendFails, reading
<1>2. writing[r] \notin Elements(ledger)
  BY <1>1 DEF OneLineEach
<1>3. writing'[r] = None /\ \A q \in Recorder \ {r} : writing'[q] = writing[q]
  BY <1>1 DEF LedgerTypeOK
<1>4. InFlight' \subseteq InFlight /\ Settled' = Settled
  <2>1. InFlight' = InFlight \ {writing[r]}
    BY <1>1, <1>3 DEF InFlight, OneLineEach
  <2>2. QED
    BY <1>1, <1>2, <2>1 DEF Settled
<1>5. LedgerTypeOK'
  BY <1>1 DEF LedgerTypeOK
<1>6. OneLineEach'
  <2>1. None \notin Elements(ledger)
    BY LedgerAssumption DEF LedgerTypeOK, Elements
  <2>2. QED
    BY <1>1, <1>3, <1>4, <2>1 DEF OneLineEach
<1>7. LinesInOrder' /\ NothingOverdue'
  BY <1>1, <1>4 DEF LinesInOrder, NothingOverdue, Missing
<1>8. RowsComeFromLedger' /\ RecordedOrder'
  BY <1>1 DEF RowsComeFromLedger, RecordedOrder
<1>9. ReplaySoFar'
  BY <1>1 DEF ReplaySoFar
<1>10. QED
  BY <1>5, <1>6, <1>7, <1>8, <1>9

\* A recorder is done with a line that is in the ledger.
LEMMA SettlesFacts ==
  ASSUME LedgerInv, NEW r \in Recorder, r \in landed, Settles(r),
         UNCHANGED <<ledger, mode, earlier>>
  PROVE  /\ OneLineEach' /\ LinesInOrder'
         /\ writing' \in [Recorder -> Event \cup {None}] /\ landed' \subseteq Recorder
         /\ Settled' = Settled \cup {writing[r]}
<1> USE DEF LedgerInv
<1>1. writing' = [writing EXCEPT ![r] = None] /\ landed' = landed \ {r}
  BY DEF Settles
<1>2. writing'[r] = None /\ \A q \in Recorder \ {r} : writing'[q] = writing[q]
  BY <1>1 DEF LedgerTypeOK
<1>3. writing[r] \in Elements(ledger) /\ None \notin Elements(ledger)
  BY LedgerAssumption DEF OneLineEach, LedgerTypeOK, Elements
<1>4. InFlight' = InFlight \ {writing[r]}
  <2>1. \A q \in Recorder \ {r} : writing[q] # writing[r]
    BY <1>3 DEF OneLineEach
  <2>2. QED
    BY <1>2, <2>1 DEF InFlight
<1>5. Settled' = Settled \cup {writing[r]}
  BY <1>3, <1>4 DEF Settled
<1>6. OneLineEach'
  BY <1>1, <1>2, <1>3, <1>4 DEF OneLineEach
<1>7. LinesInOrder'
  BY <1>5 DEF LinesInOrder
<1>8. QED
  BY <1>1, <1>5, <1>6, <1>7 DEF LedgerTypeOK

\* A line that is in the ledger, not settled before the insert, is inserted:
\* nothing in the table was recorded after it was settled.
LEMMA InsertFacts ==
  ASSUME LedgerInv, NEW r \in Recorder, r \in landed, mode = "up",
         rows' = Projected(writing[r]), UNCHANGED <<ledger, earlier>>
  PROVE  /\ rows' \in Seq(Event)
         /\ Elements(rows') = Elements(rows) \cup {writing[r]}
         /\ RowsComeFromLedger' /\ RecordedOrder'
         /\ \A i \in Nat, k \in 1 .. Len(rows') :
              Missing(i)' /\ ledger[i] \in earlier[rows'[k]] => i <= counter
<1> USE DEF LedgerInv
<1> DEFINE e == writing[r]
<1>1. e \in Elements(ledger) /\ e \in Event /\ e # None /\ e \in InFlight
  BY LedgerAssumption DEF OneLineEach, LedgerTypeOK, InFlight, Elements
<1>2. e \notin Settled
  BY <1>1 DEF Settled
<1>3. rows \in Seq(Event) /\ rows' = Projected(e)
  BY DEF LedgerTypeOK
<1> HIDE DEF e
<1>4. /\ rows' \in Seq(Event)
      /\ Elements(rows') = Elements(rows) \cup {e}
      /\ \A i \in 1 .. Len(rows) : rows'[i] = rows[i]
      /\ \/ e \in Elements(rows) /\ rows' = rows
         \/ /\ e \notin Elements(rows)
            /\ Len(rows') = Len(rows) + 1
            /\ rows'[Len(rows) + 1] = e
  BY <1>1, <1>3, ProjectedFacts
<1>5. earlier[e] # None /\ earlier[e] \subseteq Settled
  BY <1>1 DEF OneLineEach, LinesInOrder
<1>6. \A i \in Nat : Missing(i)' => Missing(i)
  BY <1>4 DEF Missing
<1>7. \A k \in 1 .. Len(rows) : /\ rows[k] \in Event /\ earlier[rows[k]] # None
                                /\ e \notin earlier[rows[k]]
  BY <1>2, RowsWereRecorded DEF LinesInOrder
<1>8. CASE rows' = rows
  <2>1. RowsComeFromLedger' /\ RecordedOrder'
    BY <1>8 DEF RowsComeFromLedger, RecordedOrder
  <2>2. QED
    BY <1>4, <1>6, <1>8, <2>1 DEF NothingOverdue, e
<1>9. CASE /\ e \notin Elements(rows) /\ Len(rows') = Len(rows) + 1
           /\ rows'[Len(rows) + 1] = e
  <2>1. Len(rows) \in Nat /\ \A i \in 1 .. Len(rows') : i \in 1 .. Len(rows) \/ i = Len(rows) + 1
    BY <1>3, <1>9
  <2>2. \A i \in 1 .. Len(rows) : rows[i] # e
    BY <1>9 DEF Elements
  <2>3. Elements(rows') \subseteq Elements(ledger)
    BY <1>1, <1>4 DEF RowsComeFromLedger, e
  <2>4. \A i, j \in 1 .. Len(rows') : rows'[i] = rows'[j] => i = j
    BY <1>4, <1>9, <2>1, <2>2 DEF RowsComeFromLedger
  <2>5. RowsComeFromLedger'
    BY <2>3, <2>4 DEF RowsComeFromLedger
  <2>6. e \notin earlier[e]
    BY <1>2, <1>5
  <2>7. \A i, j \in 1 .. Len(rows') : rows'[i] \in earlier[rows'[j]] => i < j
    <3> SUFFICES ASSUME NEW i \in 1 .. Len(rows'), NEW j \in 1 .. Len(rows'),
                        rows'[i] \in earlier[rows'[j]]
                 PROVE  i < j
      OBVIOUS
    <3>1. i \in 1 .. Len(rows)
      BY <1>4, <1>7, <1>9, <2>1, <2>6
    <3>2. CASE j = Len(rows) + 1
      BY <2>1, <3>1, <3>2
    <3>3. CASE j \in 1 .. Len(rows)
      BY <1>4, <3>1, <3>3 DEF RecordedOrder
    <3>4. QED
      BY <2>1, <3>2, <3>3
  <2>8. RecordedOrder'
    BY <2>7 DEF RecordedOrder
  <2>9. \A i \in Nat, k \in 1 .. Len(rows') :
           Missing(i) /\ ledger[i] \in earlier[rows'[k]] => i <= counter
    BY <1>4, <1>5, <1>9, <2>1 DEF NothingOverdue
  <2>10. QED
    BY <1>4, <1>6, <2>5, <2>8, <2>9 DEF e
<1>10. QED
  BY <1>4, <1>8, <1>9

LEMMA ProjectStep ==
  ASSUME LedgerInv, NEW r \in Recorder, Project(r)
  PROVE  LedgerInv'
<1> USE DEF LedgerInv
<1>1. /\ mode = "up" /\ r \in landed /\ rows' = Projected(writing[r])
      /\ counter' = counter + 1 /\ Settles(r)
      /\ UNCHANGED <<ledger, mode, from, cursor, orphaned, crashes, earlier>>
  BY DEF Project, reading
<1>2. /\ OneLineEach' /\ LinesInOrder'
      /\ writing' \in [Recorder -> Event \cup {None}] /\ landed' \subseteq Recorder
      /\ Settled' = Settled \cup {writing[r]}
  BY <1>1, SettlesFacts
<1>3. /\ rows' \in Seq(Event)
      /\ Elements(rows') = Elements(rows) \cup {writing[r]}
      /\ RowsComeFromLedger' /\ RecordedOrder'
      /\ \A i \in Nat, k \in 1 .. Len(rows') :
           Missing(i)' /\ ledger[i] \in earlier[rows'[k]] => i <= counter
  BY <1>1, InsertFacts
<1>4. LedgerTypeOK'
  BY <1>1, <1>2, <1>3 DEF LedgerTypeOK
<1>5. ReplaySoFar'
  BY <1>1 DEF ReplaySoFar
<1>6. NothingOverdue'
  <2>1. counter \in Nat
    BY DEF LedgerTypeOK
  <2>2. \A i \in Nat : Missing(i)' => Missing(i) /\ ledger[i] # writing[r]
    BY <1>1, <1>3 DEF Missing
  <2>3. \A i \in Nat : Missing(i)' /\ ledger[i] \in Settled' => i <= counter
    BY <1>1, <1>2, <2>2 DEF NothingOverdue
  <2>4. QED
    BY <1>1, <1>3, <2>1, <2>3 DEF NothingOverdue
<1>7. QED
  BY <1>2, <1>3, <1>4, <1>5, <1>6

LEMMA ProjectThrowsStep ==
  ASSUME LedgerInv, NEW r \in Recorder, ProjectThrows(r)
  PROVE  LedgerInv'
<1> USE DEF LedgerInv
<1>1. /\ mode = "up" /\ r \in landed /\ writing[r] \in Orphan /\ Settles(r)
      /\ UNCHANGED <<ledger, rows, counter, mode, from, cursor, orphaned, crashes, earlier>>
  BY DEF ProjectThrows, reading
<1>2. /\ OneLineEach' /\ LinesInOrder'
      /\ writing' \in [Recorder -> Event \cup {None}] /\ landed' \subseteq Recorder
      /\ Settled' = Settled \cup {writing[r]}
  BY <1>1, SettlesFacts
<1>3. LedgerTypeOK'
  BY <1>1, <1>2 DEF LedgerTypeOK
<1>4. RowsComeFromLedger' /\ RecordedOrder'
  BY <1>1 DEF RowsComeFromLedger, RecordedOrder
<1>5. ReplaySoFar'
  BY <1>1 DEF ReplaySoFar
<1>6. NothingOverdue'
  BY <1>1, <1>2 DEF NothingOverdue, Missing
<1>7. QED
  BY <1>2, <1>3, <1>4, <1>5, <1>6

\* The process dies: everything that was in flight is now settled.
LEMMA CrashStep ==
  ASSUME LedgerInv, Crash
  PROVE  LedgerInv'
<1> USE DEF LedgerInv
<1>1. /\ mode' = "down" /\ crashes' = crashes + 1
      /\ writing' = [r \in Recorder |-> None] /\ landed' = {}
      /\ UNCHANGED <<ledger, counter, from, cursor, orphaned, earlier>>
      /\ \/ UNCHANGED rows
         \/ \E r \in landed : rows' = Projected(writing[r])
  BY DEF Crash, reading
<1>2. InFlight' = {} /\ Settled \subseteq Settled'
  BY <1>1 DEF InFlight, Settled
<1>3. OneLineEach'
  <2>1. None \notin Elements(ledger)
    BY LedgerAssumption DEF LedgerTypeOK, Elements
  <2>2. \A r \in Recorder : writing'[r] = None /\ r \notin landed'
    BY <1>1
  <2>3. QED
    BY <1>1, <1>2, <2>1, <2>2 DEF OneLineEach
<1>4. LinesInOrder'
  BY <1>1, <1>2 DEF LinesInOrder
<1>5. ReplaySoFar'
  BY <1>1 DEF ReplaySoFar
<1>6. /\ rows' \in Seq(Event) /\ RowsComeFromLedger' /\ RecordedOrder'
      /\ \A i \in Nat, k \in 1 .. Len(rows') :
           Missing(i)' /\ ledger[i] \in earlier[rows'[k]] => i <= counter
  <2>1. CASE UNCHANGED rows
    <3>1. RowsComeFromLedger' /\ RecordedOrder'
      BY <1>1, <2>1 DEF RowsComeFromLedger, RecordedOrder
    <3>2. QED
      BY <1>1, <2>1, <3>1 DEF NothingOverdue, Missing, LedgerTypeOK
  <2>2. CASE \E r \in landed : rows' = Projected(writing[r])
    <3>1. PICK r \in landed : rows' = Projected(writing[r])
      BY <2>2
    <3>2. r \in Recorder
      BY DEF LedgerTypeOK
    <3>3. mode = "up"
      BY <3>2, LedgerAssumption DEF OneLineEach, LedgerTypeOK, Elements
    <3>4. QED
      BY <1>1, <3>1, <3>2, <3>3, InsertFacts
  <2>3. QED
    BY <1>1, <2>1, <2>2
<1>7. LedgerTypeOK'
  BY <1>1, <1>6 DEF LedgerTypeOK
<1>8. NothingOverdue'
  BY <1>1, <1>6 DEF NothingOverdue
<1>9. QED
  BY <1>3, <1>4, <1>5, <1>6, <1>7, <1>8

\* Opening: a replay from the counter, or from the beginning with no rows.
LEMMA OpenStep ==
  ASSUME LedgerInv, Open \/ Rebuild \/ RebuildDies
  PROVE  LedgerInv'
<1> USE DEF LedgerInv
<1>1. UNCHANGED <<ledger, writing, landed, earlier>>
  BY DEF Open, Rebuild, RebuildDies
<1>2. /\ mode = "down" /\ mode' \in {"down", "opening"}
      /\ counter' \in Nat /\ from' \in Nat /\ cursor' \in Nat /\ orphaned' \in Nat
      /\ crashes' \in Nat
      /\ rows' = <<>> \/ UNCHANGED <<rows, counter>>
  BY DEF Open, Rebuild, RebuildDies, BeginReplay, LedgerTypeOK, reading
<1>3. <<>> \in Seq(Event) /\ Len(<<>>) = 0 /\ Elements(<<>>) = {}
  BY DEF Elements
<1>4. LedgerTypeOK'
  BY <1>1, <1>2, <1>3 DEF LedgerTypeOK
<1>5. InFlight' = InFlight /\ Settled' = Settled
  BY <1>1 DEF InFlight, Settled
<1>6. LinesInOrder'
  BY <1>1, <1>5 DEF LinesInOrder
<1>7. OneLineEach'
  <2>1. \A r \in Recorder : writing[r] = None
    BY <1>2 DEF OneLineEach
  <2>2. QED
    BY <1>1, <1>5, <2>1 DEF OneLineEach
<1>8. RowsComeFromLedger' /\ RecordedOrder'
  <2>1. CASE rows' = <<>>
    BY <1>3, <2>1 DEF RowsComeFromLedger, RecordedOrder
  <2>2. CASE UNCHANGED <<rows, counter>>
    BY <1>1, <2>2 DEF RowsComeFromLedger, RecordedOrder
  <2>3. QED
    BY <1>2, <2>1, <2>2
<1>9. NothingOverdue'
  <2>1. CASE rows' = <<>>
    BY <1>2, <1>3, <2>1 DEF NothingOverdue
  <2>2. CASE UNCHANGED <<rows, counter>>
    BY <1>1, <1>2, <2>2 DEF NothingOverdue, Missing
  <2>3. QED
    BY <1>2, <2>1, <2>2
<1>10. ReplaySoFar'
  <2> SUFFICES ASSUME mode' = "opening"
               PROVE  /\ from' \in {0, counter'} /\ from' = cursor' /\ orphaned' = 0
                      /\ cursor' <= Len(ledger)
                      /\ from' = 0 => rows' = <<>>
    BY <1>1, <1>2, <1>3 DEF ReplaySoFar
  <2>1. Len(ledger) \in Nat /\ Len(rows) \in Nat /\ counter \in Nat
    BY DEF LedgerTypeOK
  <2>2. CASE Open /\ CanReplay
    <3>1. /\ BeginReplay(counter) /\ UNCHANGED <<rows, counter>>
          /\ Len(rows) = counter /\ counter <= Len(ledger)
      BY <2>2 DEF Open, CanReplay
    <3>2. counter = 0 => rows = <<>>
      BY <3>1 DEF LedgerTypeOK
    <3>3. QED
      BY <3>1, <3>2 DEF BeginReplay
  <2>3. CASE Open /\ ~CanReplay
    BY <2>1, <2>3 DEF Open, BeginReplay
  <2>4. CASE Rebuild
    BY <2>1, <2>4 DEF Rebuild, BeginReplay
  <2>5. CASE RebuildDies
    BY <1>2, <2>5 DEF RebuildDies
  <2>6. QED
    BY <2>2, <2>3, <2>4, <2>5
<1>11. QED
  BY <1>4, <1>6, <1>7, <1>8, <1>9, <1>10

\* The event a replay inserts comes after every row: one that was recorded
\* after it would be ahead of the cursor too, or the event would be overdue.
LEMMA ReplayEventStep ==
  ASSUME LedgerInv, ReplayEvent
  PROVE  LedgerInv'
<1> USE DEF LedgerInv
<1> DEFINE n == cursor + 1
           e == ledger[n]
<1>1. /\ mode = "opening" /\ cursor < Len(ledger) /\ cursor' = n
      /\ UNCHANGED <<ledger, counter, mode, from, writing, landed, crashes, earlier>>
      /\ \/ e \in Orphan /\ orphaned' = orphaned + 1 /\ UNCHANGED rows
         \/ e \notin Orphan /\ rows' = Projected(e) /\ UNCHANGED orphaned
  BY DEF ReplayEvent
<1>2. /\ from \in {0, counter} /\ from <= cursor /\ orphaned <= cursor - from
      /\ from \in Nat /\ cursor \in Nat /\ orphaned \in Nat /\ counter \in Nat
      /\ Len(ledger) \in Nat
      /\ \A i \in (from + 1) .. cursor : ~Missing(i)
      /\ from = 0 => Elements(rows) \subseteq {ledger[i] : i \in 1 .. cursor}
  BY <1>1 DEF ReplaySoFar, LedgerTypeOK
<1>3. /\ n \in 1 .. Len(ledger) /\ e \in Event /\ e \in Elements(ledger)
      /\ e \in Elements(rows) \/ e \in Orphan \/ Missing(n)
  BY <1>1, <1>2 DEF LedgerTypeOK, Elements, Missing
<1>4. earlier[e] # None
  BY <1>3 DEF OneLineEach
<1> HIDE DEF e
<1>5. InFlight' = InFlight /\ Settled' = Settled
  BY <1>1 DEF InFlight, Settled
<1>6. OneLineEach' /\ LinesInOrder'
  BY <1>1, <1>5 DEF OneLineEach, LinesInOrder
<1>7. rows \in Seq(Event)
  BY DEF LedgerTypeOK
<1>8. /\ rows' \in Seq(Event)
      /\ Elements(rows) \subseteq Elements(rows')
      /\ Elements(rows') \subseteq Elements(rows) \cup {e}
      /\ e \in Elements(rows') \cup Orphan
      /\ \A i \in 1 .. Len(rows) : rows'[i] = rows[i]
      /\ \/ UNCHANGED rows
         \/ /\ e \notin Elements(rows) \cup Orphan
            /\ Len(rows') = Len(rows) + 1
            /\ rows'[Len(rows) + 1] = e
  <2>1. CASE UNCHANGED rows /\ e \in Orphan
    BY <1>7, <2>1
  <2>2. CASE e \notin Orphan /\ rows' = Projected(e)
    BY <1>3, <1>7, <2>2, ProjectedFacts
  <2>3. QED
    BY <1>1, <2>1, <2>2
<1>9. LedgerTypeOK'
  BY <1>1, <1>2, <1>8 DEF LedgerTypeOK
<1>10. \A i \in Nat : Missing(i)' => Missing(i) /\ ledger[i] # e
  BY <1>1, <1>8 DEF Missing
<1>11. ReplaySoFar'
  <2>1. \A i \in (from + 1) .. n : ~Missing(i)'
    <3> SUFFICES ASSUME NEW i \in (from + 1) .. n, Missing(i)'
                 PROVE  FALSE
      OBVIOUS
    <3>1. i \in Nat /\ i # n
      BY <1>2, <1>10 DEF e
    <3>2. i \in (from + 1) .. cursor
      BY <1>2, <3>1
    <3>3. QED
      BY <1>2, <1>10, <3>1, <3>2
  <2>2. from = 0 => Elements(rows') \subseteq {ledger[i] : i \in 1 .. n}
    <3>1. {ledger[i] : i \in 1 .. n} = {ledger[i] : i \in 1 .. cursor} \cup {e}
      BY <1>2 DEF e
    <3>2. QED
      BY <1>2, <1>8, <3>1
  <2>3. orphaned' <= n - from /\ from <= n /\ n <= Len(ledger)
    BY <1>1, <1>2
  <2>4. QED
    BY <1>1, <1>2, <2>1, <2>2, <2>3 DEF ReplaySoFar
<1>12. \A k \in 1 .. Len(rows) : /\ rows[k] \in Event
                                 /\ rows[k] \in Elements(rows)
                                 /\ earlier[rows[k]] # None
  BY RowsWereRecorded DEF Elements
\* Nothing in the table was recorded after e, if e is not there yet.
<1>13. ASSUME e \notin Elements(rows) \cup Orphan, NEW k \in 1 .. Len(rows)
       PROVE  e \notin earlier[rows[k]]
  <2> SUFFICES ASSUME e \in earlier[rows[k]] PROVE FALSE
    OBVIOUS
  <2>1. Missing(n)
    BY <1>3, <1>13
  <2>2. n <= counter
    BY <1>3, <2>1 DEF NothingOverdue, e
  <2>3. from = 0
    BY <1>2, <2>2
  <2>4. PICK i \in 1 .. cursor : rows[k] = ledger[i]
    BY <1>2, <1>12, <2>3
  <2>5. i \in 1 .. Len(ledger) /\ i < n
    BY <1>1, <1>2
  <2>6. n < i
    BY <1>3, <2>4, <2>5 DEF LinesInOrder, e
  <2>7. QED
    BY <1>2, <2>5, <2>6
<1>14. ASSUME NEW i \in Nat, Missing(i)', ledger[i] \in earlier[e]
       PROVE  i <= counter
  <2>1. Missing(i) /\ i \in 1 .. Len(ledger)
    BY <1>10, <1>14 DEF Missing
  <2>2. i < n
    BY <1>3, <1>14, <2>1 DEF LinesInOrder, e
  <2>3. i <= from
    BY <1>2, <1>14, <2>1, <2>2
  <2>4. QED
    BY <1>2, <2>1, <2>3
<1>15. CASE UNCHANGED rows
  <2>1. RowsComeFromLedger' /\ RecordedOrder'
    BY <1>1, <1>15 DEF RowsComeFromLedger, RecordedOrder
  <2>2. NothingOverdue'
    BY <1>1, <1>10, <1>15 DEF NothingOverdue
  <2>3. QED
    BY <1>6, <1>9, <1>11, <2>1, <2>2
<1>16. CASE /\ e \notin Elements(rows) \cup Orphan
            /\ Len(rows') = Len(rows) + 1
            /\ rows'[Len(rows) + 1] = e
  <2>1. Len(rows) \in Nat /\ \A i \in 1 .. Len(rows') : i \in 1 .. Len(rows) \/ i = Len(rows) + 1
    BY <1>7, <1>16
  <2>2. RowsComeFromLedger'
    <3>1. \A i, j \in 1 .. Len(rows') : rows'[i] = rows'[j] => i = j
      BY <1>8, <1>12, <1>16, <2>1 DEF RowsComeFromLedger
    <3>2. Elements(rows') \subseteq Elements(ledger)
      BY <1>3, <1>8 DEF RowsComeFromLedger
    <3>3. QED
      BY <1>1, <3>1, <3>2 DEF RowsComeFromLedger
  <2>3. e \notin earlier[e]
    BY <1>2, <1>3 DEF LinesInOrder, e
  <2>4. RecordedOrder'
    <3> SUFFICES ASSUME NEW i \in 1 .. Len(rows'), NEW j \in 1 .. Len(rows'),
                        rows'[i] \in earlier[rows'[j]]
                 PROVE  i < j
      BY <1>1 DEF RecordedOrder
    <3>1. i \in 1 .. Len(rows)
      BY <1>8, <1>13, <1>16, <2>1, <2>3
    <3>2. CASE j = Len(rows) + 1
      BY <2>1, <3>1, <3>2
    <3>3. CASE j \in 1 .. Len(rows)
      BY <1>8, <3>1, <3>3 DEF RecordedOrder
    <3>4. QED
      BY <2>1, <3>2, <3>3
  <2>5. NothingOverdue'
    <3> SUFFICES ASSUME NEW i \in Nat, NEW k \in 1 .. Len(rows'),
                        Missing(i)', ledger[i] \in earlier[rows'[k]]
                 PROVE  i <= counter
      BY <1>1 DEF NothingOverdue
    <3>1. CASE k = Len(rows) + 1
      BY <1>14, <1>16, <3>1
    <3>2. CASE k \in 1 .. Len(rows)
      BY <1>8, <1>10, <3>2 DEF NothingOverdue
    <3>3. QED
      BY <2>1, <3>1, <3>2
  <2>6. QED
    BY <1>6, <1>9, <1>11, <2>2, <2>4, <2>5
<1>17. QED
  BY <1>8, <1>15, <1>16

\* The replay is over: what is still missing it began after.
LEMMA OpenedStep ==
  ASSUME LedgerInv, Opened
  PROVE  LedgerInv'
<1> USE DEF LedgerInv
<1>1. /\ mode = "opening" /\ cursor = Len(ledger) /\ mode' = "up"
      /\ counter' = Len(ledger) - orphaned
      /\ UNCHANGED <<ledger, rows, from, cursor, orphaned, writing, landed, crashes, earlier>>
  BY DEF Opened, reading
<1>2. /\ from \in Nat /\ cursor \in Nat /\ orphaned \in Nat /\ counter \in Nat
      /\ from \in {0, counter} /\ orphaned <= cursor - from /\ from <= cursor
      /\ \A i \in (from + 1) .. cursor : ~Missing(i)
  BY <1>1 DEF ReplaySoFar, LedgerTypeOK
<1>3. counter' \in Nat /\ from <= counter'
  BY <1>1, <1>2
<1>4. LedgerTypeOK'
  BY <1>1, <1>3 DEF LedgerTypeOK
<1>5. InFlight' = InFlight /\ Settled' = Settled
  BY <1>1 DEF InFlight, Settled
<1>6. OneLineEach' /\ LinesInOrder'
  BY <1>1, <1>5 DEF OneLineEach, LinesInOrder
<1>7. RowsComeFromLedger' /\ RecordedOrder'
  BY <1>1 DEF RowsComeFromLedger, RecordedOrder
<1>8. ReplaySoFar'
  BY <1>1 DEF ReplaySoFar
<1>9. \A i \in Nat : Missing(i)' => i <= counter'
  <2>1. \A i \in Nat : Missing(i)' => Missing(i) /\ i \in 1 .. cursor
    BY <1>1 DEF Missing
  <2>2. \A i \in Nat : Missing(i)' => i <= from
    BY <1>2, <2>1
  <2>3. QED
    BY <1>2, <1>3, <2>2
<1>10. NothingOverdue'
  BY <1>9 DEF NothingOverdue
<1>11. QED
  BY <1>4, <1>6, <1>7, <1>8, <1>10

-----------------------------------------------------------------------------
LEMMA LedgerInvHolds == LedgerSpec => []LedgerInv
<1>1. LedgerInv /\ [LedgerNext]_ledgerVars => LedgerInv'
  <2> SUFFICES ASSUME LedgerInv, [LedgerNext]_ledgerVars PROVE LedgerInv'
    OBVIOUS
  <2>1. CASE UNCHANGED ledgerVars
    <3>1. /\ UNCHANGED <<ledger, rows, counter, mode, from, cursor, orphaned>>
          /\ UNCHANGED <<writing, landed, crashes, earlier>>
      BY <2>1 DEF ledgerVars, reading
    <3>2. InFlight' = InFlight /\ Settled' = Settled
      BY <3>1 DEF InFlight, Settled
    <3>3. LedgerTypeOK' /\ RowsComeFromLedger'
      BY <3>1 DEF LedgerInv, LedgerTypeOK, RowsComeFromLedger
    <3>4. OneLineEach' /\ LinesInOrder'
      BY <3>1, <3>2 DEF LedgerInv, OneLineEach, LinesInOrder
    <3>5. ReplaySoFar' /\ NothingOverdue'
      BY <3>1, <3>2 DEF LedgerInv, ReplaySoFar, NothingOverdue, Missing
    <3>6. RecordedOrder'
      BY <3>1 DEF LedgerInv, RecordedOrder
    <3>7. QED
      BY <3>3, <3>4, <3>5, <3>6 DEF LedgerInv
  <2>2. ASSUME NEW r \in Recorder, Record(r) \/ Resume(r) PROVE LedgerInv'
    BY <2>2, RecordStep, AppendLandsStep, AppendFailsStep, ProjectStep,
       ProjectThrowsStep DEF Resume
  <2>3. CASE Open \/ Rebuild \/ RebuildDies
    BY <2>3, OpenStep
  <2>4. CASE ReplayEvent
    BY <2>4, ReplayEventStep
  <2>5. CASE Opened
    BY <2>5, OpenedStep
  <2>6. CASE Crash
    BY <2>6, CrashStep
  <2>7. QED
    BY <2>1, <2>2, <2>3, <2>4, <2>5, <2>6 DEF LedgerNext
<1>2. QED
  BY <1>1, InitInv, PTL DEF LedgerSpec

\* The types of the variables: in particular the counter never goes below zero,
\* however often an opening that died left its orphans counted.
THEOREM LedgerTypeCorrect == LedgerSpec => []LedgerTypeOK
<1>1. LedgerInv => LedgerTypeOK
  BY DEF LedgerInv
<1>2. QED
  BY <1>1, LedgerInvHolds, PTL

\* The read model is derived from the ledger: the events table holds nothing the
\* ledger does not have, and nothing twice, for any number of recorders.
THEOREM RowsAreDerived == LedgerSpec => []RowsComeFromLedger
<1>1. LedgerInv => RowsComeFromLedger
  BY DEF LedgerInv
<1>2. QED
  BY <1>1, LedgerInvHolds, PTL

\* No crash, replay or rebuild of the store puts an event before one that was
\* settled when it was recorded.
THEOREM RowsKeepOrder == LedgerSpec => []RecordedOrder
<1>1. LedgerInv => RecordedOrder
  BY DEF LedgerInv
<1>2. QED
  BY <1>1, LedgerInvHolds, PTL
-----------------------------------------------------------------------------
(* Two recorders.  An opening that replays from the counter trusts that     *)
(* nothing before the counter is missing, having compared one row.  That is *)
(* so as long as at most two requests record at once: of two lines that     *)
(* wait, one is the last of the ledger, so what was inserted past the other *)
(* is in the ledger's order, and the last row lies beyond the counter.      *)

AtMostTwo == \A p, q, r \in Recorder : p = q \/ q = r \/ p = r

\* What was inserted past a line that still waits is in the ledger's order.
PendingOrder ==
  \A r \in landed, m, j, k \in 1 .. Len(ledger), a, b \in 1 .. Len(rows) :
    /\ ledger[m] = writing[r] /\ m < j /\ j < k
    /\ rows[a] = ledger[j] /\ rows[b] = ledger[k]
    => a < b

\* Of two lines that wait, one is the last.
LastIsPending ==
  \A r, q \in landed : r # q => ledger[Len(ledger)] \in {writing[r], writing[q]}

\* A replay from the counter would find nothing missing before it.
ReplayIsSafe == CanReplay => \A i \in 1 .. counter : ~Missing(i)

\* What the store lacks while it is up, somebody is about to insert.
MissingIsPending ==
  mode = "up" => \A i \in Nat : Missing(i) => \E r \in landed : ledger[i] = writing[r]

TwoInv == /\ MissingIsPending
          /\ PendingOrder
          /\ LastIsPending
          /\ mode = "opening" => \A i \in 1 .. from : ~Missing(i)
          /\ mode = "down" => ReplayIsSafe

\* A line is in one place: the ledger's positions are told apart by their lines.
LEMMA PendingLines ==
  ASSUME LedgerInv
  PROVE  /\ ledger \in Seq(Event) /\ Len(ledger) \in Nat
         /\ rows \in Seq(Event) /\ Len(rows) \in Nat
         /\ \A i, j \in 1 .. Len(ledger) : ledger[i] = ledger[j] => i = j
         /\ \A i, j \in 1 .. Len(rows) : rows[i] = rows[j] => i = j
         /\ \A r \in landed : /\ r \in Recorder /\ writing[r] # None /\ mode = "up"
                              /\ writing[r] \in Elements(ledger)
                              /\ writing[r] \in Event
         /\ \A r, q \in Recorder : writing[r] # None /\ writing[r] = writing[q] => r = q
<1>1. LedgerTypeOK /\ OneLineEach /\ RowsComeFromLedger
  BY DEF LedgerInv
<1>2. None \notin Elements(ledger) /\ landed \subseteq Recorder
  BY <1>1, LedgerAssumption DEF LedgerTypeOK, Elements
<1>3. \A e \in Elements(ledger) : e \in Event
  BY <1>1 DEF LedgerTypeOK, Elements
<1>4. /\ ledger \in Seq(Event) /\ Len(ledger) \in Nat
      /\ rows \in Seq(Event) /\ Len(rows) \in Nat
  BY <1>1 DEF LedgerTypeOK
<1>5. \A r \in landed : /\ r \in Recorder /\ writing[r] # None /\ mode = "up"
                       /\ writing[r] \in Elements(ledger)
                       /\ writing[r] \in Event
  <2> SUFFICES ASSUME NEW r \in landed
               PROVE  /\ r \in Recorder /\ writing[r] # None /\ mode = "up"
                      /\ writing[r] \in Elements(ledger)
                      /\ writing[r] \in Event
    OBVIOUS
  <2>1. r \in Recorder /\ writing[r] \in Elements(ledger)
    BY <1>1, <1>2 DEF OneLineEach
  <2>2. writing[r] # None /\ writing[r] \in Event
    BY <1>2, <1>3, <2>1
  <2> QED BY <1>1, <2>1, <2>2 DEF OneLineEach
<1>6. QED
  BY <1>1, <1>4, <1>5 DEF OneLineEach, RowsComeFromLedger

LEMMA TwoStarts == LedgerInit => TwoInv
<1> SUFFICES ASSUME LedgerInit PROVE TwoInv
  OBVIOUS
<1>1. landed = {} /\ mode = "up" /\ Len(ledger) = 0
  BY DEF LedgerInit
<1>2. QED
  BY <1>1 DEF TwoInv, MissingIsPending, Missing, PendingOrder, LastIsPending

\* A request begins, or its append is rejected: no line that waits is theirs.
LEMMA TwoBegins ==
  ASSUME LedgerInv, TwoInv, NEW r \in Recorder, Record(r) \/ AppendFails(r)
  PROVE  TwoInv'
<1>1. /\ mode = "up" /\ r \notin landed
      /\ UNCHANGED <<ledger, rows, counter, mode, from, landed>>
      /\ \A q \in Recorder \ {r} : writing'[q] = writing[q]
  <2>1. writing[r] = None => r \notin landed
    BY PendingLines
  <2>2. QED
    BY <2>1 DEF Record, AppendFails, reading, LedgerInv, LedgerTypeOK
<1>2. \A q \in landed : writing'[q] = writing[q]
  BY <1>1, PendingLines
<1>3. \A i \in Nat : Missing(i)' <=> Missing(i)
  BY <1>1 DEF Missing
<1>4. MissingIsPending'
  BY <1>1, <1>2, <1>3 DEF TwoInv, MissingIsPending
<1>5. PendingOrder' /\ LastIsPending'
  BY <1>1, <1>2 DEF TwoInv, PendingOrder, LastIsPending
<1>6. QED
  BY <1>1, <1>4, <1>5 DEF TwoInv

\* A line lands: it is the last, and nothing has been inserted past it.
LEMMA TwoAppends ==
  ASSUME AtMostTwo, LedgerInv, TwoInv, NEW r \in Recorder, AppendLands(r)
  PROVE  TwoInv'
<1> DEFINE e == writing[r]
           n == Len(ledger)
<1>1. /\ mode = "up" /\ e # None /\ r \notin landed
      /\ ledger' = Append(ledger, e)
      /\ landed' = landed \cup {r}
      /\ UNCHANGED <<rows, counter, mode, from, writing>>
  BY DEF AppendLands, reading
<1>2. e \in Event /\ ledger \in Seq(Event) /\ n \in Nat /\ rows \in Seq(Event)
  BY <1>1 DEF LedgerInv, LedgerTypeOK
<1>3. e \notin Elements(ledger) /\ \A a \in 1 .. Len(rows) : rows[a] # e
  BY <1>1 DEF LedgerInv, OneLineEach, RowsComeFromLedger, Elements
<1> HIDE DEF e
<1>4. /\ Len(ledger') = n + 1
      /\ \A i \in 1 .. n : ledger'[i] = ledger[i]
      /\ ledger'[n + 1] = e
  BY <1>1, <1>2, AppendFacts
<1>5. MissingIsPending'
  <2> SUFFICES ASSUME NEW i \in Nat, Missing(i)'
               PROVE  \E q \in landed' : ledger'[i] = writing'[q]
    BY DEF MissingIsPending
  <2>1. CASE i = n + 1
    BY <1>1, <1>4, <2>1 DEF e
  <2>2. CASE i \in 1 .. n
    <3>1. Missing(i) /\ ledger'[i] = ledger[i]
      BY <1>1, <1>4, <2>2 DEF Missing
    <3>2. QED
      BY <1>1, <3>1 DEF TwoInv, MissingIsPending
  <2>3. QED
    BY <1>2, <1>4, <2>1, <2>2 DEF Missing
<1>6. PendingOrder'
  <2> SUFFICES ASSUME NEW q \in landed', NEW m \in 1 .. Len(ledger'), NEW j \in 1 .. Len(ledger'),
                      NEW k \in 1 .. Len(ledger'), NEW a \in 1 .. Len(rows'), NEW b \in 1 .. Len(rows'),
                      ledger'[m] = writing'[q], m < j, j < k,
                      rows'[a] = ledger'[j], rows'[b] = ledger'[k]
               PROVE  a < b
    BY DEF PendingOrder
  <2>1. k # n + 1
    BY <1>1, <1>3, <1>4
  <2>2. m \in 1 .. n /\ j \in 1 .. n /\ k \in 1 .. n
    BY <1>2, <1>4, <2>1
  <2>3. q # r
    <3>1. ledger'[m] \in Elements(ledger)
      BY <1>4, <2>2 DEF Elements
    <3>2. QED
      BY <1>1, <1>3, <3>1 DEF e
  <2>4. QED
    BY <1>1, <1>4, <2>2, <2>3 DEF TwoInv, PendingOrder
<1>7. LastIsPending'
  <2> SUFFICES ASSUME NEW p \in landed', NEW q \in landed', p # q
               PROVE  ledger'[n + 1] \in {writing[p], writing[q]}
    BY <1>1, <1>4 DEF LastIsPending
  <2>1. CASE p = r \/ q = r
    BY <1>4, <2>1 DEF e
  <2>2. CASE p \in landed /\ q \in landed /\ r \notin landed
    BY <2>2, PendingLines DEF AtMostTwo
  <2>3. QED
    BY <1>1, <2>1, <2>2
<1>8. QED
  BY <1>1, <1>5, <1>6, <1>7 DEF TwoInv

\* A recorder is resumed.  If it inserts past a line that still waits, that line
\* or its own is the last of the ledger, so nothing of a later line is inserted.
LEMMA TwoResumes ==
  ASSUME AtMostTwo, LedgerInv, TwoInv, NEW r \in Recorder, Project(r) \/ ProjectThrows(r)
  PROVE  TwoInv'
<1> DEFINE e == writing[r]
<1>1. /\ mode = "up" /\ r \in landed /\ landed' = landed \ {r}
      /\ UNCHANGED <<ledger, mode, from>>
      /\ \/ e \in Orphan /\ UNCHANGED rows
         \/ rows' = Projected(e)
  BY DEF Project, ProjectThrows, Settles, reading
<1>2. \A q \in landed' : writing'[q] = writing[q] /\ q \in landed /\ q # r /\ q \in Recorder
  BY PendingLines DEF Project, ProjectThrows, Settles, LedgerInv, LedgerTypeOK
<1>3. e \in Event /\ rows \in Seq(Event) /\ Len(rows) \in Nat /\ Len(ledger) \in Nat
  BY <1>1, PendingLines
<1>4. PICK p \in 1 .. Len(ledger) : ledger[p] = e
  BY <1>1, PendingLines DEF Elements
<1> HIDE DEF e
<1>5. /\ e \in Elements(rows') \cup Orphan
      /\ Elements(rows) \subseteq Elements(rows')
      /\ \A i \in 1 .. Len(rows) : rows'[i] = rows[i]
      /\ \/ Len(rows') = Len(rows)
         \/ Len(rows') = Len(rows) + 1 /\ rows'[Len(rows) + 1] = e
  BY <1>1, <1>3, ProjectedFacts
<1>6. MissingIsPending'
  <2> SUFFICES ASSUME NEW i \in Nat, Missing(i)'
               PROVE  \E q \in landed' : ledger'[i] = writing'[q]
    BY DEF MissingIsPending
  <2>1. Missing(i) /\ ledger[i] # e
    BY <1>1, <1>5 DEF Missing
  <2>2. PICK q \in landed : ledger[i] = writing[q]
    BY <1>1, <2>1 DEF TwoInv, MissingIsPending
  <2>3. q \in landed'
    BY <1>1, <2>1, <2>2 DEF e
  <2>4. QED
    BY <1>1, <1>2, <2>2, <2>3
<1>7. PendingOrder'
  <2> SUFFICES ASSUME NEW q \in landed', NEW m \in 1 .. Len(ledger'), NEW j \in 1 .. Len(ledger'),
                      NEW k \in 1 .. Len(ledger'), NEW a \in 1 .. Len(rows'), NEW b \in 1 .. Len(rows'),
                      ledger'[m] = writing'[q], m < j, j < k,
                      rows'[a] = ledger'[j], rows'[b] = ledger'[k]
               PROVE  a < b
    BY DEF PendingOrder
  <2>1. /\ ledger' = ledger /\ ledger[m] = writing[q] /\ q \in landed /\ q # r
        /\ m \in 1 .. Len(ledger) /\ j \in 1 .. Len(ledger) /\ k \in 1 .. Len(ledger)
    BY <1>1, <1>2
  <2>2. CASE a \in 1 .. Len(rows) /\ b \in 1 .. Len(rows)
    <3>1. rows[a] = ledger[j] /\ rows[b] = ledger[k]
      BY <1>5, <2>1, <2>2
    <3>2. QED
      BY <2>1, <2>2, <3>1 DEF TwoInv, PendingOrder
  <2>3. CASE a \in 1 .. Len(rows) /\ b = Len(rows) + 1
    BY <1>3, <2>3
  <2>4. CASE a = Len(rows) + 1 /\ rows'[a] = e
    <3>1. j = p
      BY <1>4, <2>1, <2>4, PendingLines
    <3>2. ledger[Len(ledger)] \in {writing[r], writing[q]}
      BY <1>1, <2>1 DEF TwoInv, LastIsPending
    <3>3. Len(ledger) = p \/ Len(ledger) = m
      BY <1>3, <1>4, <2>1, <3>2, PendingLines DEF e
    <3>4. QED
      BY <2>1, <3>1, <3>3
  <2>5. QED
    BY <1>3, <1>5, <2>2, <2>3, <2>4
<1>8. LastIsPending'
  <2>1. \A q, s \in landed' : q = s
    BY <1>2 DEF AtMostTwo
  <2>2. QED
    BY <2>1 DEF LastIsPending
<1>9. QED
  BY <1>1, <1>6, <1>7, <1>8 DEF TwoInv

\* A finite set does not fit into itself with an element left out.
LEMMA NoRoom ==
  ASSUME NEW c \in Nat, NEW m \in 1 .. c, NEW f \in [1 .. c -> (1 .. c) \ {m}]
  PROVE  \E x, y \in 1 .. c : x # y /\ f[x] = f[y]
<1>1. IsFiniteSet(1 .. c) /\ Cardinality(1 .. c) = c
  BY FS_Interval
<1>2. IsFiniteSet((1 .. c) \ {m}) /\ Cardinality((1 .. c) \ {m}) = c - 1
  BY <1>1, FS_RemoveElement
<1>3. Cardinality((1 .. c) \ {m}) < Cardinality(1 .. c)
  BY <1>1, <1>2
<1>4. QED
  BY <1>1, <1>2, <1>3, FS_PigeonHole, Zenon

\* As many rows as the counter says, and one line up to it missing: some row
\* comes from further on in the ledger.
LEMMA RowFromBeyond ==
  ASSUME NEW lines \in Seq(Event), NEW table \in Seq(Event),
         Elements(table) \subseteq Elements(lines),
         \A i, j \in 1 .. Len(table) : table[i] = table[j] => i = j,
         NEW c \in Nat, Len(table) = c, c <= Len(lines),
         NEW m \in 1 .. c, lines[m] \notin Elements(table)
  PROVE  \E a \in 1 .. c, k \in 1 .. Len(lines) : c < k /\ table[a] = lines[k]
<1> SUFFICES ASSUME \A a \in 1 .. c, k \in 1 .. Len(lines) : table[a] = lines[k] => ~(c < k)
             PROVE  FALSE
  OBVIOUS
<1> DEFINE f == [a \in 1 .. c |-> CHOOSE k \in 1 .. Len(lines) : table[a] = lines[k]]
<1>1. ASSUME NEW a \in 1 .. c
      PROVE  f[a] \in 1 .. Len(lines) /\ table[a] = lines[f[a]]
  <2>1. table[a] \in Elements(lines)
    BY <1>1 DEF Elements
  <2>2. \E k \in 1 .. Len(lines) : table[a] = lines[k]
    BY <2>1 DEF Elements
  <2>3. QED
    BY <2>2
<1>2. \A a \in 1 .. c : table[a] # lines[m]
  BY DEF Elements
<1>3. DOMAIN f = 1 .. c /\ f = [a \in 1 .. c |-> f[a]]
  OBVIOUS
<1> HIDE DEF f
<1>4. \A a \in 1 .. c : f[a] \in (1 .. c) \ {m}
  BY <1>1, <1>2
<1>5. f \in [1 .. c -> (1 .. c) \ {m}]
  BY <1>3, <1>4
<1>6. PICK x, y \in 1 .. c : x # y /\ f[x] = f[y]
  <2>1. \A g \in [1 .. c -> (1 .. c) \ {m}] : \E x, y \in 1 .. c : x # y /\ g[x] = g[y]
    BY NoRoom, Zenon
  <2>2. QED
    BY <1>5, <2>1, Zenon
<1>7. table[x] = table[y]
  BY <1>1, <1>6
<1>8. QED
  BY <1>6, <1>7

\* The process dies with lines waiting, and perhaps one of them inserted.  If
\* the counter and the last row would let a replay begin after a line that was
\* lost, the row from beyond was inserted before that last one: out of order.
LEMMA TwoCrashes ==
  ASSUME AtMostTwo, LedgerInv, TwoInv, LedgerInv', Crash
  PROVE  TwoInv'
<1>1. /\ mode' = "down" /\ landed' = {} /\ UNCHANGED <<ledger, counter>>
      /\ rows' = rows \/ (\E q \in landed : rows' = Projected(writing[q]))
  BY DEF Crash
<1>2. /\ ledger \in Seq(Event) /\ rows \in Seq(Event) /\ rows' \in Seq(Event)
      /\ counter \in Nat /\ Len(ledger) \in Nat /\ Len(rows) \in Nat
      /\ Elements(rows') \subseteq Elements(ledger)
      /\ \A i, j \in 1 .. Len(rows') : rows'[i] = rows'[j] => i = j
  BY <1>1 DEF LedgerInv, LedgerTypeOK, RowsComeFromLedger
<1>3. ReplayIsSafe'
  <2> SUFFICES ASSUME CanReplay', NEW m \in 1 .. counter, Missing(m)'
               PROVE  FALSE
    BY <1>1 DEF ReplayIsSafe
  <2> DEFINE c == counter
  <2>1. /\ Len(rows') = c /\ c <= Len(ledger) /\ rows'[c] = ledger[c]
        /\ c \in 1 .. Len(ledger) /\ m \in 1 .. Len(ledger)
    BY <1>1, <1>2 DEF CanReplay
  <2>2. ledger[m] \notin Elements(rows')
    BY <1>1 DEF Missing
  <2>3. m < c
    BY <1>2, <2>1, <2>2 DEF Elements
  <2>4. PICK a \in 1 .. c, k \in 1 .. Len(ledger) : c < k /\ rows'[a] = ledger[k]
    <3> HIDE DEF c
    <3>1. m \in 1 .. c /\ c \in Nat
      BY <1>2, <2>1, <2>3 DEF c
    <3>2. QED
      BY <1>2, <2>1, <2>2, <3>1, RowFromBeyond
  <2>5. a < c
    BY <1>2, <2>1, <2>4, PendingLines
  <2>6. /\ Elements(rows) \subseteq Elements(rows')
        /\ \/ rows' = rows
           \/ \E q \in landed : /\ mode = "up" /\ Len(rows') = Len(rows) + 1
                                /\ rows'[Len(rows) + 1] = writing[q]
                                /\ \A i \in 1 .. Len(rows) : rows'[i] = rows[i]
    <3>1. CASE \E q \in landed : rows' = Projected(writing[q])
      <4>1. PICK q \in landed : rows' = Projected(writing[q])
        BY <3>1
      <4>2. writing[q] \in Event /\ mode = "up"
        BY PendingLines
      <4>3. /\ Elements(rows') = Elements(rows) \cup {writing[q]}
            /\ \A i \in 1 .. Len(rows) : rows'[i] = rows[i]
            /\ \/ rows' = rows
               \/ Len(rows') = Len(rows) + 1 /\ rows'[Len(rows) + 1] = writing[q]
        BY <1>2, <4>1, <4>2, ProjectedFacts
      <4>4. QED
        BY <4>2, <4>3
    <3>2. QED
      BY <1>1, <3>1
  <2>7. Missing(m)
    BY <1>1, <2>1, <2>6 DEF Missing
  <2>8. CASE mode = "up"
    <3>1. PICK r \in landed : ledger[m] = writing[r]
      BY <2>1, <2>7, <2>8 DEF TwoInv, MissingIsPending
    <3>2. CASE rows' = rows
      <4>1. rows[a] = ledger[k] /\ rows[c] = ledger[c] /\ a \in 1 .. Len(rows) /\ c \in 1 .. Len(rows)
        BY <2>1, <2>4, <3>2
      <4>2. c < a
        <5>1. PendingOrder
          BY DEF TwoInv
        <5>2. /\ r \in landed /\ m \in 1 .. Len(ledger) /\ c \in 1 .. Len(ledger)
              /\ k \in 1 .. Len(ledger) /\ m < c /\ c < k
          BY <2>1, <2>3, <2>4
        <5> HIDE DEF c
        <5>3. QED
          BY <3>1, <4>1, <5>1, <5>2 DEF PendingOrder
      <4>3. QED
        BY <1>2, <2>5, <4>2
    <3>3. CASE rows' # rows
      <4>1. PICK q \in landed : Len(rows') = Len(rows) + 1 /\ rows'[Len(rows) + 1] = writing[q]
        BY <2>6, <3>3
      <4>2. ledger[c] = writing[q]
        BY <2>1, <4>1
      <4>3. q # r
        BY <2>1, <2>3, <3>1, <4>2, PendingLines
      <4>4. ledger[Len(ledger)] \in {writing[r], writing[q]}
        BY <4>3 DEF TwoInv, LastIsPending
      <4>5. Len(ledger) = m \/ Len(ledger) = c
        BY <1>2, <2>1, <3>1, <4>2, <4>4, PendingLines
      <4>6. QED
        BY <1>2, <2>3, <2>4, <4>5
    <3>4. QED
      BY <3>2, <3>3
  <2>9. CASE mode = "opening"
    <3>1. /\ from \in {0, counter} /\ from \in Nat /\ cursor \in Nat /\ cursor <= Len(ledger)
          /\ \A i \in 1 .. from : ~Missing(i)
          /\ \A i \in (from + 1) .. cursor : ~Missing(i)
          /\ from = 0 => Elements(rows) \subseteq {ledger[i] : i \in 1 .. cursor}
      BY <2>9 DEF TwoInv, LedgerInv, ReplaySoFar, LedgerTypeOK
    <3>2. CASE from = counter
      BY <2>7, <3>1, <3>2
    <3>3. CASE from = 0
      <4>1. rows' = rows
        BY <2>6, <2>9
      <4>2. ledger[c] \in Elements(rows)
        BY <2>1, <4>1 DEF Elements
      <4>3. PICK i \in 1 .. cursor : ledger[c] = ledger[i]
        BY <3>1, <3>3, <4>2
      <4>4. c = i
        BY <2>1, <3>1, <4>3, PendingLines
      <4>5. m \in (from + 1) .. cursor
        BY <1>2, <2>3, <3>1, <3>3, <4>4
      <4>6. QED
        BY <2>7, <3>1, <4>5
    <3>4. QED
      BY <3>1, <3>2, <3>3
  <2>10. QED
    BY <2>8, <2>9 DEF LedgerInv, LedgerTypeOK, Crash
<1>4. QED
  BY <1>1, <1>3 DEF TwoInv, MissingIsPending, PendingOrder, LastIsPending

\* Opening, or a rebuild: the replay starts where nothing before it is missing.
LEMMA TwoOpens ==
  ASSUME LedgerInv, TwoInv, Open \/ Rebuild \/ RebuildDies
  PROVE  TwoInv'
<1>1. /\ mode = "down" /\ UNCHANGED <<ledger, landed>> /\ landed = {}
      /\ counter \in Nat /\ ReplayIsSafe
  BY PendingLines DEF Open, Rebuild, RebuildDies, LedgerInv, LedgerTypeOK, TwoInv
<1>2. PendingOrder' /\ LastIsPending'
  BY <1>1 DEF PendingOrder, LastIsPending
<1>3. CASE Open /\ CanReplay
  <2>1. mode' = "opening" /\ from' = counter /\ UNCHANGED rows
    BY <1>3 DEF Open, BeginReplay
  <2>2. \A i \in 1 .. from' : ~Missing(i)'
    BY <1>1, <1>3, <2>1 DEF ReplayIsSafe, Missing
  <2>3. QED
    BY <1>2, <2>1, <2>2 DEF TwoInv, MissingIsPending
<1>4. CASE Rebuild \/ (Open /\ ~CanReplay)
  <2>1. mode' = "opening" /\ from' = 0
    BY <1>4 DEF Open, Rebuild, BeginReplay
  <2>2. QED
    BY <1>2, <2>1 DEF TwoInv, MissingIsPending
<1>5. CASE RebuildDies
  <2>1. mode' = "down" /\ rows' = <<>> /\ counter' = counter
    BY <1>1, <1>5 DEF RebuildDies
  <2>2. ReplayIsSafe'
    BY <1>1, <2>1 DEF ReplayIsSafe, CanReplay
  <2>3. QED
    BY <1>2, <2>1, <2>2 DEF TwoInv, MissingIsPending
<1>6. QED
  BY <1>3, <1>4, <1>5

\* A replay fills in what it passes, and when it is over nothing is missing.
LEMMA TwoReplays ==
  ASSUME LedgerInv, TwoInv, ReplayEvent \/ Opened
  PROVE  TwoInv'
<1>0. mode = "opening" /\ UNCHANGED <<ledger, landed, from>>
  BY DEF ReplayEvent, Opened, reading
<1>1. /\ mode = "opening" /\ landed = {}
      /\ UNCHANGED <<ledger, landed, from>>
      /\ \A i \in 1 .. from : ~Missing(i)
  BY <1>0, PendingLines DEF TwoInv
<1>2. PendingOrder' /\ LastIsPending'
  BY <1>1 DEF PendingOrder, LastIsPending
<1>3. CASE ReplayEvent
  <2>1. mode' = "opening"
    BY <1>1, <1>3 DEF ReplayEvent
  <2>2. Elements(rows) \subseteq Elements(rows')
    <3>1. /\ ledger[cursor + 1] \in Event /\ rows \in Seq(Event)
      BY <1>3 DEF ReplayEvent, LedgerInv, LedgerTypeOK
    <3>2. QED
      BY <1>3, <3>1, ProjectedFacts DEF ReplayEvent
  <2>3. \A i \in 1 .. from' : ~Missing(i)'
    BY <1>1, <2>2 DEF Missing
  <2>4. QED
    BY <1>2, <2>1, <2>3 DEF TwoInv, MissingIsPending
<1>4. CASE Opened
  <2>1. mode' = "up" /\ UNCHANGED rows /\ cursor = Len(ledger)
    BY <1>4 DEF Opened
  <2>2. /\ from \in Nat /\ Len(ledger) \in Nat
        /\ \A i \in (from + 1) .. cursor : ~Missing(i)
    BY <1>1 DEF LedgerInv, ReplaySoFar, LedgerTypeOK
  <2>3. \A i \in Nat : ~Missing(i)
    <3> SUFFICES ASSUME NEW i \in 1 .. Len(ledger) PROVE ~Missing(i)
      BY DEF Missing
    <3>1. i \in 1 .. from \/ i \in (from + 1) .. cursor
      BY <2>1, <2>2
    <3>2. QED
      BY <1>1, <2>2, <3>1
  <2>4. \A i \in Nat : ~Missing(i)'
    BY <1>1, <2>1, <2>3 DEF Missing
  <2>5. QED
    BY <1>2, <2>1, <2>4 DEF TwoInv, MissingIsPending
<1>5. QED
  BY <1>3, <1>4

LEMMA TwoNext ==
  AtMostTwo /\ LedgerInv /\ LedgerInv' /\ TwoInv /\ [LedgerNext]_ledgerVars => TwoInv'
<1> SUFFICES ASSUME AtMostTwo, LedgerInv, LedgerInv', TwoInv, [LedgerNext]_ledgerVars
             PROVE  TwoInv'
  OBVIOUS
<1>1. CASE UNCHANGED ledgerVars
  <2>1. UNCHANGED <<ledger, rows, counter, mode, from, writing, landed>>
    BY <1>1 DEF ledgerVars, reading
  <2>2. QED
    BY <2>1 DEF TwoInv, MissingIsPending, PendingOrder, LastIsPending, ReplayIsSafe,
                CanReplay, Missing
<1>2. ASSUME NEW r \in Recorder, Record(r) \/ Resume(r) PROVE TwoInv'
  BY <1>2, TwoBegins, TwoAppends, TwoResumes DEF Resume
<1>3. CASE Open \/ Rebuild \/ RebuildDies
  BY <1>3, TwoOpens
<1>4. CASE ReplayEvent \/ Opened
  BY <1>4, TwoReplays
<1>5. CASE Crash
  BY <1>5, TwoCrashes
<1>6. QED
  BY <1>1, <1>2, <1>3, <1>4, <1>5 DEF LedgerNext

\* With at most two requests recording at once, and any number of events and
\* crashes, the read model equals the ledger whenever the store is up, but for
\* what is being recorded and for orphans: comparing one row is then enough.
THEOREM TwoRecordersReadAll ==
  ASSUME AtMostTwo
  PROVE  LedgerSpec => []ReadModelEqualsLedger
<1>1. LedgerInv /\ LedgerInv' /\ TwoInv /\ [LedgerNext]_ledgerVars => TwoInv'
  BY TwoNext
<1>2. LedgerInv /\ TwoInv => ReadModelEqualsLedger
  <2> SUFFICES ASSUME LedgerInv, TwoInv, mode = "up", NEW e \in Settled
               PROVE  e \in Elements(rows) \cup Orphan
    BY DEF ReadModelEqualsLedger
  <2>1. PICK i \in 1 .. Len(ledger) : e = ledger[i]
    BY DEF Settled, Elements
  <2>2. \A r \in landed : writing[r] \in InFlight
    BY PendingLines DEF InFlight
  <2>3. \A r \in landed : ledger[i] # writing[r]
    BY <2>1, <2>2 DEF Settled
  <2>4. ~Missing(i)
    BY <2>3, PendingLines DEF TwoInv, MissingIsPending
  <2>5. QED
    BY <2>1, <2>4 DEF Missing
<1>3. QED
  BY <1>1, <1>2, TwoStarts, LedgerInvHolds, PTL DEF LedgerSpec
-----------------------------------------------------------------------------
(* A rebuild.  What more than two recorders can hide, a replay that begins  *)
(* at the beginning brings back: the table it leaves is the ledger.         *)

\* A replay from the beginning has put what it passed in the table, in the
\* order of the ledger, and has counted each line as a row or as an orphan.
ReadThrough ==
  mode = "opening" /\ from = 0 =>
    /\ Len(rows) + orphaned = cursor
    /\ Elements(rows) \cap Orphan = {}
    /\ \A a, b \in 1 .. Len(rows), j, k \in 1 .. cursor :
         rows[a] = ledger[j] /\ rows[b] = ledger[k] /\ j < k => a < b

\* The rows are the events of the ledger in its order, but for the orphans, and
\* the counter is their number.
RowsAreTheLedger ==
  /\ Elements(rows) = Elements(ledger) \ Orphan
  /\ \A a, b \in 1 .. Len(rows), j, k \in 1 .. Len(ledger) :
       rows[a] = ledger[j] /\ rows[b] = ledger[k] /\ j < k => a < b
  /\ counter = Len(rows)

\* An opening that read the ledger from the beginning leaves it whole.
RebuildIsExact == [][Opened /\ from = 0 => RowsAreTheLedger']_ledgerVars

LEMMA ReadThroughOpens ==
  ASSUME LedgerInv, Open \/ Rebuild \/ RebuildDies
  PROVE  ReadThrough'
<1> SUFFICES ASSUME mode' = "opening", from' = 0
             PROVE  Len(rows') = 0 /\ orphaned' = 0 /\ cursor' = 0
  BY DEF ReadThrough, Elements
<1>1. Len(rows) \in Nat /\ counter \in Nat /\ mode = "down"
  BY DEF LedgerInv, LedgerTypeOK, Open, Rebuild, RebuildDies
<1>2. CASE Open
  BY <1>1, <1>2 DEF Open, CanReplay, BeginReplay
<1>3. CASE Rebuild
  BY <1>3 DEF Rebuild, BeginReplay
<1>4. CASE RebuildDies
  BY <1>1, <1>4 DEF RebuildDies
<1>5. QED
  BY <1>2, <1>3, <1>4

\* One line more: the event is new to a table that holds only what was passed.
LEMMA ReadThroughReplays ==
  ASSUME LedgerInv, ReadThrough, ReplayEvent
  PROVE  ReadThrough'
<1> SUFFICES ASSUME from = 0 PROVE ReadThrough'
  BY DEF ReadThrough, ReplayEvent
<1> DEFINE n == cursor + 1
           e == ledger[n]
<1>1. /\ mode = "opening" /\ cursor < Len(ledger) /\ cursor' = n
      /\ UNCHANGED <<ledger, mode, from>>
      /\ \/ e \in Orphan /\ orphaned' = orphaned + 1 /\ UNCHANGED rows
         \/ e \notin Orphan /\ rows' = Projected(e) /\ UNCHANGED orphaned
  BY DEF ReplayEvent
<1>2. /\ cursor \in Nat /\ orphaned \in Nat /\ Len(ledger) \in Nat /\ Len(rows) \in Nat
      /\ rows \in Seq(Event) /\ n \in 1 .. Len(ledger) /\ e \in Event
  BY <1>1 DEF LedgerInv, LedgerTypeOK
<1>3. /\ Elements(rows) \subseteq {ledger[i] : i \in 1 .. cursor}
      /\ \A i, j \in 1 .. Len(ledger) : ledger[i] = ledger[j] => i = j
  BY <1>1 DEF LedgerInv, ReplaySoFar, OneLineEach
<1>4. /\ Len(rows) + orphaned = cursor
      /\ Elements(rows) \cap Orphan = {}
      /\ \A a, b \in 1 .. Len(rows), j, k \in 1 .. cursor :
           rows[a] = ledger[j] /\ rows[b] = ledger[k] /\ j < k => a < b
  BY <1>1 DEF ReadThrough
<1>5. \A i \in 1 .. cursor : i \in 1 .. Len(ledger) /\ i # n
  BY <1>2
<1>6. e \notin Elements(rows)
  BY <1>2, <1>3, <1>5
<1>7. \A a \in 1 .. Len(rows) : rows[a] # e
  BY <1>6 DEF Elements
<1>8. CASE e \in Orphan
  <2>1. /\ orphaned' = orphaned + 1 /\ rows' = rows
    BY <1>1, <1>8
  <2>2. \A a, b \in 1 .. Len(rows), j, k \in 1 .. n :
          rows[a] = ledger[j] /\ rows[b] = ledger[k] /\ j < k => a < b
    <3>1. ASSUME NEW a \in 1 .. Len(rows), NEW b \in 1 .. Len(rows),
                 NEW j \in 1 .. n, NEW k \in 1 .. n,
                 rows[a] = ledger[j], rows[b] = ledger[k], j < k
          PROVE  a < b
      <4>1. j # n /\ k # n
        BY <1>7, <3>1
      <4>2. j \in 1 .. cursor /\ k \in 1 .. cursor
        BY <1>2, <4>1
      <4>3. QED
        BY <1>4, <3>1, <4>2
    <3>2. QED
      BY <3>1
  <2>3. Len(rows') + orphaned' = cursor' /\ Elements(rows') \cap Orphan = {}
    BY <1>1, <1>2, <1>4, <2>1
  <2>4. QED
    BY <1>1, <2>1, <2>2, <2>3 DEF ReadThrough
<1>9. CASE e \notin Orphan
  <2>1. rows' = Projected(e) /\ orphaned' = orphaned
    BY <1>1, <1>9
  <2>2. /\ Len(rows') = Len(rows) + 1 /\ rows'[Len(rows) + 1] = e
        /\ \A a \in 1 .. Len(rows) : rows'[a] = rows[a]
        /\ Elements(rows') = Elements(rows) \cup {e}
    BY <1>2, <1>6, <2>1, ProjectedFacts
  <2>3. ASSUME NEW a \in 1 .. Len(rows'), NEW b \in 1 .. Len(rows'),
               NEW j \in 1 .. n, NEW k \in 1 .. n,
               rows'[a] = ledger[j], rows'[b] = ledger[k], j < k
        PROVE  a < b
    <3>1. j \in 1 .. cursor /\ j \in 1 .. Len(ledger)
      BY <1>2, <2>3
    <3>2. a # Len(rows) + 1
      BY <1>2, <1>3, <1>5, <2>2, <2>3, <3>1
    <3>3. a \in 1 .. Len(rows)
      BY <1>2, <2>2, <2>3, <3>2
    <3>4. CASE b = Len(rows) + 1
      BY <1>2, <3>3, <3>4
    <3>5. CASE b \in 1 .. Len(rows)
      <4>1. rows'[b] = rows[b] /\ rows[b] # e
        BY <1>7, <2>2, <3>5
      <4>2. k # n
        BY <2>3, <4>1
      <4>3. k \in 1 .. cursor
        BY <1>2, <4>2
      <4>4. rows[a] = ledger[j] /\ rows[b] = ledger[k]
        BY <2>2, <2>3, <3>3, <4>1
      <4>5. QED
        BY <1>4, <2>3, <3>1, <3>3, <3>5, <4>3, <4>4
    <3>6. QED
      BY <1>2, <2>2, <2>3, <3>4, <3>5
  <2>4. Elements(rows') \cap Orphan = {}
    BY <1>4, <1>9, <2>2
  <2>5. QED
    BY <1>1, <1>2, <1>4, <2>1, <2>2, <2>3, <2>4 DEF ReadThrough
<1>10. QED
  BY <1>8, <1>9

LEMMA ReadThroughNext == LedgerInv /\ ReadThrough /\ [LedgerNext]_ledgerVars => ReadThrough'
<1> SUFFICES ASSUME LedgerInv, ReadThrough, [LedgerNext]_ledgerVars PROVE ReadThrough'
  OBVIOUS
<1>1. CASE UNCHANGED ledgerVars
  BY <1>1 DEF ledgerVars, reading, ReadThrough
<1>2. ASSUME NEW r \in Recorder, Record(r) \/ Resume(r) PROVE ReadThrough'
  BY <1>2 DEF Record, Resume, AppendLands, AppendFails, Project, ProjectThrows,
              ReadThrough
<1>3. CASE Open \/ Rebuild \/ RebuildDies
  BY <1>3, ReadThroughOpens
<1>4. CASE ReplayEvent
  BY <1>4, ReadThroughReplays
<1>5. CASE Opened \/ Crash
  BY <1>5 DEF Opened, Crash, ReadThrough
<1>6. QED
  BY <1>1, <1>2, <1>3, <1>4, <1>5 DEF LedgerNext

\* For any number of recorders, whatever an earlier opening overlooked: a replay
\* of the whole ledger (rebuildProjection, or an opening that does not trust the
\* table) leaves the read model with the events of the ledger in its order, the
\* orphans left out, and the counter at their number, even if it died half way
\* before and was begun again.
THEOREM RebuildRestores == LedgerSpec => RebuildIsExact
<1>1. LedgerInv /\ ReadThrough => (Opened /\ from = 0 => RowsAreTheLedger')
  <2> SUFFICES ASSUME LedgerInv, ReadThrough, Opened, from = 0
               PROVE  RowsAreTheLedger'
    OBVIOUS
  <2>1. /\ mode = "opening" /\ cursor = Len(ledger) /\ UNCHANGED <<ledger, rows>>
        /\ counter' = Len(ledger) - orphaned
        /\ Len(rows) \in Nat /\ orphaned \in Nat
    BY DEF Opened, LedgerInv, LedgerTypeOK
  <2>2. \A i \in 1 .. Len(ledger) : ledger[i] \in Elements(rows) \cup Orphan
    BY <2>1 DEF LedgerInv, ReplaySoFar, Missing
  <2>3. Elements(rows) = Elements(ledger) \ Orphan
    <3>1. Elements(ledger) \subseteq Elements(rows) \cup Orphan
      BY <2>2 DEF Elements
    <3>2. Elements(rows) \subseteq Elements(ledger) /\ Elements(rows) \cap Orphan = {}
      BY <2>1 DEF LedgerInv, RowsComeFromLedger, ReadThrough
    <3>3. QED
      BY <3>1, <3>2
  <2>4. counter' = Len(rows)
    BY <2>1 DEF ReadThrough
  <2>5. QED
    BY <2>1, <2>3, <2>4 DEF ReadThrough, RowsAreTheLedger
<1>2. LedgerInit => ReadThrough
  BY DEF LedgerInit, ReadThrough
<1>3. QED
  BY <1>1, <1>2, ReadThroughNext, LedgerInvHolds, PTL DEF LedgerSpec, RebuildIsExact

=============================================================================
