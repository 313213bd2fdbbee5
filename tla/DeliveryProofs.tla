--------------------------- MODULE DeliveryProofs ---------------------------
(***************************************************************************)
(* Theorems about what is delivered: the messages of Messages, for any     *)
(* number of messages, readers, safety points, restores, failing writes    *)
(* and crashes, and the events of EventLog, for any number of writers,     *)
(* runs, keys, transactions, rollbacks and crashes, any sizes of pages,    *)
(* and any number of switches, refreshes and broken connections.  The two  *)
(* share no variable.                                                      *)
(***************************************************************************)
EXTENDS Messages, EventLog, FiniteSetTheorems, SequenceTheorems, TLAPS

-----------------------------------------------------------------------------
(* Messages.  The mailbox and the command queue never look at each other,  *)
(* so the theorem about the one knows nothing of the other.                *)

\* A send has put the message into the inbox and has not returned.
Under == {"queued", "saving", "saved"}

SendTypes ==
    /\ sender \in [Mail -> {"new", "queued", "saving", "saved", "sent", "refused", "dead"}]
    /\ stamp \in [Mail -> BOOLEAN]
    /\ status \in [Mail -> RowStatus]
    /\ rows \in [Mail -> RowStatus \cup {"absent"}]

ReadTypes ==
    /\ inbox \in Seq(Mail)
    /\ left \in [Readers -> Seq(Mail)]
    /\ held \in [Readers -> SUBSET Mail]
    /\ seen \in [Mail -> Nat]

RestoreTypes ==
    /\ lister \in {"nobody", "listing", "resuming"}
    /\ listed \in SUBSET Mail
    /\ resumed \in BOOLEAN

SessionTypes ==
    /\ commands \in [Mail -> {"absent", "pending", "consumed"}]
    /\ point \in [Points -> {"idle", "taking", "storing"}]
    /\ items \in [Points -> SUBSET Mail]
    /\ taken \in [Points -> 0 .. MaxMessages]
    /\ dump \in [Points -> SUBSET Mail]
    /\ conversation \in SUBSET Mail /\ stored \in SUBSET Mail

HistoryTypes ==
    /\ overflowed \in SUBSET Mail /\ unsaved \in SUBSET Mail
    /\ died \in SUBSET Mail /\ forgotten \in SUBSET Mail
    /\ restores \in Nat /\ faults \in Nat /\ crashes \in Nat

Types == SendTypes /\ ReadTypes /\ RestoreTypes /\ SessionTypes /\ HistoryTypes

Held == UNION {held[r] : r \in Readers}

\* A reader took it, and it was given to the model or died with its reader.
Handled(m) == seen[m] > 0 \/ m \in Held \cup died

\* What was taken and is still to be written is in a reader's hand, and only
\* what was taken is called consumed anywhere.
Readings ==
    /\ \A r \in Readers : Range(left[r]) \subseteq held[r]
    /\ \A m \in Mail : \/ stamp[m] \/ status[m] = "consumed" \/ rows[m] = "consumed"
                       => Handled(m)

\* What is sent has a row, unless it could not be written.
Written ==
    \A m \in Mail : sender[m] \in {"saved", "sent"} =>
                        rows[m] # "absent" \/ m \in unsaved

Gone(m) == seen[m] = 0 /\ m \notin Alive \cup Excused

\* A message that nobody has waits for a resume, which will find its row or has
\* found it.
Waiting ==
    \A m \in Mail : sender[m] \in Under \cup {"sent"} /\ Gone(m) =>
        /\ sender[m] = "sent" /\ ~resumed
        /\ lister # "nobody" => m \in listed

MailInv == Types /\ Readings /\ Written /\ Waiting

-----------------------------------------------------------------------------
(* Sequences *)

\* A part of a sequence has members of the sequence, and two parts that meet
\* have them all.
LEMMA Cut ==
    ASSUME NEW s \in Seq(Mail), NEW k \in 0 .. Len(s)
    PROVE  /\ SubSeq(s, 1, k) \in Seq(Mail) /\ SubSeq(s, k + 1, Len(s)) \in Seq(Mail)
           /\ Range(SubSeq(s, 1, k)) = {s[i] : i \in 1 .. k}
           /\ Range(SubSeq(s, k + 1, Len(s))) = {s[i] : i \in k + 1 .. Len(s)}
           /\ Range(s) = {s[i] : i \in 1 .. k} \cup {s[i] : i \in k + 1 .. Len(s)}
<1>0. Len(s) \in Nat /\ DOMAIN s = 1 .. Len(s) /\ \A i \in 1 .. Len(s) : s[i] \in Mail
  OBVIOUS
<1> DEFINE a == SubSeq(s, 1, k)
           b == SubSeq(s, k + 1, Len(s))
<1>1. /\ a \in Seq(Mail) /\ Len(a) = k /\ \A i \in 1 .. k : a[i] = s[i]
  BY <1>0, SubSeqProperties
<1>2. /\ b \in Seq(Mail) /\ Len(b) = Len(s) - k
      /\ \A i \in 1 .. Len(s) - k : b[i] = s[k + i]
  <2>1. /\ b \in Seq(Mail)
        /\ Len(b) = IF k + 1 <= Len(s) THEN Len(s) - (k + 1) + 1 ELSE 0
        /\ \A i \in 1 .. Len(s) - (k + 1) + 1 : b[i] = s[(k + 1) + i - 1]
    <3>1. k + 1 \in Int /\ Len(s) \in Int /\ \A i \in k + 1 .. Len(s) : s[i] \in Mail
      BY <1>0
    <3> QED BY <3>1, SubSeqProperties
  <2> HIDE DEF b
  <2>2. \A i \in 1 .. Len(s) - k : (k + 1) + i - 1 = k + i
    BY <1>0
  <2>3. Len(s) - (k + 1) + 1 = Len(s) - k
    BY <1>0
  <2>4. Len(b) = Len(s) - k
    <3>1. CASE k + 1 <= Len(s)
      BY <2>1, <2>3, <3>1
    <3>2. CASE ~(k + 1 <= Len(s))
      <4>0. k \in Int /\ Len(s) \in Int /\ k <= Len(s)
        BY <1>0
      <4>1. Len(s) - k = 0
        BY <4>0, <3>2
      <4> QED BY <2>1, <3>2, <4>1
    <3> QED BY <3>1, <3>2
  <2>5. \A i \in 1 .. Len(s) - k : b[i] = s[k + i]
    <3>1. \A i \in 1 .. Len(s) - k : b[i] = s[(k + 1) + i - 1]
      BY <2>1, <2>3
    <3> QED BY <2>2, <3>1
  <2> QED BY <2>1, <2>4, <2>5
<1> HIDE DEF a, b
<1>3. DOMAIN a = 1 .. k /\ DOMAIN b = 1 .. Len(s) - k
  BY <1>1, <1>2
<1>4. Range(a) = {s[i] : i \in 1 .. k}
  BY <1>1, <1>3 DEF Range
<1>5. Range(b) = {s[i] : i \in k + 1 .. Len(s)}
  <2>1. ASSUME NEW i \in 1 .. Len(s) - k
        PROVE  k + i \in k + 1 .. Len(s) /\ b[i] = s[k + i]
    BY <1>0, <1>2
  <2>2. ASSUME NEW i \in k + 1 .. Len(s)
        PROVE  i - k \in 1 .. Len(s) - k /\ b[i - k] = s[i]
    <3>1. i \in Int /\ k + (i - k) = i /\ i - k \in 1 .. Len(s) - k
      BY <1>0
    <3>2. b[i - k] = s[k + (i - k)]
      BY <1>2, <3>1
    <3> QED BY <3>1, <3>2
  <2>3. Range(b) = {b[i] : i \in 1 .. Len(s) - k}
    BY <1>3 DEF Range
  <2>4. ASSUME NEW x \in Range(b) PROVE x \in {s[i] : i \in k + 1 .. Len(s)}
    BY <2>1, <2>3
  <2>5. ASSUME NEW i \in k + 1 .. Len(s) PROVE s[i] \in Range(b)
    BY <2>2, <2>3
  <2> QED BY <2>4, <2>5
<1>6. Range(s) = {s[i] : i \in 1 .. k} \cup {s[i] : i \in k + 1 .. Len(s)}
  <2>1. 1 .. Len(s) = (1 .. k) \cup (k + 1 .. Len(s))
    BY <1>0
  <2> QED BY <1>0, <2>1 DEF Range
<1> QED
  BY <1>1, <1>2, <1>4, <1>5, <1>6, Zenon DEF a, b

\* One more member at the end.
LEMMA OneMore ==
    ASSUME NEW s \in Seq(Mail), NEW m \in Mail
    PROVE  Append(s, m) \in Seq(Mail) /\ Range(Append(s, m)) = Range(s) \cup {m}
<1> DEFINE a == Append(s, m)
<1>1. /\ a \in Seq(Mail) /\ Len(a) = Len(s) + 1 /\ a[Len(s) + 1] = m
      /\ \A i \in 1 .. Len(s) : a[i] = s[i]
  BY AppendProperties
<1>2. Len(s) \in Nat /\ DOMAIN s = 1 .. Len(s) /\ DOMAIN a = 1 .. Len(s) + 1
  BY <1>1
<1>3. 1 .. Len(s) + 1 = (1 .. Len(s)) \cup {Len(s) + 1}
  BY <1>2
<1> HIDE DEF a
<1>4. Range(a) = Range(s) \cup {m}
  BY <1>1, <1>2, <1>3 DEF Range
<1> QED BY <1>1, <1>4 DEF a

\* Head and tail.
LEMMA FirstAndRest ==
    ASSUME NEW s \in Seq(Mail), s # << >>
    PROVE  Tail(s) \in Seq(Mail) /\ Head(s) \in Range(s) /\ Range(Tail(s)) \subseteq Range(s)
<1>1. /\ Tail(s) \in Seq(Mail) /\ Len(Tail(s)) = Len(s) - 1
      /\ \A i \in 1 .. Len(Tail(s)) : Tail(s)[i] = s[i + 1]
  BY HeadTailProperties
<1>2. Len(s) \in Nat \ {0} /\ DOMAIN s = 1 .. Len(s) /\ Head(s) = s[1]
  OBVIOUS
<1>3. Head(s) \in Range(s)
  BY <1>2 DEF Range
<1>4. \A i \in DOMAIN Tail(s) : i + 1 \in DOMAIN s /\ Tail(s)[i] = s[i + 1]
  BY <1>1, <1>2
<1>5. Range(Tail(s)) \subseteq Range(s)
  BY <1>4 DEF Range
<1> QED BY <1>1, <1>3, <1>5

-----------------------------------------------------------------------------
(* What the steps that move messages do *)

\* A message that is delivered is in the inbox, and so is all that was there
\* unless it was dropped and noted.
LEMMA Delivered ==
    ASSUME Types, NEW m \in Mail, Deliver(m)
    PROVE  /\ inbox' \in Seq(Mail) /\ m \in Range(inbox')
           /\ overflowed \subseteq overflowed' /\ overflowed' \in SUBSET Mail
           /\ Range(inbox) \subseteq Range(inbox') \cup overflowed'
<1> DEFINE k == Dropped
           b == SubSeq(inbox, k + 1, Len(inbox))
<1>1. inbox \in Seq(Mail) /\ Len(inbox) \in Nat /\ overflowed \in SUBSET Mail
  BY DEF Types, ReadTypes, HistoryTypes
<1>2. k \in 0 .. Len(inbox)
  BY <1>1, MessagesAssumption DEF Dropped
<1>3. inbox' = Append(b, m) /\ overflowed' = overflowed \cup {inbox[i] : i \in 1 .. k}
  BY DEF Deliver
<1> HIDE DEF k
<1>4. /\ b \in Seq(Mail) /\ Range(b) = {inbox[i] : i \in k + 1 .. Len(inbox)}
      /\ Range(inbox) = {inbox[i] : i \in 1 .. k} \cup {inbox[i] : i \in k + 1 .. Len(inbox)}
  BY <1>1, <1>2, Cut
<1>5. Range(inbox) \in SUBSET Mail
  BY <1>1, RangeOfSeq
<1> HIDE DEF b
<1>6. inbox' \in Seq(Mail) /\ Range(inbox') = Range(b) \cup {m}
  BY <1>3, <1>4, OneMore
<1> QED BY <1>1, <1>3, <1>4, <1>5, <1>6

\* What a reader takes, it has in its hand and still to write.
LEMMA Received ==
    ASSUME Types, NEW r \in Readers, NEW n \in {1, MaxCount}, Receive(r, n)
    PROVE  \E batch \in Seq(Mail) :
              /\ inbox' \in Seq(Mail)
              /\ Range(inbox) = Range(batch) \cup Range(inbox')
              /\ left' = [left EXCEPT ![r] = batch]
              /\ held' = [held EXCEPT ![r] = Range(batch)]
              /\ stamp' = [m \in Mail |-> stamp[m] \/ m \in Range(batch)]
<1> DEFINE k == IF n < Len(inbox) THEN n ELSE Len(inbox)
           batch == SubSeq(inbox, 1, k)
<1>1. inbox \in Seq(Mail) /\ Len(inbox) \in Nat
  BY DEF Types, ReadTypes
<1>2. k \in 0 .. Len(inbox)
  BY <1>1, MessagesAssumption
<1>3. /\ inbox' = SubSeq(inbox, k + 1, Len(inbox))
      /\ left' = [left EXCEPT ![r] = batch]
      /\ held' = [held EXCEPT ![r] = Range(batch)]
      /\ stamp' = [m \in Mail |-> stamp[m] \/ m \in Range(batch)]
  BY DEF Receive
<1> HIDE DEF k
<1>4. /\ batch \in Seq(Mail) /\ inbox' \in Seq(Mail)
      /\ Range(inbox) = Range(batch) \cup Range(inbox')
  BY <1>1, <1>2, <1>3, Cut
<1> HIDE DEF batch
<1> QED BY <1>3, <1>4

\* What was listed is put back, behind what is there.
LEMMA PutBack ==
    ASSUME Types, Rebuild
    PROVE  inbox' \in Seq(Mail) /\ Range(inbox') = Range(inbox) \cup listed
<1>1. PICK n \in 0 .. MaxMessages : \E s \in [1 .. n -> listed] :
          InOrder(s, listed) /\ inbox' = Rebuilt(s)
  BY DEF Rebuild
<1>2. PICK s \in [1 .. n -> listed] : InOrder(s, listed) /\ inbox' = Rebuilt(s)
  BY <1>1
<1>3. n \in Nat /\ listed \in SUBSET Mail /\ inbox \in Seq(Mail)
  BY <1>1, MessagesAssumption DEF Types, ReadTypes, RestoreTypes
<1>4. s \in Seq(Mail)
  BY <1>2, <1>3, SeqDef
<1>5. inbox' = inbox \o s /\ Range(s) = listed
  BY <1>2 DEF Rebuilt, InOrder
<1>6. inbox \o s \in Seq(Mail) /\ Range(inbox \o s) = Range(inbox) \cup Range(s)
  BY <1>3, <1>4, RangeConcatenation, ConcatProperties
<1> QED BY <1>5, <1>6

\* A row that is written has the status that it was to have, or is noted.
LEMMA RowWritten ==
    ASSUME Types, NEW m \in Mail, NEW s \in RowStatus, Write(m, s)
    PROVE  /\ rows' \in [Mail -> RowStatus \cup {"absent"}]
           /\ unsaved \subseteq unsaved' /\ unsaved' \in SUBSET Mail /\ faults' \in Nat
           /\ rows' = rows \/ rows' = [rows EXCEPT ![m] = s]
           /\ rows'[m] # "absent" \/ m \in unsaved'
  BY DEF Write, Types, SendTypes, HistoryTypes, RowStatus

-----------------------------------------------------------------------------
(* Types *)

\* Every step keeps the types (each method of Mailbox, of the command queue and of
\* the session).
LEMMA TypesKept == Types /\ [Next]_vars => Types'
<1> SUFFICES ASSUME Types, [Next]_vars PROVE Types'
  OBVIOUS
<1> USE DEF Types, RowStatus, sending, reading, restoring, session, history, bounds
<1>1. ASSUME NEW m \in Mail, Refuse(m) PROVE Types'
  BY <1>1 DEF Refuse, SendTypes, ReadTypes, RestoreTypes, SessionTypes, HistoryTypes
<1>2. ASSUME NEW m \in Mail, Deliver(m) PROVE Types'
  <2>1. inbox' \in Seq(Mail) /\ overflowed' \in SUBSET Mail
    BY <1>2, Delivered
  <2>2. /\ sender' = [sender EXCEPT ![m] = "queued"]
        /\ UNCHANGED <<stamp, status, reading, restoring, rows, session, seen, unsaved,
                       died, forgotten, bounds>>
    BY <1>2 DEF Deliver
  <2> QED BY <2>1, <2>2 DEF SendTypes, ReadTypes, RestoreTypes, SessionTypes, HistoryTypes
<1>3. ASSUME NEW m \in Mail, Evaluate(m) PROVE Types'
  BY <1>3 DEF Evaluate, SendTypes, ReadTypes, RestoreTypes, SessionTypes, HistoryTypes
<1>4. ASSUME NEW m \in Mail, Save(m) PROVE Types'
  <2>1. status[m] \in RowStatus
    BY DEF SendTypes
  <2>2. /\ rows' \in [Mail -> RowStatus \cup {"absent"}]
        /\ unsaved' \in SUBSET Mail /\ faults' \in Nat
    BY <1>4, <2>1, RowWritten DEF Save
  <2>3. /\ sender' = [sender EXCEPT ![m] = "saved"]
        /\ UNCHANGED <<stamp, status, inbox, reading, restoring, session, seen, overflowed,
                       died, forgotten, restores, crashes>>
    BY <1>4 DEF Save
  <2> QED BY <2>2, <2>3 DEF SendTypes, ReadTypes, RestoreTypes, SessionTypes, HistoryTypes
<1>5. ASSUME NEW m \in Mail, Put(m) PROVE Types'
  BY <1>5 DEF Put, SendTypes, ReadTypes, RestoreTypes, SessionTypes, HistoryTypes
<1>6. ASSUME NEW r \in Readers, NEW n \in {1, MaxCount}, Receive(r, n) PROVE Types'
  <2>1. PICK batch \in Seq(Mail) :
              /\ inbox' \in Seq(Mail)
              /\ left' = [left EXCEPT ![r] = batch]
              /\ held' = [held EXCEPT ![r] = Range(batch)]
              /\ stamp' = [m \in Mail |-> stamp[m] \/ m \in Range(batch)]
    BY <1>6, Received
  <2>2. Range(batch) \in SUBSET Mail
    BY RangeOfSeq
  <2>3. UNCHANGED <<sender, status, restoring, rows, session, history, bounds>>
    BY <1>6 DEF Receive
  <2>4. stamp' \in [Mail -> BOOLEAN]
    BY <2>1
  <2>5. left' \in [Readers -> Seq(Mail)] /\ held' \in [Readers -> SUBSET Mail]
    BY <2>1, <2>2 DEF ReadTypes
  <2> QED BY <2>1, <2>3, <2>4, <2>5
          DEF SendTypes, ReadTypes, RestoreTypes, SessionTypes, HistoryTypes
<1>7. ASSUME NEW r \in Readers, SaveConsumed(r) PROVE Types'
  <2>1. left[r] \in Seq(Mail) /\ left[r] # << >>
    BY <1>7 DEF SaveConsumed, ReadTypes
  <2>2. Head(left[r]) \in Mail /\ Tail(left[r]) \in Seq(Mail)
    BY <2>1
  <2>3. /\ rows' \in [Mail -> RowStatus \cup {"absent"}]
        /\ unsaved' \in SUBSET Mail /\ faults' \in Nat
    BY <1>7, <2>2, RowWritten DEF SaveConsumed
  <2>4. /\ left' = [left EXCEPT ![r] = Tail(left[r])]
        /\ UNCHANGED <<sending, inbox, held, restoring, session, seen, overflowed, died,
                       forgotten, restores, crashes>>
    BY <1>7 DEF SaveConsumed
  <2>5. left' \in [Readers -> Seq(Mail)]
    BY <2>2, <2>4 DEF ReadTypes
  <2> QED BY <2>3, <2>4, <2>5
          DEF SendTypes, ReadTypes, RestoreTypes, SessionTypes, HistoryTypes
<1>8. ASSUME NEW r \in Readers, Use(r) PROVE Types'
  <2>1. /\ seen' = [m \in Mail |-> IF m \in held[r] THEN seen[m] + 1 ELSE seen[m]]
        /\ held' = [held EXCEPT ![r] = {}]
        /\ UNCHANGED <<sending, inbox, left, restoring, rows, session, overflowed, unsaved,
                       died, forgotten, bounds>>
    BY <1>8 DEF Use
  <2>2. seen' \in [Mail -> Nat]
    BY <2>1 DEF ReadTypes
  <2>3. held' \in [Readers -> SUBSET Mail]
    BY <2>1 DEF ReadTypes
  <2> QED BY <2>1, <2>2, <2>3 DEF SendTypes, ReadTypes, RestoreTypes, SessionTypes, HistoryTypes
<1>9. ASSUME NEW who \in {"listing", "resuming"}, ListRows(who) PROVE Types'
  BY <1>9 DEF ListRows, SendTypes, ReadTypes, RestoreTypes, SessionTypes, HistoryTypes
<1>10. ASSUME Rebuild PROVE Types'
  <2>1. inbox' \in Seq(Mail)
    BY <1>10, PutBack
  <2>2. /\ resumed' = (resumed \/ lister = "resuming")
        /\ lister' = "nobody" /\ listed' = {}
        /\ UNCHANGED <<sending, reading, rows, session, history, bounds>>
    BY <1>10 DEF Rebuild
  <2>3. resumed' \in BOOLEAN
    BY <2>2 DEF RestoreTypes
  <2> QED BY <2>1, <2>2, <2>3 DEF SendTypes, ReadTypes, RestoreTypes, SessionTypes, HistoryTypes
<1>11. ASSUME NEW p \in Points, Pending(p) PROVE Types'
  BY <1>11 DEF Pending, SendTypes, ReadTypes, RestoreTypes, SessionTypes, HistoryTypes
<1>12. ASSUME NEW p \in Points, NEW m \in Mail, Take(p, m) PROVE Types'
  <2>1. m \in 0 .. MaxMessages
    BY DEF Mail
  <2> QED BY <1>12, <2>1 DEF Take, SendTypes, ReadTypes, RestoreTypes, SessionTypes, HistoryTypes
<1>13. ASSUME NEW p \in Points, Ack(p) PROVE Types'
  <2>1. 0 \in 0 .. MaxMessages
    BY MessagesAssumption
  <2> QED BY <1>13, <2>1 DEF Ack, SendTypes, ReadTypes, RestoreTypes, SessionTypes, HistoryTypes
<1>14. ASSUME NEW p \in Points, Dump(p) PROVE Types'
  BY <1>14 DEF Dump, SendTypes, ReadTypes, RestoreTypes, SessionTypes, HistoryTypes
<1>15. ASSUME NEW p \in Points, Store(p) PROVE Types'
  BY <1>15 DEF Store, SendTypes, ReadTypes, RestoreTypes, SessionTypes, HistoryTypes
<1>16. ASSUME Crash PROVE Types'
  <2>1. SendTypes' /\ RestoreTypes'
    BY <1>16 DEF Crash, SendTypes, RestoreTypes
  <2>2. ReadTypes'
    BY <1>16 DEF Crash, ReadTypes
  <2>3. SessionTypes'
    <3>1. 0 \in 0 .. MaxMessages
      BY MessagesAssumption
    <3> QED BY <1>16, <3>1 DEF Crash, SessionTypes
  <2>4. UNION {held[r] : r \in Readers} \in SUBSET Mail /\ Acked \in SUBSET Mail
    BY DEF ReadTypes, Acked
  <2>5. HistoryTypes'
    BY <1>16, <2>4 DEF Crash, HistoryTypes
  <2> QED BY <2>1, <2>2, <2>3, <2>5
<1>17. ASSUME UNCHANGED vars PROVE Types'
  BY <1>17 DEF vars, SendTypes, ReadTypes, RestoreTypes, SessionTypes, HistoryTypes
<1> QED
  BY <1>1, <1>2, <1>3, <1>4, <1>5, <1>6, <1>7, <1>8, <1>9, <1>10, <1>11, <1>12,
     <1>13, <1>14, <1>15, <1>16, <1>17
  DEF Next, SendStep, ReadStep, RestoreStep, SessionStep

-----------------------------------------------------------------------------
(* What was handled *)

\* What a step leaves in the readers' hands.
LEMMA HeldKept ==
    ASSUME Types, [Next]_vars
    PROVE  \/ held' = held
           \/ \E r \in Readers, n \in {1, MaxCount} : Receive(r, n)
           \/ \E r \in Readers : Use(r)
           \/ Crash
  BY DEF Next, SendStep, ReadStep, RestoreStep, SessionStep, Refuse, Deliver, Evaluate, Save,
     Put, SaveConsumed, ListRows, Rebuild, Pending, Take, Ack, Dump, Store, vars, sending,
     reading, restoring, session, history, bounds

\* What was handled stays so: a reader lets go of it only by giving it to the
\* model or by dying.
LEMMA HandledKept ==
    ASSUME Types, [Next]_vars, NEW m \in Mail, Handled(m)
    PROVE  Handled(m)'
<1>1. died \subseteq died' /\ (seen[m] > 0 => seen'[m] > 0)
  <2>1. ASSUME NEW r \in Readers, Use(r) PROVE seen[m] > 0 => seen'[m] > 0
    <3>1. seen[m] \in Nat /\ seen'[m] = IF m \in held[r] THEN seen[m] + 1 ELSE seen[m]
      BY <2>1 DEF Use, Types, ReadTypes
    <3> QED BY <3>1
  <2>2. (\E r \in Readers : Use(r)) \/ seen' = seen
    BY DEF Next, SendStep, ReadStep, RestoreStep, SessionStep, Refuse, Deliver, Evaluate, Save,
       Put, Receive, SaveConsumed, ListRows, Rebuild, Pending, Take, Ack, Dump, Store, Crash,
       vars, sending, reading, restoring, session, history, bounds
  <2>3. died \subseteq died'
    BY DEF Next, SendStep, ReadStep, RestoreStep, SessionStep, Refuse, Deliver, Evaluate, Save,
       Put, Receive, SaveConsumed, Use, ListRows, Rebuild, Pending, Take, Ack, Dump, Store,
       Crash, vars, sending, reading, restoring, session, history, bounds
  <2> QED BY <2>1, <2>2, <2>3
<1>2. m \in Held => Handled(m)'
  <2> SUFFICES ASSUME NEW q \in Readers, m \in held[q] PROVE Handled(m)'
    BY DEF Held
  <2>1. CASE held' = held
    BY <2>1 DEF Handled, Held
  <2>2. ASSUME NEW r \in Readers, NEW n \in {1, MaxCount}, Receive(r, n)
        PROVE  Handled(m)'
    <3>1. held[r] = {} /\ held' = [held EXCEPT ![r] = held'[r]]
      BY <2>2 DEF Receive, Types, ReadTypes
    <3>2. held'[q] = held[q]
      BY <3>1 DEF Types, ReadTypes
    <3> QED BY <3>2 DEF Handled, Held
  <2>3. ASSUME NEW r \in Readers, Use(r) PROVE Handled(m)'
    <3>1. held' = [held EXCEPT ![r] = {}]
          /\ seen' = [l \in Mail |-> IF l \in held[r] THEN seen[l] + 1 ELSE seen[l]]
      BY <2>3 DEF Use
    <3>2. CASE r = q
      <4>1. seen'[m] = seen[m] + 1 /\ seen[m] \in Nat
        BY <3>1, <3>2 DEF Types, ReadTypes
      <4> QED BY <4>1 DEF Handled
    <3>3. CASE r # q
      <4>1. held'[q] = held[q]
        BY <3>1, <3>3 DEF Types, ReadTypes
      <4> QED BY <4>1 DEF Handled, Held
    <3> QED BY <3>2, <3>3
  <2>4. CASE Crash
    BY <2>4 DEF Crash, Handled
  <2> QED BY <2>1, <2>2, <2>3, <2>4, HeldKept
<1> QED BY <1>1, <1>2 DEF Handled

\* Only what was handled is called consumed.
LEMMA ReadingsKept == Types /\ Readings /\ [Next]_vars => Readings'
<1> SUFFICES ASSUME Types, Readings, [Next]_vars PROVE Readings'
  OBVIOUS
<1> DEFINE Consumed(m) == stamp[m] \/ status[m] = "consumed" \/ rows[m] = "consumed"
<1>0. Types'
  BY TypesKept
<1>a. ASSUME \A r \in Readers : Range(left'[r]) \subseteq held'[r],
             \A m \in Mail : Consumed(m)' => Consumed(m) \/ Handled(m)'
      PROVE  Readings'
  BY <1>a, HandledKept DEF Readings
<1>b. ASSUME UNCHANGED <<stamp, status, rows, left, held>> PROVE Readings'
  BY <1>a, <1>b DEF Readings
<1>1. ASSUME NEW m \in Mail, Evaluate(m) PROVE Readings'
  <2>1. /\ status' = [status EXCEPT ![m] = IF stamp[m] THEN "consumed" ELSE "delivered"]
        /\ UNCHANGED <<stamp, rows, left, held>>
    BY <1>1 DEF Evaluate, reading
  <2>2. \A l \in Mail : Consumed(l)' => Consumed(l)
    BY <2>1 DEF Types, SendTypes
  <2> QED BY <1>a, <2>1, <2>2 DEF Readings
<1>2. ASSUME NEW m \in Mail, Save(m) PROVE Readings'
  <2>1. /\ rows' = rows \/ rows' = [rows EXCEPT ![m] = status[m]]
        /\ UNCHANGED <<stamp, status, left, held>>
    BY <1>2 DEF Save, Write, reading
  <2>2. \A l \in Mail : Consumed(l)' => Consumed(l)
    BY <2>1 DEF Types, SendTypes
  <2> QED BY <1>a, <2>1, <2>2 DEF Readings
<1>3. ASSUME NEW r \in Readers, NEW n \in {1, MaxCount}, Receive(r, n) PROVE Readings'
  <2>1. PICK batch \in Seq(Mail) :
              /\ left' = [left EXCEPT ![r] = batch]
              /\ held' = [held EXCEPT ![r] = Range(batch)]
              /\ stamp' = [m \in Mail |-> stamp[m] \/ m \in Range(batch)]
    BY <1>3, Received
  <2>2. UNCHANGED <<status, rows>>
    BY <1>3 DEF Receive
  <2>3. held'[r] = Range(batch)
    BY <2>1 DEF Types, ReadTypes
  <2>4. \A m \in Mail : stamp'[m] => stamp[m] \/ m \in held'[r]
    BY <2>1, <2>3
  <2>5. \A m \in Mail : Consumed(m)' => Consumed(m) \/ Handled(m)'
    BY <2>2, <2>4 DEF Handled, Held
  <2>6. \A q \in Readers : Range(left'[q]) \subseteq held'[q]
    BY <2>1 DEF Readings, Types, ReadTypes
  <2> QED BY <1>a, <2>5, <2>6
<1>4. ASSUME NEW r \in Readers, SaveConsumed(r) PROVE Readings'
  <2>1. left[r] \in Seq(Mail) /\ left[r] # << >>
    BY <1>4 DEF SaveConsumed, Types, ReadTypes
  <2>2. /\ rows' = rows \/ rows' = [rows EXCEPT ![Head(left[r])] = "consumed"]
        /\ left' = [left EXCEPT ![r] = Tail(left[r])]
        /\ UNCHANGED <<stamp, status, held>>
    BY <1>4 DEF SaveConsumed, Write, sending
  <2>3. Head(left[r]) \in held[r] /\ Range(Tail(left[r])) \subseteq held[r]
    BY <2>1, FirstAndRest DEF Readings
  <2>4. Head(left[r]) \in Held'
    BY <2>2, <2>3 DEF Held
  <2>5. \A m \in Mail : rows'[m] = "consumed" => rows[m] = "consumed" \/ m = Head(left[r])
    BY <2>2 DEF Types, SendTypes
  <2>6. \A m \in Mail : Consumed(m)' => Consumed(m) \/ Handled(m)'
    BY <2>2, <2>4, <2>5 DEF Handled
  <2>7. \A q \in Readers : Range(left'[q]) \subseteq held'[q]
    BY <2>2, <2>3 DEF Readings, Types, ReadTypes
  <2> QED BY <1>a, <2>6, <2>7
<1>5. ASSUME NEW r \in Readers, Use(r) PROVE Readings'
  <2>1. /\ left[r] = << >> /\ left' = left /\ held' = [held EXCEPT ![r] = {}]
        /\ UNCHANGED <<stamp, status, rows>>
    BY <1>5 DEF Use, sending
  <2>2. Range(left'[r]) = {}
    BY <2>1 DEF Range
  <2>3. \A q \in Readers : Range(left'[q]) \subseteq held'[q]
    BY <2>1, <2>2 DEF Readings, Types, ReadTypes
  <2> QED BY <1>a, <2>1, <2>3
<1>6. ASSUME Crash PROVE Readings'
  <2>1. \A r \in Readers : Range(left'[r]) = {}
    BY <1>6 DEF Crash, Range
  <2> QED BY <1>6, <1>a, <2>1 DEF Crash
<1>7. CASE UNCHANGED <<stamp, status, rows, left, held>>
  BY <1>7, <1>b
<1>8. ASSUME Next
      PROVE  \/ \E m \in Mail : Evaluate(m) \/ Save(m)
             \/ \E r \in Readers : \/ \E n \in {1, MaxCount} : Receive(r, n)
                                   \/ SaveConsumed(r) \/ Use(r)
             \/ Crash
             \/ UNCHANGED <<stamp, status, rows, left, held>>
  BY <1>8 DEF Next, SendStep, ReadStep, RestoreStep, SessionStep, Refuse, Deliver, Put,
     ListRows, Rebuild, Pending, Take, Ack, Dump, Store, sending, reading, session
<1>9. UNCHANGED vars => UNCHANGED <<stamp, status, rows, left, held>>
  BY DEF vars, sending, reading
<1> QED
  BY <1>1, <1>2, <1>3, <1>4, <1>5, <1>6, <1>7, <1>8, <1>9

\* What is sent was written.
LEMMA WrittenKept == Types /\ Written /\ [Next]_vars => Written'
<1> SUFFICES ASSUME Types, Written, [Next]_vars, NEW m \in Mail,
                    sender'[m] \in {"saved", "sent"}
             PROVE  rows'[m] # "absent" \/ m \in unsaved'
  BY DEF Written
<1>1. unsaved \subseteq unsaved' /\ (rows[m] # "absent" => rows'[m] # "absent")
  <2>1. ASSUME NEW l \in Mail, NEW s \in RowStatus, Write(l, s)
        PROVE  unsaved \subseteq unsaved' /\ (rows[m] # "absent" => rows'[m] # "absent")
    BY <2>1 DEF Write, Types, SendTypes, RowStatus
  <2>2. ASSUME NEW l \in Mail, Save(l)
        PROVE  unsaved \subseteq unsaved' /\ (rows[m] # "absent" => rows'[m] # "absent")
    BY <2>1, <2>2 DEF Save, Types, SendTypes
  <2>3. ASSUME NEW r \in Readers, SaveConsumed(r)
        PROVE  unsaved \subseteq unsaved' /\ (rows[m] # "absent" => rows'[m] # "absent")
    <3>1. Head(left[r]) \in Mail
      BY <2>3 DEF SaveConsumed, Types, ReadTypes
    <3> QED BY <2>1, <2>3, <3>1 DEF SaveConsumed, RowStatus
  <2>4. \/ \E l \in Mail : Save(l)
        \/ \E r \in Readers : SaveConsumed(r)
        \/ UNCHANGED <<rows, unsaved>>
    BY DEF Next, SendStep, ReadStep, RestoreStep, SessionStep, Refuse, Deliver, Evaluate, Put,
       Receive, Use, ListRows, Rebuild, Pending, Take, Ack, Dump, Store, Crash, vars, sending,
       reading, session, history
  <2> QED BY <2>2, <2>3, <2>4
<1>2. CASE sender[m] \in {"saved", "sent"}
  BY <1>1, <1>2 DEF Written
<1>3. CASE sender[m] \notin {"saved", "sent"}
  <2>1. Save(m)
    BY <1>3 DEF Next, SendStep, ReadStep, RestoreStep, SessionStep, Refuse, Deliver, Evaluate,
       Save, Put, Receive, SaveConsumed, Use, ListRows, Rebuild, Pending, Take, Ack, Dump, Store,
       Crash, vars, sending, Types, SendTypes
  <2>2. Write(m, status[m]) /\ status[m] \in RowStatus
    BY <2>1 DEF Save, Types, SendTypes
  <2> QED BY <2>2, RowWritten
<1> QED BY <1>2, <1>3

-----------------------------------------------------------------------------
(* What waits *)

\* A message leaves the inbox, but for a crash, only to be dropped or read.
LEMMA InboxKept ==
    ASSUME Types, [Next]_vars, ~Crash, NEW m \in Range(inbox)
    PROVE  m \in Range(inbox') \cup overflowed' \cup Held'
<1>1. ASSUME NEW l \in Mail, Deliver(l) PROVE m \in Range(inbox') \cup overflowed'
  BY <1>1, Delivered
<1>2. ASSUME NEW r \in Readers, NEW n \in {1, MaxCount}, Receive(r, n)
      PROVE  m \in Range(inbox') \cup Held'
  <2>1. PICK batch \in Seq(Mail) :
              /\ Range(inbox) = Range(batch) \cup Range(inbox')
              /\ held' = [held EXCEPT ![r] = Range(batch)]
    BY <1>2, Received
  <2>2. held'[r] = Range(batch)
    BY <2>1 DEF Types, ReadTypes
  <2> QED BY <2>1, <2>2 DEF Held
<1>3. Rebuild => m \in Range(inbox')
  BY PutBack
<1>4. \/ \E l \in Mail : Deliver(l)
      \/ \E r \in Readers, n \in {1, MaxCount} : Receive(r, n)
      \/ Rebuild
      \/ inbox' = inbox
  BY DEF Next, SendStep, ReadStep, RestoreStep, SessionStep, Refuse, Evaluate, Save, Put,
     SaveConsumed, Use, ListRows, Pending, Take, Ack, Dump, Store, vars
<1> QED BY <1>1, <1>2, <1>3, <1>4

\* But for a crash, nothing that somebody has is gone after a step.
LEMMA NothingGoes ==
    ASSUME Types, [Next]_vars, ~Crash, NEW m \in Mail, Gone(m)'
    PROVE  Gone(m)
<1> SUFFICES ASSUME ~Gone(m) PROVE FALSE
  OBVIOUS
<1>0. seen[m] \in Nat /\ seen'[m] \in Nat
  BY TypesKept DEF Types, ReadTypes
<1>1. ~Handled(m)'
  BY <1>0 DEF Gone, Alive, Excused, Handled, Held
<1>2. ~Handled(m)
  BY <1>1, HandledKept
<1>3. overflowed \subseteq overflowed' /\ unsaved \subseteq unsaved'
  <2>1. overflowed \subseteq overflowed'
    BY DEF Next, SendStep, ReadStep, RestoreStep, SessionStep, Refuse, Deliver, Evaluate, Save,
       Put, Receive, SaveConsumed, Use, ListRows, Rebuild, Pending, Take, Ack, Dump, Store,
       Crash, vars, history
  <2>2. unsaved \subseteq unsaved'
    BY DEF Next, SendStep, ReadStep, RestoreStep, SessionStep, Refuse, Deliver, Evaluate, Save,
       Put, Receive, SaveConsumed, Use, ListRows, Rebuild, Pending, Take, Ack, Dump, Store,
       Crash, Write, vars, history
  <2> QED BY <2>1, <2>2
<1>4. m \in Range(inbox) \cup overflowed \cup unsaved
  BY <1>0, <1>2 DEF Gone, Alive, Excused, Handled, Held
<1>5. m \notin Range(inbox') \cup overflowed' \cup unsaved' \cup Held'
  BY DEF Gone, Alive, Excused, Held
<1> QED BY <1>3, <1>4, <1>5, InboxKept

\* A sent message that is gone from everybody's hands has its row, unread.
LEMMA RowWaits ==
    ASSUME Types, Readings, Written, NEW m \in Mail, sender[m] = "sent", Gone(m)
    PROVE  rows[m] = "delivered"
<1>1. ~Handled(m) /\ m \notin unsaved
  BY DEF Gone, Alive, Excused, Handled, Held
<1>2. rows[m] # "consumed" /\ rows[m] # "absent"
  BY <1>1 DEF Readings, Written
<1> QED BY <1>2 DEF Types, SendTypes, RowStatus

\* A message that nobody has waits for a resume, in its row or in the list.
LEMMA WaitingKept == MailInv /\ [Next]_vars => Waiting'
<1> SUFFICES ASSUME MailInv, [Next]_vars, NEW m \in Mail,
                    sender'[m] \in Under \cup {"sent"}, Gone(m)'
             PROVE  /\ sender'[m] = "sent" /\ ~resumed'
                    /\ lister' # "nobody" => m \in listed'
  BY DEF Waiting
<1> USE DEF MailInv
<1>1. CASE Crash
  BY <1>1 DEF Crash, Under, Types, SendTypes
<1>2. CASE ~Crash
  <2>1. Gone(m)
    BY <1>2, NothingGoes
  <2>2. ~Deliver(m)
    BY Delivered DEF Gone, Alive
  <2>3. sender[m] \in Under \cup {"sent"}
    BY <1>2, <2>2 DEF Next, SendStep, ReadStep, RestoreStep, SessionStep, Refuse, Deliver,
       Evaluate, Save, Put, Receive, SaveConsumed, Use, ListRows, Rebuild, Pending, Take, Ack,
       Dump, Store, vars, sending, Under, Types, SendTypes
  <2>4. sender[m] = "sent" /\ ~resumed /\ (lister # "nobody" => m \in listed)
    BY <2>1, <2>3 DEF Waiting
  <2>5. sender'[m] = "sent"
    BY <1>2, <2>4 DEF Next, SendStep, ReadStep, RestoreStep, SessionStep, Refuse, Deliver,
       Evaluate, Save, Put, Receive, SaveConsumed, Use, ListRows, Rebuild, Pending, Take, Ack,
       Dump, Store, vars, sending, Types, SendTypes
  <2>6. ~Rebuild
    <3>1. Rebuild => m \in Range(inbox')
      BY <2>4, PutBack DEF Rebuild
    <3> QED BY <3>1 DEF Gone, Alive
  <2>7. \/ \E who \in {"listing", "resuming"} : ListRows(who)
        \/ UNCHANGED <<lister, listed, resumed>>
    BY <1>2, <2>6 DEF Next, SendStep, ReadStep, RestoreStep, SessionStep, Refuse, Deliver,
       Evaluate, Save, Put, Receive, SaveConsumed, Use, Pending, Take, Ack, Dump, Store, vars,
       restoring
  <2>8. ASSUME NEW who \in {"listing", "resuming"}, ListRows(who)
        PROVE  resumed' = resumed /\ m \in listed'
    <3>1. rows[m] = "delivered"
      BY <2>1, <2>4, RowWaits
    <3> QED BY <2>8, <3>1 DEF ListRows
  <2> QED BY <2>4, <2>5, <2>7, <2>8
<1> QED BY <1>1, <1>2

\* In the first state there is no message.
LEMMA MailInit == Init => MailInv
<1> SUFFICES ASSUME Init PROVE MailInv
  OBVIOUS
<1>1. << >> \in Seq(Mail) /\ Range(<< >>) = {} /\ 0 \in 0 .. MaxMessages
  BY MessagesAssumption DEF Range
<1>2. SendTypes /\ ReadTypes /\ RestoreTypes /\ SessionTypes /\ HistoryTypes
  BY <1>1 DEF Init, SendTypes, ReadTypes, RestoreTypes, SessionTypes, HistoryTypes, RowStatus
<1>3. Readings
  BY <1>1 DEF Init, Readings
<1>4. Written /\ Waiting
  BY DEF Init, Written, Waiting, Under
<1> QED BY <1>2, <1>3, <1>4 DEF MailInv, Types

\* The inductive invariant of the mailbox holds of every reachable state.
THEOREM MailInvariant == Spec => []MailInv
<1>1. MailInv /\ [Next]_vars => MailInv'
  BY TypesKept, ReadingsKept, WrittenKept, WaitingKept DEF MailInv
<1> QED
  BY MailInit, <1>1, PTL DEF Spec

\* Queues, rows and sessions keep their types.
THEOREM TypeCorrect == Spec => []TypeOK
<1>1. MailInv => TypeOK
  BY DEF MailInv, Types, SendTypes, ReadTypes, RestoreTypes, SessionTypes, HistoryTypes, TypeOK
<1> QED
  BY MailInvariant, <1>1, PTL

\* A message whose send returned TRUE is not lost, however the readers, the
\* lists of rows and the resumes overlap with the senders that still write,
\* unless the inbox was full, its row was not written, or its reader died with
\* it (Mailbox.send, receive, restore_from_db).
THEOREM MessagesAreKept == Spec => []NoMessageIsLost
<1>1. MailInv => NoMessageIsLost
  <2> SUFFICES ASSUME MailInv, NEW m \in Mail, sender[m] = "sent", seen[m] = 0,
                      m \notin Alive \cup Excused
               PROVE  ~resumed /\ rows[m] = "delivered"
    BY DEF NoMessageIsLost
  <2>1. Gone(m)
    BY DEF Gone
  <2> QED BY <2>1, RowWaits DEF MailInv, Waiting
<1> QED
  BY MailInvariant, <1>1, PTL

\* Types, and where a message can be (send, receive and restore_from_db).
THEOREM MailIsSafe == Spec => []Safety
  BY TypeCorrect, MessagesAreKept, PTL DEF Safety

-----------------------------------------------------------------------------
(* Commands *)

\* What is taken is in the conversation before it is acknowledged.
TakenIsKept == \A p \in Points : taken[p] # 0 => taken[p] \in conversation

SessionInv == SessionTypes /\ TakenIsKept /\ ConversationKeepsAcked

\* A command stays in the conversation, or a crash notes that it was lost.
LEMMA SessionKept == Types /\ SessionInv /\ [Next]_vars => SessionInv'
<1> SUFFICES ASSUME Types, SessionInv, [Next]_vars
             PROVE  TakenIsKept' /\ ConversationKeepsAcked'
  BY TypesKept DEF SessionInv, Types
<1> USE DEF SessionInv, SessionTypes, TakenIsKept, ConversationKeepsAcked, Acked
<1>1. ASSUME NEW m \in Mail, Put(m) PROVE TakenIsKept' /\ ConversationKeepsAcked'
  BY <1>1 DEF Put, history
<1>2. ASSUME NEW p \in Points, NEW m \in Mail, Take(p, m)
      PROVE  TakenIsKept' /\ ConversationKeepsAcked'
  BY <1>2 DEF Take, history
<1>3. ASSUME NEW p \in Points, Ack(p) PROVE TakenIsKept' /\ ConversationKeepsAcked'
  BY <1>3 DEF Ack, history
<1>4. ASSUME Crash PROVE TakenIsKept' /\ ConversationKeepsAcked'
  BY <1>4 DEF Crash
<1>5. CASE UNCHANGED <<commands, taken, conversation, forgotten>>
  BY <1>5
<1>6. \/ \E m \in Mail : Put(m)
      \/ \E p \in Points : (\E m \in Mail : Take(p, m)) \/ Ack(p)
      \/ Crash
      \/ UNCHANGED <<commands, taken, conversation, forgotten>>
  BY DEF Next, SendStep, ReadStep, RestoreStep, SessionStep, Refuse, Deliver, Evaluate, Save,
     Receive, SaveConsumed, Use, ListRows, Rebuild, Pending, Dump, Store, vars, session, history
<1> QED BY <1>1, <1>2, <1>3, <1>4, <1>5, <1>6

\* No acknowledged command is missing from the actor's conversation, but for
\* those a crash found unwritten, with any number of safety points at once
\* (TeammateSessionActor.safety_point).
THEOREM AckedIsKept == Spec => []ConversationKeepsAcked
<1>1. Init => SessionInv
  <2>1. Init => SessionTypes
    BY MailInit DEF MailInv, Types
  <2> QED BY <2>1 DEF Init, SessionInv, TakenIsKept, ConversationKeepsAcked, Acked
<1>2. Spec => []Types
  BY MailInvariant, PTL DEF MailInv
<1>3. Types /\ SessionInv /\ [Next]_vars => SessionInv'
  BY SessionKept
<1>4. SessionInv => ConversationKeepsAcked
  BY DEF SessionInv
<1> QED
  BY <1>1, <1>2, <1>3, <1>4, PTL DEF Spec

-----------------------------------------------------------------------------
(* The table of events.  No page writes to it: every step of a page or of  *)
(* a connection is a stutter here.                                         *)

TableTypes ==
    /\ log \in [Runs -> Seq(Row)]
    /\ open \in SUBSET Writers
    /\ buffer \in [Writers -> [Runs -> Seq(Row)]]

\* At most one transaction is open, and only an open one has rows.
OneWriter ==
    /\ \A w, v \in open : w = v
    /\ \A w \in Writers \ open : buffer[w] = Nothing

\* Every transaction sees a sound table.
ViewsAreSound == \A w \in Writers : Sound(Visible(w))

TableInv == TableTypes /\ OneWriter /\ LogIsSound /\ ViewsAreSound

-----------------------------------------------------------------------------
\* Joining nothing to a sequence leaves it as it is.
LEMMA NothingJoined ==
    ASSUME TableTypes
    PROVE  [r \in Runs |-> log[r] \o Nothing[r]] = log
<1>1. \A r \in Runs : log[r] \in Seq(Row) /\ Nothing[r] = << >>
  BY DEF TableTypes, Nothing
<1>2. \A r \in Runs : log[r] \o << >> = log[r]
  BY <1>1, ConcatEmptySeq
<1> QED BY <1>1, <1>2 DEF TableTypes

\* A transaction that has written nothing sees what is committed.
LEMMA SeesTheLog ==
    ASSUME TableTypes, NEW w \in Writers, buffer[w] = Nothing
    PROVE  Visible(w) = log
  BY NothingJoined DEF Visible

\* The number after those of the rows 1, 2 ... n is n + 1.
LEMMA NumberAfter ==
    ASSUME NEW s \in Seq(Row), \A p \in DOMAIN s : s[p].seq = p
    PROVE  NextNumber(s) = Len(s) + 1
<1> DEFINE S == {s[p].seq : p \in DOMAIN s}
<1>1. Len(s) \in Nat /\ DOMAIN s = 1 .. Len(s)
  OBVIOUS
<1>2. S = 1 .. Len(s)
  BY <1>1
<1> HIDE DEF S
<1>3. Greatest(S) = Len(s)
  <2>1. CASE Len(s) = 0
    BY <1>1, <1>2, <2>1 DEF Greatest
  <2>2. CASE Len(s) # 0
    <3>1. Len(s) \in S /\ \A m \in S : m <= Len(s)
      BY <1>1, <1>2, <2>2
    <3>2. ASSUME NEW n \in S, \A m \in S : m <= n PROVE n = Len(s)
      <4>1. Len(s) <= n /\ n <= Len(s)
        BY <3>1, <3>2
      <4>2. n \in Int
        BY <1>2
      <4>3. Len(s) \in Int
        BY <1>1
      <4> QED BY <4>1, <4>2, <4>3
    <3>3. Greatest(S) = CHOOSE n \in S : \A m \in S : m <= n
      BY <3>1 DEF Greatest
    <3>4. Greatest(S) \in S /\ \A m \in S : m <= Greatest(S)
      BY <3>1, <3>3
    <3> QED BY <3>2, <3>4
  <2> QED BY <2>1, <2>2
<1> QED BY <1>3 DEF NextNumber, S

\* Appending a row with the next number and a new key keeps the table sound.
LEMMA SoundAppend ==
    ASSUME NEW records \in [Runs -> Seq(Row)], Sound(records), NEW r \in Runs,
           NEW k \in Keys \cup {"none"}, k = "none" \/ ~HasKey(records, k)
    PROVE  Sound([records EXCEPT ![r] = Append(@, [seq |-> Len(records[r]) + 1, key |-> k])])
<1> DEFINE new == [seq |-> Len(records[r]) + 1, key |-> k]
           next == [records EXCEPT ![r] = Append(@, new)]
<1>1. \A s \in Runs : DOMAIN records[s] = 1 .. Len(records[s]) /\ Len(records[s]) \in Nat
  OBVIOUS
<1>2. /\ DOMAIN next[r] = (DOMAIN records[r]) \cup {Len(records[r]) + 1}
      /\ next[r][Len(records[r]) + 1] = new
      /\ \A p \in DOMAIN records[r] : next[r][p] = records[r][p]
  <2>1. next[r] = Append(records[r], new)
    OBVIOUS
  <2>2. new \in Row
    BY <1>1 DEF Row
  <2> HIDE DEF next, new
  <2> QED BY <1>1, <2>1, <2>2, AppendProperties
<1>3. \A s \in Runs \ {r} : next[s] = records[s]
  OBVIOUS
<1>4. new.seq = Len(records[r]) + 1 /\ new.key = k
  OBVIOUS
<1> HIDE DEF next, new
<1>5. \A s \in Runs : \A p \in DOMAIN next[s] :
          \/ p \in DOMAIN records[s] /\ next[s][p] = records[s][p]
          \/ s = r /\ p = Len(records[r]) + 1 /\ next[s][p] = new
  BY <1>2, <1>3
<1>6. \A s \in Runs : \A p \in DOMAIN next[s] : next[s][p].seq = p
  BY <1>4, <1>5 DEF Sound
<1>7. ASSUME NEW s \in Runs, NEW t \in Runs, NEW p \in DOMAIN next[s], NEW q \in DOMAIN next[t],
             next[s][p].key = next[t][q].key, next[s][p].key # "none"
      PROVE  s = t /\ p = q
  <2>1. CASE p \in DOMAIN records[s] /\ q \in DOMAIN records[t]
    <3>1. next[s][p] = records[s][p] /\ next[t][q] = records[t][q]
      BY <1>2, <1>3, <2>1
    <3> QED BY <1>7, <2>1, <3>1 DEF Sound
  <2>2. CASE p \in DOMAIN records[s] /\ q \notin DOMAIN records[t]
    <3>1. next[s][p] = records[s][p] /\ next[t][q] = new
      BY <1>2, <1>3, <1>5, <2>2
    <3> QED BY <1>4, <1>7, <2>2, <3>1 DEF HasKey
  <2>3. CASE p \notin DOMAIN records[s] /\ q \in DOMAIN records[t]
    <3>1. next[t][q] = records[t][q] /\ next[s][p] = new
      BY <1>2, <1>3, <1>5, <2>3
    <3> QED BY <1>4, <1>7, <2>3, <3>1 DEF HasKey
  <2>4. CASE p \notin DOMAIN records[s] /\ q \notin DOMAIN records[t]
    BY <1>5, <2>4
  <2> QED BY <2>1, <2>2, <2>3, <2>4
<1>8. Sound(next)
  BY <1>6, <1>7 DEF Sound
<1> QED BY <1>8 DEF next, new

-----------------------------------------------------------------------------
\* What an event adds to the rows that its transaction sees, and only there
\* (_append_event_envelope).
LEMMA Appended ==
    ASSUME TableInv, NEW w \in Writers, NEW r \in Runs, NEW k \in Keys \cup {"none"},
           AppendEvent(w, r, k)
    PROVE  /\ w \in open /\ UNCHANGED <<log, open>>
           /\ TableTypes'
           /\ \A v \in Writers \ {w} : buffer'[v] = buffer[v]
           /\ Sound(Visible(w)')
<1> USE DEF TableInv, TableTypes
<1>1. w \in open /\ log' = log /\ open' = open
  BY DEF AppendEvent
<1>2. CASE k # "none" /\ HasKey(Visible(w), k)
  <2>1. buffer' = buffer
    BY <1>2 DEF AppendEvent
  <2>2. Visible(w)' = Visible(w)
    BY <1>1, <2>1 DEF Visible
  <2> QED BY <1>1, <2>1, <2>2 DEF ViewsAreSound
<1>3. CASE ~(k # "none" /\ HasKey(Visible(w), k))
  <2> DEFINE records == Visible(w)
             new == [seq |-> NextNumber(records[r]), key |-> k]
  <2>1. buffer' = [buffer EXCEPT ![w][r] = Append(@, new)]
    BY <1>3 DEF AppendEvent
  <2>2. \A s \in Runs : log[s] \in Seq(Row) /\ buffer[w][s] \in Seq(Row)
    OBVIOUS
  <2>3. records \in [Runs -> Seq(Row)] /\ \A s \in Runs : records[s] = log[s] \o buffer[w][s]
    <3>1. \A s \in Runs : log[s] \o buffer[w][s] \in Seq(Row)
      BY <2>2, ConcatProperties
    <3> QED BY <3>1 DEF Visible
  <2>4. Sound(records)
    BY DEF ViewsAreSound
  <2> HIDE DEF records
  <2>5. NextNumber(records[r]) = Len(records[r]) + 1
    BY <2>3, <2>4, NumberAfter DEF Sound
  <2>6. new \in Row
    BY <2>3, <2>5 DEF Row
  <2>7. Sound([records EXCEPT ![r] = Append(@, new)])
    <3>1. k = "none" \/ ~HasKey(records, k)
      BY <1>3 DEF records
    <3> QED BY <2>3, <2>4, <2>5, <3>1, SoundAppend
  <2> HIDE DEF new
  <2>8. TableTypes'
    <3>1. Append(buffer[w][r], new) \in Seq(Row)
      BY <2>2, <2>6, AppendProperties
    <3>2. [buffer[w] EXCEPT ![r] = Append(@, new)] \in [Runs -> Seq(Row)]
      BY <3>1
    <3>3. buffer' = [buffer EXCEPT ![w] = [buffer[w] EXCEPT ![r] = Append(@, new)]]
      BY <2>1
    <3> QED BY <1>1, <3>2, <3>3
  <2>9. Visible(w)' = [records EXCEPT ![r] = Append(@, new)]
    <3>1. buffer'[w][r] = Append(buffer[w][r], new)
      BY <2>1
    <3>2. \A s \in Runs \ {r} : buffer'[w][s] = buffer[w][s]
      BY <2>1
    <3>3. log[r] \o Append(buffer[w][r], new) = Append(log[r] \o buffer[w][r], new)
      BY <2>2, <2>6
    <3>4. \A s \in Runs : log'[s] \o buffer'[w][s]
                            = [records EXCEPT ![r] = Append(@, new)][s]
      BY <1>1, <2>3, <3>1, <3>2, <3>3
    <3>5. Visible(w)' = [s \in Runs |-> log'[s] \o buffer'[w][s]]
      BY DEF Visible
    <3> QED BY <2>3, <3>4, <3>5
  <2>10. \A v \in Writers \ {w} : buffer'[v] = buffer[v]
    BY <2>1
  <2> QED BY <1>1, <2>7, <2>8, <2>9, <2>10
<1> QED BY <1>2, <1>3

\* While no transaction is open, all that is seen is committed.
LEMMA AllIsCommitted ==
    TableTypes /\ OneWriter /\ LogIsSound /\ open = {} => TableInv
<1> SUFFICES ASSUME TableTypes, OneWriter, LogIsSound, open = {}, NEW w \in Writers
             PROVE  Sound(Visible(w))
  BY DEF TableInv, ViewsAreSound
<1> QED BY SeesTheLog DEF OneWriter, LogIsSound

\* Every step keeps the invariant: one step per operation of the store.
LEMMA TableStep == TableInv /\ [LogNext]_logVars => TableInv'
<1> SUFFICES ASSUME TableInv, [LogNext]_logVars PROVE TableInv'
  OBVIOUS
<1>a. (TableTypes /\ OneWriter /\ LogIsSound /\ open = {})' => TableInv'
  BY AllIsCommitted, PTL
<1> USE DEF TableInv
<1>b. Nothing \in [Runs -> Seq(Row)]
  BY DEF Nothing
<1>1. ASSUME NEW w \in Writers, Begin(w) PROVE TableInv'
  <2>1. open = {} /\ open' = {w} /\ UNCHANGED <<log, buffer>>
    BY <1>1 DEF Begin
  <2> QED BY <2>1 DEF TableTypes, OneWriter, LogIsSound, ViewsAreSound, Visible
<1>2. ASSUME NEW w \in Writers, NEW r \in Runs, NEW k \in Keys \cup {"none"},
             AppendEvent(w, r, k)
      PROVE  TableInv'
  <2>1. /\ w \in open /\ UNCHANGED <<log, open>> /\ TableTypes'
        /\ \A v \in Writers \ {w} : buffer'[v] = buffer[v]
        /\ Sound(Visible(w)')
    BY <1>2, Appended
  <2>2. OneWriter'
    BY <2>1 DEF OneWriter
  <2>3. ASSUME NEW v \in Writers \ {w} PROVE Visible(v)' = Visible(v)
    BY <2>1 DEF Visible
  <2>4. ViewsAreSound'
    BY <2>1, <2>3 DEF ViewsAreSound
  <2> QED BY <2>1, <2>2, <2>4 DEF LogIsSound
<1>3. ASSUME NEW w \in Writers, Commit(w) PROVE TableInv'
  <2>1. /\ w \in open /\ log' = Visible(w) /\ open' = open \ {w}
        /\ buffer' = [buffer EXCEPT ![w] = Nothing]
    BY <1>3 DEF Commit
  <2>2. \A s \in Runs : log[s] \o buffer[w][s] \in Seq(Row)
    BY ConcatProperties DEF TableTypes
  <2>3. Visible(w) \in [Runs -> Seq(Row)]
    BY <2>2 DEF Visible
  <2>4. TableTypes'
    BY <1>b, <2>1, <2>3 DEF TableTypes
  <2>5. OneWriter' /\ open' = {}
    BY <2>1 DEF OneWriter, TableTypes
  <2>6. LogIsSound'
    BY <2>1 DEF LogIsSound, ViewsAreSound
  <2> QED BY <1>a, <2>4, <2>5, <2>6
<1>4. ASSUME NEW w \in Writers, Rollback(w) PROVE TableInv'
  <2>1. /\ w \in open /\ log' = log /\ open' = open \ {w}
        /\ buffer' = [buffer EXCEPT ![w] = Nothing]
    BY <1>4 DEF Rollback
  <2>2. TableTypes' /\ OneWriter' /\ open' = {}
    BY <1>b, <2>1 DEF TableTypes, OneWriter
  <2> QED BY <1>a, <2>1, <2>2 DEF LogIsSound
<1>5. CASE ServerDies
  <2>1. log' = log /\ open' = {} /\ buffer' = [w \in Writers |-> Nothing]
    BY <1>5 DEF ServerDies
  <2>2. TableTypes' /\ OneWriter'
    BY <1>b, <2>1 DEF TableTypes, OneWriter
  <2> QED BY <1>a, <2>1, <2>2 DEF LogIsSound
<1>6. CASE UNCHANGED table
  BY <1>6 DEF table, TableTypes, OneWriter, LogIsSound, ViewsAreSound, Visible
<1>7. ASSUME LogNext
      PROVE  \/ \E w \in Writers :
                    \/ Begin(w) \/ Commit(w) \/ Rollback(w)
                    \/ \E r \in Runs, k \in Keys \cup {"none"} : AppendEvent(w, r, k)
             \/ ServerDies
             \/ UNCHANGED table
  BY <1>7 DEF LogNext, WriteStep, LoadStep, StreamStep, UserStep, FetchPage, Arrive, Fail, Poll,
     OnMessage, Broken, Reconnect, Online, Switch, Refresh
<1>8. UNCHANGED logVars => UNCHANGED table
  BY DEF logVars
<1> QED
  BY <1>1, <1>2, <1>3, <1>4, <1>5, <1>6, <1>7, <1>8

\* In the first state the table is empty.
LEMMA TableInit == LogInit => TableInv
<1> SUFFICES ASSUME LogInit PROVE TableInv
  OBVIOUS
<1>1. log = Nothing /\ open = {} /\ buffer = [w \in Writers |-> Nothing]
  BY DEF LogInit
<1>2. \A r \in Runs : Nothing[r] = << >> /\ DOMAIN Nothing[r] = {}
  BY DEF Nothing
<1>3. TableTypes /\ OneWriter
  BY <1>1 DEF TableTypes, OneWriter, Nothing
<1>4. LogIsSound
  BY <1>1, <1>2 DEF LogIsSound, Sound
<1> QED
  BY <1>1, <1>3, <1>4, AllIsCommitted

\* The inductive invariant of the table of events holds of every reachable state.
THEOREM TableInvariant == LogSpec => []TableInv
  BY TableInit, TableStep, PTL DEF LogSpec

\* The sequence numbers of a run have no gap, follow the order of the commits and
\* are never given twice, and a key is used once, whatever transactions are
\* rolled back or die (_append_event_envelope).
THEOREM NumbersFollowCommits == LogSpec => []LogIsSound
  BY TableInvariant, PTL DEF TableInv

-----------------------------------------------------------------------------
(* Sorting.  A number's rank in a set of numbers is how many are less; the  *)
(* ranks of a set of n numbers are 0 to n - 1, each once.                   *)

Rank(S, p) == Cardinality({q \in S : q < p})

LEMMA SeqOfMore ==
    ASSUME NEW A, NEW B, A \subseteq B, NEW s \in Seq(A)
    PROVE  s \in Seq(B)
<1>1. Len(s) \in Nat /\ s \in [1 .. Len(s) -> A]
  OBVIOUS
<1>2. s \in [1 .. Len(s) -> B]
  BY <1>1
<1> QED BY <1>1, <1>2

LEMMA RanksGrow ==
    ASSUME NEW S \in SUBSET Nat, IsFiniteSet(S)
    PROVE  /\ \A p \in S : Rank(S, p) \in 0 .. Cardinality(S) - 1
           /\ \A p, q \in S : p < q => Rank(S, p) < Rank(S, q)
           /\ \A p, q \in S : Rank(S, p) = Rank(S, q) => p = q
<1> DEFINE Less(p) == {q \in S : q < p}
<1>0. Cardinality(S) \in Nat
  BY FS_CardinalityType
<1>1. ASSUME NEW p \in S
      PROVE  IsFiniteSet(Less(p)) /\ Cardinality(Less(p)) \in Nat
  BY FS_Subset, FS_CardinalityType
<1>2. ASSUME NEW p \in S PROVE Rank(S, p) \in 0 .. Cardinality(S) - 1
  <2>1. Less(p) \in SUBSET S /\ p \in S /\ p \notin Less(p)
    BY <1>2
  <2>2. Cardinality(Less(p)) <= Cardinality(S) /\ Cardinality(S) # Cardinality(Less(p))
    BY <2>1, FS_Subset
  <2> QED BY <1>0, <1>1, <2>2 DEF Rank
<1>3. ASSUME NEW p \in S, NEW q \in S, p < q PROVE Rank(S, p) < Rank(S, q)
  <2>1. Less(p) \in SUBSET Less(q)
    <3> SUFFICES ASSUME NEW x \in S, x < p PROVE x < q
      OBVIOUS
    <3>1. x \in Nat /\ p \in Nat /\ q \in Nat
      OBVIOUS
    <3> QED BY <1>3, <3>1
  <2>2. p \in Less(q) /\ p \notin Less(p)
    BY <1>3
  <2>3. Cardinality(Less(p)) <= Cardinality(Less(q)) /\ Cardinality(Less(q)) # Cardinality(Less(p))
    BY <1>1, <2>1, <2>2, FS_Subset
  <2> QED BY <1>1, <2>3 DEF Rank
<1>4. ASSUME NEW p \in S, NEW q \in S, Rank(S, p) = Rank(S, q) PROVE p = q
  <2>1. p \in Nat /\ q \in Nat /\ Rank(S, p) \in Nat
    BY <1>1 DEF Rank
  <2> QED BY <1>3, <1>4, <2>1
<1> QED BY <1>2, <1>3, <1>4

LEMMA EveryRank ==
    ASSUME NEW S \in SUBSET Nat, IsFiniteSet(S), NEW i \in 0 .. Cardinality(S) - 1
    PROVE  \E p \in S : Rank(S, p) = i
<1> DEFINE n == Cardinality(S)
           f == [p \in S |-> Rank(S, p)]
<1>1. n \in Nat
  BY FS_CardinalityType
<1>2. IsFiniteSet(0 .. n - 1) /\ Cardinality(0 .. n - 1) = n
  BY <1>1, FS_Interval
<1>3. f \in Injection(S, 0 .. n - 1)
  BY RanksGrow DEF Injection, IsInjective
<1>4. f \in Surjection(S, 0 .. n - 1)
  <2> HIDE DEF f, n
  <2> QED BY <1>2, <1>3, FS_Injection DEF n
<1> QED BY <1>4 DEF Surjection

\* The rows of a run in sequence are the places themselves, sorted.
LEMMA Sorts ==
    ASSUME TableTypes, LogIsSound, NEW r \in Runs, NEW S \in SUBSET DOMAIN log[r]
    PROVE  LET s == InSequence(r, S) IN
           /\ IsFiniteSet(S) /\ s \in Seq(S) /\ Len(s) = Cardinality(S) /\ Range(s) = S
           /\ \A i \in DOMAIN s : Rank(S, s[i]) = i - 1
           /\ \A i, j \in DOMAIN s : i < j => s[i] < s[j]
<1> DEFINE s == InSequence(r, S)
           n == Cardinality(S)
<1>1. DOMAIN log[r] = 1 .. Len(log[r]) /\ Len(log[r]) \in Nat
  BY DEF TableTypes
<1>2. S \in SUBSET Nat /\ IsFiniteSet(S) /\ n \in Nat
  <2>1. IsFiniteSet(1 .. Len(log[r]))
    BY <1>1, FS_Interval
  <2>2. IsFiniteSet(S)
    BY <1>1, <2>1, FS_Subset
  <2> QED BY <1>1, <2>2, FS_CardinalityType
<1>3. ASSUME NEW p \in S
      PROVE  {q \in S : \/ log[r][q].seq < log[r][p].seq
                        \/ log[r][q].seq = log[r][p].seq /\ q < p} = {q \in S : q < p}
  <2>1. \A q \in S : log[r][q].seq = q
    BY DEF LogIsSound, Sound
  <2>2. \A q \in S : q \in Nat
    BY <1>2
  <2> QED BY <2>1, <2>2
<1>4. s = [i \in 1 .. n |-> CHOOSE p \in S : Rank(S, p) = i - 1]
  <2>1. s = [i \in 1 .. n |->
               CHOOSE p \in S : Cardinality({q \in S :
                    \/ log[r][q].seq < log[r][p].seq
                    \/ log[r][q].seq = log[r][p].seq /\ q < p}) = i - 1]
    BY DEF InSequence
  <2>2. ASSUME NEW i \in 1 .. n
        PROVE  (CHOOSE p \in S : Cardinality({q \in S :
                    \/ log[r][q].seq < log[r][p].seq
                    \/ log[r][q].seq = log[r][p].seq /\ q < p}) = i - 1)
             = (CHOOSE p \in S : Rank(S, p) = i - 1)
    BY <1>3 DEF Rank
  <2> QED BY <2>1, <2>2
<1>5. ASSUME NEW i \in 1 .. n
      PROVE  s[i] \in S /\ Rank(S, s[i]) = i - 1
  <2>1. i - 1 \in 0 .. n - 1
    BY <1>2
  <2>2. \E p \in S : Rank(S, p) = i - 1
    BY <1>2, <2>1, EveryRank
  <2>3. s[i] = CHOOSE p \in S : Rank(S, p) = i - 1
    BY <1>4
  <2> HIDE DEF s
  <2> QED BY <2>2, <2>3
<1>6. s \in Seq(S) /\ Len(s) = n /\ DOMAIN s = 1 .. n
  <2>1. s \in [1 .. n -> S]
    <3>1. \A i \in 1 .. n : s[i] \in S
      BY <1>5
    <3> HIDE DEF s
    <3> QED BY <1>4, <3>1
  <2> HIDE DEF s, n
  <2> QED BY <1>2, <2>1
<1> HIDE DEF s
<1>7. ASSUME NEW i \in DOMAIN s, NEW j \in DOMAIN s, i < j PROVE s[i] < s[j]
  <2>1. s[i] \in S /\ s[j] \in S /\ Rank(S, s[i]) = i - 1 /\ Rank(S, s[j]) = j - 1
    BY <1>5, <1>6
  <2>2. i \in Nat /\ j \in Nat /\ s[i] \in Nat /\ s[j] \in Nat
    BY <1>2, <1>6, <2>1
  <2>3. CASE s[j] < s[i]
    <3>1. Rank(S, s[j]) < Rank(S, s[i])
      BY <1>2, <2>1, <2>3, RanksGrow
    <3> QED BY <1>7, <2>1, <2>2, <3>1
  <2>4. CASE s[j] = s[i]
    BY <1>7, <2>1, <2>2, <2>4
  <2> QED BY <2>2, <2>3, <2>4
<1>8. Range(s) = S
  <2>1. ASSUME NEW p \in S PROVE p \in Range(s)
    <3>1. Rank(S, p) \in 0 .. n - 1
      BY <1>2, RanksGrow
    <3> DEFINE i == Rank(S, p) + 1
    <3>2. i \in 1 .. n /\ i - 1 = Rank(S, p)
      BY <1>2, <3>1
    <3> HIDE DEF i
    <3>3. s[i] \in S /\ Rank(S, s[i]) = Rank(S, p)
      BY <1>5, <3>2
    <3>4. \A q \in S : Rank(S, q) = Rank(S, p) => q = p
      BY <1>2, RanksGrow
    <3>5. s[i] = p
      BY <3>3, <3>4
    <3> QED BY <1>6, <3>2, <3>5 DEF Range
  <2>2. Range(s) \subseteq S
    BY <1>5, <1>6 DEF Range
  <2> QED BY <2>1, <2>2
<1> QED BY <1>2, <1>5, <1>6, <1>7, <1>8 DEF s

LEMMA GreatestIs ==
    ASSUME NEW S \in SUBSET Nat, NEW n \in S, \A m \in S : m <= n
    PROVE  Greatest(S) = n
<1>1. Greatest(S) = CHOOSE x \in S : \A m \in S : m <= x
  BY DEF Greatest
<1>2. Greatest(S) \in S /\ \A m \in S : m <= Greatest(S)
  BY <1>1
<1>3. Greatest(S) <= n /\ n <= Greatest(S) /\ n \in Nat /\ Greatest(S) \in Nat
  BY <1>2
<1> QED BY <1>3

\* The last of a sequence of growing numbers is the greatest of them.
LEMMA LastIsGreatest ==
    ASSUME NEW s \in Seq(Nat), s # << >>, \A i, j \in DOMAIN s : i < j => s[i] < s[j]
    PROVE  /\ Len(s) \in DOMAIN s /\ s[Len(s)] \in Range(s) /\ s[Len(s)] \in Nat
           /\ \A p \in Range(s) : p <= s[Len(s)]
<1>1. Len(s) \in DOMAIN s /\ Len(s) \in Nat /\ DOMAIN s = 1 .. Len(s)
  OBVIOUS
<1>2. ASSUME NEW i \in DOMAIN s PROVE s[i] <= s[Len(s)]
  <2>1. s[i] \in Nat /\ s[Len(s)] \in Nat /\ (i < Len(s) \/ i = Len(s))
    BY <1>1
  <2> QED BY <1>1, <2>1
<1> QED BY <1>1, <1>2 DEF Range

\* What is read from the table after a number are the next ones.
LEMMA Newer ==
    ASSUME TableTypes, LogIsSound, NEW r \in Runs, NEW a \in Nat, a <= Len(log[r]), NEW k \in Nat
    PROVE  LET new == After(r, a, k) IN
           /\ new \in Seq(Nat) /\ Len(new) <= k /\ a + Len(new) <= Len(log[r])
           /\ \A i \in DOMAIN new : new[i] = a + i
           /\ LastSeq(r, new, a) = a + Len(new)
           /\ Len(new) < k => a + Len(new) = Len(log[r])
<1> DEFINE N == Len(log[r])
           S == {p \in DOMAIN log[r] : log[r][p].seq > a}
           s == InSequence(r, S)
           m == Least(k, Len(s))
           new == After(r, a, k)
<1>1. DOMAIN log[r] = 1 .. N /\ N \in Nat
  BY DEF TableTypes
<1>2. \A p \in DOMAIN log[r] : log[r][p].seq = p
  BY DEF LogIsSound, Sound
<1>3. S = (a + 1) .. N
  BY <1>1, <1>2
<1>4. Cardinality(S) = N - a
  <2>1. a + 1 \in Int /\ N \in Int
    BY <1>1
  <2>2. Cardinality((a + 1) .. N) = IF a + 1 > N THEN 0 ELSE N - (a + 1) + 1
    BY <2>1, FS_Interval
  <2> HIDE DEF N, S
  <2>3. (IF a + 1 > N THEN 0 ELSE N - (a + 1) + 1) = N - a
    BY <1>1 DEF N
  <2> QED BY <1>3, <2>2, <2>3
<1>5. /\ s \in Seq(S) /\ Len(s) = N - a /\ IsFiniteSet(S)
      /\ \A i \in DOMAIN s : Rank(S, s[i]) = i - 1
  BY <1>4, Sorts
<1>6. new = SubSeq(s, 1, m)
  BY DEF After
<1> HIDE DEF S, s
<1>7. S \in SUBSET Nat /\ s \in Seq(Nat) /\ DOMAIN s = 1 .. (N - a) /\ N - a \in Nat
  BY <1>1, <1>3, <1>5
<1>8. ASSUME NEW i \in DOMAIN s PROVE s[i] = a + i
  <2>1. i \in 1 .. (N - a) /\ i \in Nat /\ s[i] \in S
    BY <1>5, <1>7
  <2>2. a + i \in S
    BY <1>1, <1>3, <2>1
  <2>3. {q \in S : q < a + i} = (a + 1) .. (a + i - 1)
    BY <1>1, <1>3, <2>1
  <2>4. Cardinality((a + 1) .. (a + i - 1)) = i - 1
    <3>1. a + 1 \in Int /\ a + i - 1 \in Int
      BY <2>1
    <3>2. Cardinality((a + 1) .. (a + i - 1))
             = IF a + 1 > a + i - 1 THEN 0 ELSE (a + i - 1) - (a + 1) + 1
      BY <3>1, FS_Interval
    <3> QED BY <2>1, <3>2
  <2>5. Rank(S, a + i) = Rank(S, s[i])
    BY <1>5, <2>3, <2>4 DEF Rank
  <2>6. \A p, q \in S : Rank(S, p) = Rank(S, q) => p = q
    BY <1>5, <1>7, RanksGrow
  <2> QED BY <2>1, <2>2, <2>5, <2>6
<1>9. m \in Nat /\ m <= k /\ m <= N - a /\ (m < k => m = N - a)
  BY <1>1, <1>5, <1>7 DEF Least
<1> HIDE DEF m
<1>10. \A i \in 1 .. m : s[i] \in Nat /\ i \in DOMAIN s
  BY <1>7, <1>9
<1>11. /\ new \in Seq(Nat) /\ Len(new) = m
       /\ \A i \in 1 .. m : new[i] = s[i]
  <2>1. /\ SubSeq(s, 1, m) \in Seq(Nat)
        /\ Len(SubSeq(s, 1, m)) = IF 1 <= m THEN m - 1 + 1 ELSE 0
        /\ \A i \in 1 .. m - 1 + 1 : SubSeq(s, 1, m)[i] = s[1 + i - 1]
    BY <1>9, <1>10, SubSeqProperties
  <2>2. \A i \in 1 .. m : 1 + i - 1 = i
    OBVIOUS
  <2> QED BY <1>6, <1>9, <2>1, <2>2
<1> HIDE DEF new
<1>12. \A i \in DOMAIN new : new[i] = a + i
  BY <1>8, <1>10, <1>11
<1>13. LastSeq(r, new, a) = a + Len(new)
  <2>1. CASE new = << >>
    BY <2>1 DEF LastSeq
  <2>2. CASE new # << >>
    <3>1. Len(new) \in DOMAIN new /\ Len(new) \in Nat
      BY <1>11, <2>2
    <3>2. new[Len(new)] = a + Len(new)
      BY <1>12, <3>1
    <3>3. a + Len(new) \in DOMAIN log[r]
      BY <1>1, <1>9, <1>11, <3>1
    <3> QED BY <1>2, <2>2, <3>2, <3>3 DEF LastSeq
  <2> QED BY <2>1, <2>2
<1> QED BY <1>1, <1>9, <1>11, <1>12, <1>13 DEF new

-----------------------------------------------------------------------------
(* The page.  The rows of a sound table are numbered by their places, so    *)
(* what the server sends is an interval of them that begins where the page  *)
(* ends, or before; so is what a request for the history has got.           *)

\* What the page shows lies before the cursor, and nothing is missing there.
Complete ==
    /\ Range(events) \subseteq 1 .. cursor /\ cursor <= Len(log[shown])
    /\ 1 .. cursor \subseteq Range(events) \cup trimmed
    /\ \A i, j \in DOMAIN events : i < j => events[i] < events[j]
    /\ view = "chat" => trimmed = {}
    /\ view = "detail" => cursor = IF events = << >> THEN 0 ELSE events[Len(events)]

\* The events on the wire are consecutive and join the page's.
Joined ==
    /\ source =>
          /\ Len(wire) <= position /\ position <= Len(log[shown])
          /\ position - Len(wire) <= cursor
          /\ \A i \in DOMAIN wire : wire[i] = position - Len(wire) + i
    /\ ~source => wire = << >>
    /\ source \/ timer => ready

\* A request has the first events of its run, and only the latest one is current.
Requested(l) ==
    /\ l.generation <= generation
    /\ Current(l) => l.run = shown
    /\ l.from = Len(l.got) /\ l.from <= Len(log[l.run])
    /\ \A i \in DOMAIN l.got : l.got[i] = i
    /\ ~l.done => Len(l.got) < HistoryCap

Requests ==
    /\ \A l \in loads : Requested(l)
    /\ \A l, m \in loads : l.generation = m.generation => l = m

\* The chat has one request, and shows and streams nothing before its answer.
ChatWaits ==
    view = "chat" /\ (\E l \in loads : Current(l)) => ~ready /\ events = << >> /\ cursor = 0

PageTypes ==
    /\ view \in {"chat", "detail"} /\ shown \in Runs
    /\ {generation, activation} \subseteq Nat /\ loads \in SUBSET Load
    /\ {loaded, ready, source, timer} \subseteq BOOLEAN
    /\ events \in Seq(Nat) /\ cursor \in Nat
    /\ position \in Nat /\ wire \in Seq(Nat) /\ trimmed \in SUBSET Nat
    /\ {written, switches, refreshes, failures} \subseteq Nat

PageInv == PageTypes /\ Complete /\ Joined /\ Requests /\ ChatWaits

-----------------------------------------------------------------------------
(* The steps of the page and its connection.                               *)

\* A writer, or the server in dying, may add rows, and hides none.
LEMMA PageStays ==
    ASSUME TableTypes, PageInv, \A r \in Runs : Len(log[r]) <= Len(log'[r]),
           \A r \in Runs : Len(log[r]) \in Nat /\ Len(log'[r]) \in Nat,
           UNCHANGED <<page, connection, switches, refreshes>>, written' \in Nat, failures' \in Nat
    PROVE  PageInv'
<1>1. UNCHANGED <<view, shown, generation, activation, loads, loaded, ready, events, cursor, trimmed,
                  source, position, wire, timer, switches, refreshes>>
  BY DEF page, connection
<1>2. PageTypes'
  BY <1>1 DEF PageInv, PageTypes
<1>3. shown \in Runs /\ cursor \in Nat /\ position \in Nat /\ \A l \in loads : l.run \in Runs /\ l.from \in Nat
  BY DEF PageInv, PageTypes, Load
<1>4. Complete'
  BY <1>1, <1>3 DEF PageInv, Complete
<1>5. Joined'
  BY <1>1, <1>3 DEF PageInv, Joined
<1>6. Requests'
  BY <1>1, <1>3 DEF PageInv, Requests, Requested, Current
<1>7. ChatWaits'
  BY <1>1 DEF PageInv, ChatWaits, Current
<1> QED BY <1>2, <1>4, <1>5, <1>6, <1>7 DEF PageInv

\* The connection alone moves.
LEMMA ConnectionMoves ==
    ASSUME PageInv, UNCHANGED <<log, page, written, switches, refreshes>>, failures' \in Nat,
           position' \in Nat, wire' \in Seq(Nat), {source', timer'} \subseteq BOOLEAN, Joined'
    PROVE  PageInv'
<1>1. UNCHANGED <<view, shown, generation, activation, loads, loaded, ready, events, cursor, trimmed>>
  BY DEF page
<1>2. PageTypes'
  BY <1>1 DEF PageInv, PageTypes
<1>3. Complete' /\ Requests'
  BY <1>1 DEF PageInv, Complete, Requests, Requested, Current
<1>4. ChatWaits'
  BY <1>1 DEF PageInv, ChatWaits, Current
<1> QED BY <1>2, <1>3, <1>4 DEF PageInv

LEMMA PollKeeps ==
    ASSUME TableInv, PageInv, Poll
    PROVE  PageInv'
<1> DEFINE new == After(shown, position, StreamPage)
<1>1. /\ source /\ wire' = wire \o new /\ position' = LastSeq(shown, new, position)
      /\ UNCHANGED <<log, page, source, timer, written, switches, refreshes, failures>>
  BY DEF Poll, table
<1>2. /\ PageTypes /\ Joined /\ StreamPage \in Nat /\ cursor' = cursor /\ shown' = shown /\ ready' = ready
  BY <1>1, EventLogAssumption DEF PageInv, page
<1>3. /\ shown \in Runs /\ position \in Nat /\ position <= Len(log[shown]) /\ Len(wire) <= position
      /\ position - Len(wire) <= cursor /\ cursor \in Nat /\ wire \in Seq(Nat)
      /\ \A i \in DOMAIN wire : wire[i] = position - Len(wire) + i
  BY <1>1, <1>2 DEF PageTypes, Joined
<1>4. /\ new \in Seq(Nat) /\ position + Len(new) <= Len(log[shown])
      /\ \A i \in DOMAIN new : new[i] = position + i
      /\ position' = position + Len(new)
  BY <1>1, <1>2, <1>3, Newer DEF TableInv
<1> HIDE DEF new
<1>5. /\ wire' \in Seq(Nat) /\ Len(wire') = Len(wire) + Len(new)
      /\ \A i \in 1 .. Len(wire) : wire'[i] = wire[i]
      /\ \A i \in 1 .. Len(new) : wire'[Len(wire) + i] = new[i]
  BY <1>1, <1>3, <1>4
<1>6. Len(wire) \in Nat /\ Len(new) \in Nat
  BY <1>3, <1>4
<1>7. ASSUME NEW i \in DOMAIN wire' PROVE wire'[i] = position' - Len(wire') + i
  <2>1. i \in Nat /\ i >= 1 /\ i <= Len(wire) + Len(new)
    BY <1>5, <1>6
  <2>2. CASE i <= Len(wire)
    <3>1. i \in DOMAIN wire /\ i \in 1 .. Len(wire)
      BY <1>3, <2>1, <2>2
    <3>2. wire'[i] = position - Len(wire) + i
      BY <1>3, <1>5, <3>1
    <3> QED BY <1>3, <1>4, <1>5, <1>6, <2>1, <3>2
  <2>3. CASE i > Len(wire)
    <3> DEFINE j == i - Len(wire)
    <3>1. j \in 1 .. Len(new) /\ i = Len(wire) + j
      BY <1>6, <2>1, <2>3
    <3> HIDE DEF j
    <3>2. j \in DOMAIN new /\ j \in Nat
      BY <1>4, <3>1
    <3>3. wire'[i] = position + j
      BY <1>4, <1>5, <3>1, <3>2
    <3> QED BY <1>3, <1>4, <1>5, <1>6, <2>1, <3>1, <3>2, <3>3
  <2> QED BY <1>6, <2>1, <2>2, <2>3
<1>8. /\ Len(wire') <= position' /\ position' <= Len(log'[shown']) /\ position' - Len(wire') <= cursor'
      /\ position' \in Nat
  BY <1>1, <1>2, <1>3, <1>4, <1>5, <1>6
<1>9. Joined'
  BY <1>1, <1>2, <1>7, <1>8 DEF Joined
<1> QED BY <1>1, <1>2, <1>5, <1>8, <1>9, ConnectionMoves DEF PageTypes

\* A connection that breaks leaves nothing on the wire, and one that is opened
\* begins at the cursor.
LEMMA BrokenKeeps ==
    ASSUME PageInv, source' = FALSE, wire' = << >>, timer' \in {TRUE, timer, timer \/ source},
           timer' => source \/ timer,
           UNCHANGED <<log, page, position, written, switches, refreshes>>, failures' \in Nat
    PROVE  PageInv'
<1>1. PageTypes /\ Joined /\ ready' = ready
  BY DEF PageInv, page
<1>2. Joined'
  BY <1>1 DEF Joined
<1>3. position' \in Nat /\ wire' \in Seq(Nat)
  BY <1>1 DEF PageTypes
<1>4. source' \in BOOLEAN /\ timer' \in BOOLEAN
  <2>1. timer \in BOOLEAN /\ source \in BOOLEAN
    BY <1>1 DEF PageTypes
  <2> QED BY <2>1
<1> QED BY <1>2, <1>3, <1>4, ConnectionMoves

LEMMA OpenedKeeps ==
    ASSUME PageInv, ready, Opened(cursor), UNCHANGED <<log, page, written, switches, refreshes>>,
           failures' \in Nat
    PROVE  PageInv'
<1>1. PageTypes /\ Complete /\ ready' = ready /\ cursor' = cursor /\ shown' = shown
  BY DEF PageInv, page
<1>2. source' = TRUE /\ position' = cursor /\ wire' = << >> /\ timer' = FALSE
  BY DEF Opened
<1>3. Joined'
  BY <1>1, <1>2 DEF Joined, Complete, PageTypes
<1>4. position' \in Nat /\ wire' \in Seq(Nat)
  BY <1>1, <1>2 DEF PageTypes
<1>5. {source', timer'} \subseteq BOOLEAN
  BY <1>2
<1> QED BY <1>3, <1>4, <1>5, ConnectionMoves

\* The chat: what it has not shown yet is the event after its last one.
LEMMA ChatApplies ==
    ASSUME TableInv, PageTypes, Complete, view = "chat",
           NEW e \in 1 .. Len(log[shown]), e <= cursor + 1,
           events' = Applied(e), cursor' = NextCursor(events'),
           trimmed' = (trimmed \cup Range(events)) \ Range(events'), UNCHANGED <<log, shown, view>>
    PROVE  Complete' /\ events' \in Seq(Nat) /\ cursor' \in Nat /\ cursor <= cursor' /\ e <= cursor'
<1>1. /\ shown \in Runs /\ cursor \in Nat /\ events \in Seq(Nat) /\ trimmed = {} /\ e \in Nat
      /\ Len(log[shown]) \in Nat /\ DOMAIN log[shown] = 1 .. Len(log[shown])
      /\ cursor <= Len(log[shown])
  BY DEF TableInv, TableTypes, PageTypes, Complete
<1>2. Range(events) = 1 .. cursor
  BY <1>1 DEF Complete
<1>3. \A p \in DOMAIN log[shown] : log[shown][p].seq = p
  BY <1>1 DEF TableInv, LogIsSound, Sound
<1>4. CASE e \in Range(events)
  <2>1. events' = events /\ e <= cursor
    BY <1>2, <1>4 DEF Applied
  <2> DEFINE S == {cursor} \cup {log[shown][p].seq : p \in Range(events)}
  <2>2. S = {cursor} \cup (1 .. cursor)
    BY <1>1, <1>2, <1>3
  <2> HIDE DEF S
  <2>3. S \in SUBSET Nat /\ cursor \in S /\ \A m \in S : m <= cursor
    BY <1>1, <2>2
  <2>4. cursor' = cursor
    <3>1. Greatest(S) = cursor
      BY <2>3, GreatestIs
    <3> QED BY <2>1, <3>1 DEF NextCursor, S
  <2>5. trimmed' = {}
    BY <1>1, <2>1
  <2> QED BY <1>1, <2>1, <2>4, <2>5 DEF Complete
<1>5. CASE e \notin Range(events)
  <2>1. events' = Append(events, e) /\ e = cursor + 1
    BY <1>1, <1>2, <1>5 DEF Applied
  <2>2. /\ events' \in Seq(Nat) /\ Len(events') = Len(events) + 1 /\ events'[Len(events) + 1] = e
        /\ \A i \in 1 .. Len(events) : events'[i] = events[i]
    BY <1>1, <2>1
  <2>3. Len(events) \in Nat /\ DOMAIN events = 1 .. Len(events) /\ DOMAIN events' = 1 .. Len(events) + 1
    BY <1>1, <2>2
  <2>4. Range(events') = Range(events) \cup {e}
    BY <2>2, <2>3 DEF Range
  <2>5. Range(events') = 1 .. e
    <3>1. 1 .. cursor + 1 = (1 .. cursor) \cup {cursor + 1}
      BY <1>1
    <3> QED BY <1>2, <2>1, <2>4, <3>1
  <2> DEFINE S == {cursor} \cup {log[shown][p].seq : p \in Range(events')}
  <2>6. S = {cursor} \cup (1 .. e)
    BY <1>1, <1>3, <2>5
  <2> HIDE DEF S
  <2>7. S \in SUBSET Nat /\ e \in S /\ \A m \in S : m <= e
    BY <1>1, <2>1, <2>6
  <2>8. cursor' = e
    <3>1. Greatest(S) = e
      BY <2>7, GreatestIs
    <3> QED BY <3>1 DEF NextCursor, S
  <2>9. trimmed' = {}
    BY <1>1, <2>4
  <2>10. ASSUME NEW i \in DOMAIN events', NEW j \in DOMAIN events', i < j
         PROVE  events'[i] < events'[j]
    <3>1. i \in 1 .. Len(events) /\ events'[i] = events[i]
      BY <2>2, <2>3, <2>10
    <3>2. CASE j \in 1 .. Len(events)
      <4>1. \A k, l \in DOMAIN events : k < l => events[k] < events[l]
        BY DEF Complete
      <4> QED BY <2>2, <2>3, <2>10, <3>1, <3>2, <4>1
    <3>3. CASE j = Len(events) + 1
      <4>1. events[i] \in 1 .. cursor
        BY <1>2, <2>3, <3>1 DEF Range
      <4> QED BY <1>1, <2>1, <2>2, <3>1, <3>3, <4>1
    <3> QED BY <2>3, <3>2, <3>3
  <2> QED BY <1>1, <2>1, <2>2, <2>5, <2>8, <2>9, <2>10 DEF Complete
<1> QED BY <1>4, <1>5

\* The details: the event takes its place, and the oldest ones go if there are
\* too many; the newest stays, as TrimBy is at most TrimAt.
LEMMA DetailApplies ==
    ASSUME TableInv, PageTypes, Complete, view = "detail",
           NEW e \in 1 .. Len(log[shown]), e <= cursor + 1,
           events' = Applied(e), cursor' = NextCursor(events'),
           trimmed' = (trimmed \cup Range(events)) \ Range(events'), UNCHANGED <<log, shown, view>>
    PROVE  Complete' /\ events' \in Seq(Nat) /\ cursor' \in Nat /\ cursor <= cursor' /\ e <= cursor'
<1>1. /\ shown \in Runs /\ cursor \in Nat /\ events \in Seq(Nat) /\ e \in Nat
      /\ Len(log[shown]) \in Nat /\ DOMAIN log[shown] = 1 .. Len(log[shown])
      /\ cursor <= Len(log[shown]) /\ Range(events) \subseteq 1 .. cursor
      /\ cursor = IF events = << >> THEN 0 ELSE events[Len(events)]
      /\ \A i, j \in DOMAIN events : i < j => events[i] < events[j]
      /\ 1 .. cursor \subseteq Range(events) \cup trimmed
  BY DEF TableInv, TableTypes, PageTypes, Complete
<1>2. \A p \in DOMAIN log[shown] : log[shown][p].seq = p
  BY <1>1 DEF TableInv, LogIsSound, Sound
<1>3. events # << >> => cursor \in Range(events)
  BY <1>1, LastIsGreatest
<1>4. CASE e \in Range(events)
  <2>1. events' = events /\ e <= cursor
    BY <1>1, <1>4 DEF Applied
  <2>2. events # << >>
    BY <1>4 DEF Range
  <2>3. events[Len(events)] = cursor /\ cursor \in DOMAIN log[shown]
    BY <1>1, <1>3, <2>2
  <2>4. cursor' = cursor
    BY <1>2, <2>1, <2>2, <2>3 DEF NextCursor, LastSeq
  <2>5. trimmed \subseteq Range(events') \cup trimmed'
    OBVIOUS
  <2> QED BY <1>1, <2>1, <2>4, <2>5 DEF Complete
<1>5. CASE e \notin Range(events)
  <2> DEFINE T == Range(events) \cup {e}
             all == InSequence(shown, T)
             M == all[Len(all)]
  <2>1. T \in SUBSET DOMAIN log[shown]
    BY <1>1
  <2>2. /\ all \in Seq(T) /\ Range(all) = T
        /\ \A i, j \in DOMAIN all : i < j => all[i] < all[j]
    BY <1>1, <2>1, Sorts DEF TableInv
  <2>3. events' = IF Len(all) > TrimAt THEN SubSeq(all, TrimBy + 1, Len(all)) ELSE all
    BY <1>5 DEF Applied
  <2>4. all \in Seq(Nat) /\ all # << >>
    <3>1. T \in SUBSET Nat
      BY <1>1, <2>1
    <3>2. e \in Range(all)
      BY <2>2
    <3>3. DOMAIN all # {}
      BY <3>2 DEF Range
    <3> HIDE DEF all, T
    <3>4. all \in Seq(Nat)
      BY <2>2, <3>1, SeqOfMore
    <3> QED BY <3>3, <3>4
  <2> HIDE DEF all
  <2>5. M \in T /\ M \in Nat /\ \A p \in T : p <= M
    BY <2>2, <2>4, LastIsGreatest
  <2>6. /\ events' \in Seq(Nat) /\ events' # << >> /\ events'[Len(events')] = M
        /\ Range(events') \subseteq T
        /\ \A i, j \in DOMAIN events' : i < j => events'[i] < events'[j]
    <3>1. CASE Len(all) <= TrimAt
      <4>1. events' = all
        BY <2>3, <2>4, <3>1, EventLogAssumption
      <4> QED BY <2>2, <2>4, <4>1
    <3>2. CASE Len(all) > TrimAt
      <4> DEFINE n == Len(all)
                 k == n - TrimBy
      <4>1. n \in Nat /\ TrimBy \in Nat /\ k \in Nat /\ k >= 1 /\ k = n - (TrimBy + 1) + 1
        <5>1. n \in Nat /\ n > TrimAt
          BY <2>4, <3>2
        <5>2. TrimBy \in Nat /\ TrimAt \in Nat /\ TrimBy <= TrimAt
          BY EventLogAssumption
        <5> QED BY <5>1, <5>2
      <4>2. \A i \in TrimBy + 1 .. n : all[i] \in Nat
        BY <2>4, <4>1
      <4>3. /\ SubSeq(all, TrimBy + 1, n) \in Seq(Nat)
            /\ Len(SubSeq(all, TrimBy + 1, n)) = IF TrimBy + 1 <= n THEN n - (TrimBy + 1) + 1 ELSE 0
            /\ \A i \in 1 .. n - (TrimBy + 1) + 1 :
                  SubSeq(all, TrimBy + 1, n)[i] = all[TrimBy + 1 + i - 1]
        <5>1. TrimBy + 1 \in Int /\ n \in Int
          BY <4>1
        <5> HIDE DEF n
        <5> QED BY <4>2, <5>1, SubSeqProperties
      <4>4. events' = SubSeq(all, TrimBy + 1, n)
        BY <2>3, <3>2
      <4> HIDE DEF n, k
      <4>5. events' \in Seq(Nat) /\ Len(events') = k /\ \A i \in 1 .. k : events'[i] = all[TrimBy + i]
        <5>1. \A i \in 1 .. k : TrimBy + 1 + i - 1 = TrimBy + i
          BY <4>1
        <5> QED BY <4>1, <4>3, <4>4, <5>1
      <4>6. DOMAIN events' = 1 .. k /\ events' # << >>
        BY <4>1, <4>5
      <4>7. \A i \in 1 .. k : TrimBy + i \in DOMAIN all
        BY <2>4, <4>1 DEF n, k
      <4>8. TrimBy + k = Len(all)
        BY <4>1 DEF n, k
      <4>9. events'[Len(events')] = M
        BY <4>1, <4>5, <4>8
      <4>10. Range(events') \subseteq Range(all)
        BY <4>5, <4>6, <4>7 DEF Range
      <4>11. ASSUME NEW i \in 1 .. k, NEW j \in 1 .. k, i < j PROVE events'[i] < events'[j]
        <5>1. TrimBy + i < TrimBy + j
          BY <4>1, <4>11
        <5> QED BY <2>2, <4>5, <4>7, <5>1
      <4> QED BY <2>2, <4>5, <4>6, <4>9, <4>10, <4>11
    <3> QED BY <2>4, <3>1, <3>2, EventLogAssumption
  <2>7. M \in DOMAIN log[shown]
    BY <2>1, <2>5
  <2> HIDE DEF M
  <2>8. cursor' = M
    <3>1. cursor' = log[shown][events'[Len(events')]].seq
      BY <2>6 DEF NextCursor, LastSeq
    <3> QED BY <1>2, <2>6, <2>7, <3>1
  <2>9. cursor <= M /\ e <= M /\ M <= Len(log[shown]) /\ (M <= cursor \/ M = e)
    <3>1. CASE events = << >>
      BY <1>1, <2>5, <2>7, <3>1
    <3>2. CASE events # << >>
      BY <1>1, <1>3, <2>5, <2>7, <3>2
    <3> QED BY <3>1, <3>2
  <2>10. M \in Range(events')
    BY <2>6 DEF Range
  <2>11. ASSUME NEW p \in 1 .. M PROVE p \in Range(events') \cup trimmed'
    <3>1. CASE p \in 1 .. cursor
      BY <1>1, <3>1
    <3>2. CASE p \notin 1 .. cursor
      <4>1. p = M
        BY <1>1, <2>5, <2>9, <3>2
      <4> QED BY <2>10, <4>1
    <3> QED BY <3>1, <3>2
  <2>12. Range(events') \subseteq 1 .. M
    <3>1. \A p \in T : p \in 1 .. M
      BY <1>1, <2>1, <2>5
    <3> QED BY <2>6, <3>1
  <2> QED BY <2>5, <2>6, <2>8, <2>9, <2>11, <2>12 DEF Complete
<1> QED BY <1>4, <1>5

LEMMA OnMessageKeeps ==
    ASSUME TableInv, PageInv, OnMessage
    PROVE  PageInv'
<1> DEFINE e == Head(wire)
<1>1. /\ source /\ wire # << >> /\ events' = Applied(e) /\ cursor' = NextCursor(events')
      /\ trimmed' = (trimmed \cup Range(events)) \ Range(events') /\ wire' = Tail(wire)
      /\ UNCHANGED <<log, view, shown, generation, activation, loads, loaded, ready, source,
                     position, timer, written, switches, refreshes, failures>>
  BY DEF OnMessage, table
<1>2. PageTypes /\ Complete /\ Joined /\ Requests /\ ChatWaits
  BY DEF PageInv
<1>3. /\ wire \in Seq(Nat) /\ position \in Nat /\ cursor \in Nat /\ shown \in Runs
      /\ Len(wire) <= position /\ position <= Len(log[shown]) /\ position - Len(wire) <= cursor
      /\ \A i \in DOMAIN wire : wire[i] = position - Len(wire) + i
      /\ Len(log[shown]) \in Nat
  BY <1>1, <1>2 DEF PageTypes, Joined, TableInv, TableTypes
<1>4. Len(wire) \in Nat /\ Len(wire) >= 1 /\ DOMAIN wire = 1 .. Len(wire) /\ e = wire[1]
  BY <1>1, <1>3
<1>5. e = position - Len(wire) + 1
  BY <1>3, <1>4
<1>6. e \in 1 .. Len(log[shown]) /\ e <= cursor + 1
  BY <1>3, <1>4, <1>5
<1> HIDE DEF e
<1>7. Complete' /\ events' \in Seq(Nat) /\ cursor' \in Nat /\ cursor <= cursor' /\ e <= cursor'
  <2>1. CASE view = "chat"
    BY <1>1, <1>2, <1>6, <2>1, ChatApplies
  <2>2. CASE view = "detail"
    BY <1>1, <1>2, <1>6, <2>2, DetailApplies
  <2> QED BY <1>2, <2>1, <2>2 DEF PageTypes
<1>8. /\ wire' \in Seq(Nat) /\ Len(wire') = Len(wire) - 1
      /\ \A i \in 1 .. Len(wire') : wire'[i] = wire[i + 1]
  BY <1>1, <1>3, HeadTailProperties
<1>9. Joined'
  <2>1. ASSUME NEW i \in DOMAIN wire' PROVE wire'[i] = position - Len(wire') + i
    <3>1. i \in 1 .. Len(wire') /\ i \in Nat /\ i + 1 \in DOMAIN wire
      BY <1>4, <1>8
    <3>2. wire'[i] = position - Len(wire) + (i + 1)
      BY <1>3, <1>8, <3>1
    <3> QED BY <1>3, <1>4, <1>8, <3>1, <3>2
  <2>2. Len(wire') <= position /\ position - Len(wire') <= cursor'
    BY <1>3, <1>4, <1>5, <1>7, <1>8
  <2> QED BY <1>1, <1>2, <1>3, <2>1, <2>2 DEF Joined
<1>10. PageTypes'
  <2>1. trimmed' \in SUBSET Nat
    <3>1. events \in Seq(Nat) /\ trimmed \in SUBSET Nat
      BY <1>2 DEF PageTypes
    <3>2. \A i \in DOMAIN events : events[i] \in Nat
      BY <3>1
    <3>3. Range(events) \subseteq Nat
      BY <3>2 DEF Range
    <3> QED BY <1>1, <3>1, <3>3
  <2> QED BY <1>1, <1>2, <1>7, <1>8, <2>1 DEF PageTypes
<1>11. Requests'
  BY <1>1, <1>2 DEF Requests, Requested, Current
<1>12. ChatWaits'
  BY <1>1, <1>2 DEF ChatWaits, Joined, Current
<1> QED BY <1>7, <1>9, <1>10, <1>11, <1>12 DEF PageInv

LEMMA RequestIsTyped ==
    ASSUME NEW g \in Nat, NEW r \in Runs, NEW f \in BOOLEAN
    PROVE  Request(g, r, f) \in Load
<1>1. 0 \in Nat /\ FALSE \in BOOLEAN /\ << >> \in Seq(Nat)
  OBVIOUS
<1> QED BY <1>1 DEF Request, Load

\* A new request makes all others late.
LEMMA AskedAnew ==
    ASSUME PageTypes, Requests, NEW f \in BOOLEAN, NEW l, l = Request(generation + 1, shown', f),
           shown' \in Runs, generation' = generation + 1, loads' = loads \cup {l}, UNCHANGED log
    PROVE  Requests' /\ loads' \in SUBSET Load
<1>1. generation \in Nat /\ HistoryCap \in Nat \ {0} /\ \A m \in loads : m.generation \in Nat
  BY EventLogAssumption DEF PageTypes, Load
<1>2. l = [generation |-> generation + 1, run |-> shown', first |-> f, from |-> 0,
           got |-> << >>, done |-> FALSE]
  BY DEF Request
<1>3. << >> \in Seq(Nat) /\ Len(<< >>) = 0 /\ DOMAIN << >> = {}
  OBVIOUS
<1>4. /\ l.generation = generation + 1 /\ l.run = shown' /\ l.from = 0 /\ l.got = << >>
      /\ l.done = FALSE
  BY <1>2
<1>5. l \in Load
  <2>1. generation + 1 \in Nat
    BY <1>1
  <2> QED BY <2>1, RequestIsTyped
<1>6. ASSUME NEW m \in loads PROVE Requested(m)' /\ m.generation # l.generation
  <2>1. Requested(m) /\ m.generation <= generation
    BY DEF Requests, Requested
  <2> QED BY <1>1, <1>4, <2>1 DEF Requested, Current
<1>7. Requested(l)'
  <2>1. 0 <= Len(log'[l.run])
    BY <1>4 DEF Requested
  <2> QED BY <1>1, <1>3, <1>4, <2>1 DEF Requested, Current
<1>8. \A m, k \in loads' : m.generation = k.generation => m = k
  BY <1>6 DEF Requests
<1> QED BY <1>5, <1>6, <1>7, <1>8 DEF Requests, PageTypes

LEMMA SwitchKeeps ==
    ASSUME TableTypes, PageInv, NEW r \in Runs, Switch(r)
    PROVE  PageInv'
<1> DEFINE l == Request(generation + 1, r, TRUE)
<1>1. /\ switches' = switches + 1 /\ shown' = r /\ generation' = generation + 1
      /\ activation' = generation + 1 /\ loads' = loads \cup {l}
      /\ loaded' = FALSE /\ ready' = FALSE /\ events' = << >> /\ cursor' = 0 /\ trimmed' = {}
      /\ source' = FALSE /\ wire' = << >> /\ timer' = FALSE /\ position' = position
      /\ UNCHANGED <<log, view, written, refreshes, failures>>
  BY DEF Switch, Closed, table
<1>2. PageTypes /\ Requests
  BY DEF PageInv
<1>3. l = Request(generation + 1, shown', TRUE) /\ shown' \in Runs
  BY <1>1
<1> HIDE DEF l
<1>4. Requests' /\ loads' \in SUBSET Load
  BY <1>1, <1>2, <1>3, AskedAnew
<1>5. generation + 1 \in Nat /\ switches + 1 \in Nat
  BY <1>2 DEF PageTypes
<1>6. PageTypes'
  <2>1. events' \in Seq(Nat) /\ wire' \in Seq(Nat) /\ cursor' \in Nat /\ trimmed' \in SUBSET Nat
    BY <1>1
  <2>2. {loaded', ready', source', timer'} \subseteq BOOLEAN
    BY <1>1
  <2> QED BY <1>1, <1>2, <1>4, <1>5, <2>1, <2>2 DEF PageTypes
<1>7. Complete'
  <2>1. Len(log[r]) \in Nat /\ Range(<< >>) = {} /\ 1 .. 0 = {}
    BY DEF TableTypes, Range
  <2> QED BY <1>1, <2>1 DEF Complete
<1>8. Joined' /\ ChatWaits'
  BY <1>1 DEF Joined, ChatWaits
<1> QED BY <1>4, <1>6, <1>7, <1>8 DEF PageInv

LEMMA RefreshKeeps ==
    ASSUME PageInv, Refresh
    PROVE  PageInv'
<1> DEFINE l == Request(generation + 1, shown, FALSE)
<1>1. /\ view = "detail" /\ refreshes' = refreshes + 1 /\ generation' = generation + 1
      /\ loads' = loads \cup {l}
      /\ UNCHANGED <<log, view, shown, activation, loaded, ready, events, cursor, trimmed,
                     source, position, wire, timer, written, switches, failures>>
  BY DEF Refresh, table, connection
<1>2. PageTypes /\ Requests /\ Complete /\ Joined
  BY DEF PageInv
<1>3. l = Request(generation + 1, shown', FALSE) /\ shown' \in Runs
  BY <1>1, <1>2 DEF PageTypes
<1> HIDE DEF l
<1>4. Requests' /\ loads' \in SUBSET Load
  BY <1>1, <1>2, <1>3, AskedAnew
<1>5. generation + 1 \in Nat /\ refreshes + 1 \in Nat
  BY <1>2 DEF PageTypes
<1>6. PageTypes'
  BY <1>1, <1>2, <1>4, <1>5 DEF PageTypes
<1>7. Complete' /\ Joined' /\ ChatWaits'
  BY <1>1, <1>2 DEF Complete, Joined, ChatWaits
<1> QED BY <1>4, <1>6, <1>7 DEF PageInv

LEMMA FetchKeeps ==
    ASSUME TableInv, PageInv, NEW l \in loads, FetchPage(l)
    PROVE  PageInv'
<1> DEFINE k == Least(HistoryPage, HistoryCap - Len(l.got))
           new == After(l.run, l.from, k)
           got == l.got \o new
           done == Len(new) < HistoryPage \/ Len(got) >= HistoryCap
           m == [l EXCEPT !.from = LastSeq(l.run, new, l.from), !.got = got, !.done = done]
<1>1. /\ ~l.done /\ loads' = (loads \ {l}) \cup {m}
      /\ UNCHANGED <<log, view, shown, generation, activation, loaded, ready, events, cursor,
                     trimmed, source, position, wire, timer, written, switches, refreshes, failures>>
  BY DEF FetchPage, table, connection
<1>2. PageTypes /\ Requests /\ Complete /\ Joined /\ ChatWaits /\ l \in Load
  BY DEF PageInv, PageTypes
<1>3. /\ l.run \in Runs /\ l.from \in Nat /\ l.got \in Seq(Nat) /\ l.generation \in Nat
      /\ l.first \in BOOLEAN
  BY <1>2 DEF Load
<1>4. /\ l.from = Len(l.got) /\ l.from <= Len(log[l.run]) /\ Len(l.got) < HistoryCap
      /\ \A i \in DOMAIN l.got : l.got[i] = i
      /\ l.generation <= generation /\ (Current(l) => l.run = shown)
  BY <1>1, <1>2 DEF Requests, Requested
<1>5. k \in Nat /\ k <= HistoryCap - Len(l.got) /\ HistoryCap \in Nat
  <2>1. HistoryPage \in Nat /\ HistoryCap \in Nat
    BY EventLogAssumption
  <2> DEFINE room == HistoryCap - Len(l.got)
  <2>2. Len(l.got) \in Nat /\ room \in Nat
    BY <1>3, <1>4, <2>1
  <2> HIDE DEF room
  <2>3. k = Least(HistoryPage, room)
    BY DEF room
  <2>4. k \in Nat /\ k <= room
    BY <2>1, <2>2, <2>3 DEF Least
  <2> QED BY <2>1, <2>4 DEF room
<1> HIDE DEF k
<1>6. /\ new \in Seq(Nat) /\ Len(new) <= k /\ l.from + Len(new) <= Len(log[l.run])
      /\ \A i \in DOMAIN new : new[i] = l.from + i
      /\ LastSeq(l.run, new, l.from) = l.from + Len(new)
  BY <1>3, <1>4, <1>5, Newer DEF TableInv
<1> HIDE DEF new
<1>7. /\ got \in Seq(Nat) /\ Len(got) = l.from + Len(new) /\ Len(new) \in Nat
      /\ \A i \in 1 .. l.from : got[i] = l.got[i]
      /\ \A i \in 1 .. Len(new) : got[l.from + i] = new[i]
  BY <1>3, <1>4, <1>6
<1>8. \A i \in DOMAIN got : got[i] = i
  <2> SUFFICES ASSUME NEW i \in 1 .. l.from + Len(new) PROVE got[i] = i
    BY <1>7
  <2>1. CASE i <= l.from
    <3>1. i \in 1 .. l.from /\ i \in DOMAIN l.got
      BY <1>3, <1>4, <2>1
    <3> HIDE DEF got
    <3> QED BY <1>4, <1>7, <3>1
  <2>2. CASE i > l.from
    <3> DEFINE j == i - l.from
    <3>1. j \in 1 .. Len(new) /\ i = l.from + j
      BY <1>3, <1>7, <2>2
    <3> HIDE DEF got, j
    <3>2. j \in DOMAIN new
      BY <1>6, <3>1
    <3>3. got[l.from + j] = l.from + j
      BY <1>6, <1>7, <3>1, <3>2
    <3> QED BY <3>1, <3>3
  <2> QED BY <1>3, <1>7, <2>1, <2>2
<1> HIDE DEF got
<1>9. done \in BOOLEAN /\ (~done => Len(got) < HistoryCap)
  BY <1>3, <1>5, <1>7
<1> HIDE DEF done
<1>10. PICK n : /\ loads' = (loads \ {l}) \cup {n}
                /\ n \in Load /\ n.generation = l.generation /\ n.run = l.run
                /\ n.from = l.from + Len(new) /\ n.got = got /\ n.done = done
  <2>1. l.from + Len(new) \in Nat
    BY <1>3, <1>7
  <2>2. /\ m \in Load /\ m.generation = l.generation /\ m.run = l.run
        /\ m.from = l.from + Len(new) /\ m.got = got /\ m.done = done
    BY <1>2, <1>6, <1>7, <1>9, <2>1 DEF Load
  <2> HIDE DEF m
  <2> QED BY <1>1, <2>2
<1> HIDE DEF m
<1>11. Requests'
  <2>1. Requested(n)'
    <3>1. n.generation <= generation' /\ (n.generation = generation' => n.run = shown')
      BY <1>1, <1>4, <1>10 DEF Current
    <3>2. n.from = Len(n.got) /\ n.from <= Len(log'[n.run])
      BY <1>1, <1>6, <1>7, <1>10
    <3>3. /\ \A i \in DOMAIN n.got : n.got[i] = i
          /\ ~n.done => Len(n.got) < HistoryCap
      BY <1>8, <1>9, <1>10
    <3> QED BY <3>1, <3>2, <3>3 DEF Requested, Current
  <2>2. \A o \in loads : Requested(o)'
    BY <1>1, <1>2 DEF Requests, Requested, Current
  <2>3. \A o \in loads \ {l} : o.generation # n.generation
    BY <1>2, <1>10 DEF Requests
  <2>4. \A o, q \in loads' : o.generation = q.generation => o = q
    BY <1>2, <1>10, <2>3 DEF Requests
  <2>5. \A o \in loads' : Requested(o)'
    <3>1. \A o \in loads' : o \in loads \/ o = n
      BY <1>10
    <3> QED BY <2>1, <2>2, <3>1
  <2> QED BY <2>4, <2>5 DEF Requests
<1>12. PageTypes'
  BY <1>1, <1>2, <1>10 DEF PageTypes
<1>13. Complete' /\ Joined'
  BY <1>1, <1>2 DEF Complete, Joined
<1>14. ChatWaits'
  BY <1>1, <1>2, <1>10 DEF ChatWaits, Current
<1> QED BY <1>11, <1>12, <1>13, <1>14 DEF PageInv

\* A stream that is used anew begins at the cursor; one in use goes on.
LEMMA ReadiedJoins ==
    ASSUME PageTypes, Joined, NEW on \in BOOLEAN, Readied(on), ready => on, UNCHANGED <<log, shown>>,
           cursor' \in Nat, cursor <= cursor', cursor' <= Len(log[shown])
    PROVE  /\ Joined' /\ ready' = on /\ position' \in Nat /\ wire' \in Seq(Nat)
           /\ {source', timer'} \subseteq BOOLEAN
<1>1. /\ ready \in BOOLEAN /\ cursor \in Nat /\ position \in Nat /\ wire \in Seq(Nat)
      /\ source \in BOOLEAN /\ timer \in BOOLEAN /\ ready' = on
  BY DEF PageTypes, Readied
<1>2. CASE on /\ ~ready
  <2>1. source' = TRUE /\ position' = cursor' /\ wire' = << >> /\ timer' = FALSE
    BY <1>2 DEF Readied, Opened
  <2>2. Len(<< >>) = 0 /\ DOMAIN << >> = {} /\ << >> \in Seq(Nat)
    OBVIOUS
  <2>3. Len(wire') <= position' /\ position' - Len(wire') <= cursor' /\ DOMAIN wire' = {}
    <3>1. Len(wire') = 0 /\ DOMAIN wire' = {}
      BY <2>1, <2>2
    <3>2. position' = cursor' /\ cursor' \in Nat
      BY <2>1
    <3>3. \A x \in Nat : 0 <= x /\ x - 0 <= x
      OBVIOUS
    <3>4. 0 <= cursor' /\ cursor' - 0 <= cursor'
      BY <3>2, <3>3
    <3> QED BY <3>1, <3>2, <3>4, Zenon
  <2>4. Joined'
    BY <1>1, <1>2, <2>1, <2>3 DEF Joined
  <2> QED BY <1>1, <2>1, <2>2, <2>4
<1>3. CASE ~(on /\ ~ready)
  <2>1. UNCHANGED <<source, position, wire, timer>>
    BY <1>3 DEF Readied, connection
  <2>2. source => position - Len(wire) <= cursor'
    BY <1>1 DEF Joined
  <2>3. ready' = ready
    BY <1>1, <1>3
  <2>4. Joined'
    BY <2>1, <2>2, <2>3 DEF Joined
  <2> QED BY <1>1, <2>1, <2>4
<1> QED BY <1>2, <1>3

\* The answer of the current request, with what the page has, is complete again.
LEMMA LoadedCompletes ==
    ASSUME TableInv, PageInv, NEW l \in loads, Current(l),
           events' = IF view = "chat" THEN l.got
                                      ELSE InSequence(shown, Range(l.got) \cup Range(events)),
           cursor' = NextCursor(events'), trimmed' = trimmed \ Range(events'),
           UNCHANGED <<log, shown, view>>
    PROVE  /\ Complete' /\ events' \in Seq(Nat) /\ cursor' \in Nat /\ cursor <= cursor'
           /\ cursor' <= Len(log[shown]) /\ trimmed' \in SUBSET Nat
<1>1. PageTypes /\ Complete /\ Requests /\ ChatWaits /\ l \in Load /\ Requested(l)
  BY DEF PageInv, PageTypes, Requests
<1>2. /\ shown \in Runs /\ cursor \in Nat /\ events \in Seq(Nat) /\ trimmed \in SUBSET Nat
      /\ view \in {"chat", "detail"} /\ Len(log[shown]) \in Nat
      /\ DOMAIN log[shown] = 1 .. Len(log[shown])
      /\ \A p \in DOMAIN log[shown] : log[shown][p].seq = p
  BY <1>1 DEF PageTypes, TableInv, TableTypes, LogIsSound, Sound
<1> DEFINE n == Len(l.got)
<1>3. /\ l.got \in Seq(Nat) /\ n \in Nat /\ n <= Len(log[shown]) /\ DOMAIN l.got = 1 .. n
      /\ \A i \in 1 .. n : l.got[i] = i
  BY <1>1 DEF Requested, Load
<1>4. Range(l.got) = 1 .. n
  BY <1>3 DEF Range
<1> HIDE DEF n
<1>5. trimmed' \in SUBSET Nat
  BY <1>2
<1>6. CASE view = "chat"
  <2>1. events = << >> /\ cursor = 0 /\ trimmed = {} /\ events' = l.got
    BY <1>1, <1>6 DEF ChatWaits, Complete
  <2> DEFINE S == {cursor} \cup {log[shown][p].seq : p \in Range(events')}
  <2>2. S = 0 .. n
    <3>1. \A p \in 1 .. n : p \in DOMAIN log[shown]
      BY <1>2, <1>3
    <3>2. {log[shown][p].seq : p \in 1 .. n} = 1 .. n
      BY <1>2, <3>1
    <3>3. {0} \cup (1 .. n) = 0 .. n
      BY <1>3
    <3> QED BY <1>4, <2>1, <3>2, <3>3
  <2> HIDE DEF S
  <2>3. S \in SUBSET Nat /\ n \in S /\ \A m \in S : m <= n
    BY <1>3, <2>2
  <2>4. cursor' = n
    <3>1. Greatest(S) = n
      BY <2>3, GreatestIs
    <3> QED BY <1>6, <3>1 DEF NextCursor, S
  <2>5. trimmed' = {} /\ Range(events') = 1 .. cursor'
    BY <1>4, <2>1, <2>4
  <2>6. \A i, j \in DOMAIN events' : i < j => events'[i] < events'[j]
    BY <1>3, <2>1
  <2> QED BY <1>2, <1>3, <1>6, <2>1, <2>4, <2>5, <2>6 DEF Complete
<1>7. CASE view = "detail"
  <2> DEFINE T == (1 .. n) \cup Range(events)
             M == events'[Len(events')]
  <2>1. Range(events) \subseteq 1 .. cursor /\ cursor <= Len(log[shown])
    BY <1>1 DEF Complete
  <2>2. T \in SUBSET DOMAIN log[shown] /\ T \in SUBSET Nat
    BY <1>2, <1>3, <2>1
  <2>3. events' = InSequence(shown, T)
    BY <1>4, <1>7
  <2> HIDE DEF T
  <2>4. /\ events' \in Seq(T) /\ Range(events') = T
        /\ \A i, j \in DOMAIN events' : i < j => events'[i] < events'[j]
    BY <1>2, <2>2, <2>3, Sorts DEF TableInv
  <2>5. events' \in Seq(Nat)
    <3>1. T \subseteq Nat /\ events' \in Seq(T)
      BY <2>2, <2>4
    <3> QED BY <3>1, SeqOfMore
  <2>6. events # << >> => cursor \in T
    <3>1. ASSUME events # << >> PROVE events[Len(events)] \in Range(events)
      <4>1. Len(events) \in DOMAIN events
        BY <1>2, <3>1
      <4> QED BY <4>1 DEF Range
    <3> QED BY <1>1, <1>7, <3>1 DEF Complete, T
  <2>7. events = << >> => cursor = 0
    BY <1>1, <1>7 DEF Complete
  <2>8. 1 .. cursor \subseteq T \cup trimmed
    BY <1>1 DEF Complete, T
  <2>9. CASE events' = << >>
    <3>1. T = {}
      <4>1. Range(<< >>) = {}
        BY DEF Range
      <4> QED BY <2>4, <2>9, <4>1
    <3>2. cursor' = 0 /\ cursor = 0
      BY <1>7, <2>6, <2>7, <2>9, <3>1 DEF NextCursor, LastSeq
    <3>3. 1 .. cursor' \subseteq Range(events') \cup trimmed'
      BY <3>2
    <3>4. Range(events') \subseteq 1 .. cursor' /\ cursor' <= Len(log'[shown'])
      <4>1. Range(events') = {} /\ cursor' = 0
        BY <2>4, <3>1, <3>2
      <4>2. \A x \in Nat : 0 <= x
        OBVIOUS
      <4>3. 0 <= Len(log[shown])
        BY <1>2, <4>2
      <4>4. 0 <= Len(log'[shown'])
        BY <4>3
      <4> QED BY <4>1, <4>4
    <3>5. cursor' = IF events' = << >> THEN 0 ELSE events'[Len(events')]
      BY <2>9, <3>2
    <3>6. Complete'
      BY <1>7, <2>4, <3>3, <3>4, <3>5 DEF Complete
    <3>7. cursor' \in Nat /\ cursor <= cursor' /\ cursor' <= Len(log[shown])
      <4>1. \A x \in Nat : 0 <= x
        OBVIOUS
      <4> QED BY <1>2, <3>2, <4>1
    <3> QED BY <1>5, <2>5, <3>6, <3>7
  <2>10. CASE events' # << >>
    <3>1. M \in T /\ M \in Nat /\ \A p \in T : p <= M
      BY <2>4, <2>5, <2>10, LastIsGreatest
    <3>2. M \in DOMAIN log[shown]
      BY <2>2, <3>1
    <3>3. cursor' = M
      BY <1>2, <1>7, <2>10, <3>2 DEF NextCursor, LastSeq
    <3> HIDE DEF M
    <3>4. cursor <= M /\ M <= Len(log[shown]) /\ M >= 1
      BY <1>2, <2>6, <2>7, <3>1, <3>2
    <3>5. T \subseteq 1 .. M
      BY <1>2, <2>2, <3>1
    <3>6. ASSUME NEW p \in 1 .. M PROVE p \in T \cup trimmed'
      <4>1. CASE p \in 1 .. n \/ p \in 1 .. cursor
        BY <2>4, <2>8, <4>1 DEF T
      <4>2. CASE p \notin 1 .. n /\ p \notin 1 .. cursor
        <5>1. M \in 1 .. n \/ M \in 1 .. cursor
          BY <2>1, <3>1 DEF T
        <5> QED BY <1>2, <1>3, <3>4, <4>2, <5>1
      <4> QED BY <4>1, <4>2
    <3>7. cursor' = IF events' = << >> THEN 0 ELSE events'[Len(events')]
      BY <2>10, <3>3 DEF M
    <3>8. 1 .. cursor' \subseteq Range(events') \cup trimmed'
      BY <2>4, <3>3, <3>6
    <3>9. Range(events') \subseteq 1 .. cursor' /\ cursor' <= Len(log'[shown'])
      BY <2>4, <3>3, <3>4, <3>5
    <3>10. Complete'
      BY <1>7, <2>4, <3>7, <3>8, <3>9 DEF Complete
    <3>11. cursor' \in Nat /\ cursor <= cursor' /\ cursor' <= Len(log[shown])
      BY <2>2, <3>1, <3>3, <3>4
    <3> QED BY <1>5, <2>5, <3>10, <3>11
  <2> QED BY <2>9, <2>10
<1> QED BY <1>2, <1>6, <1>7

\* A request that is answered or has failed is gone, the others stay.
LEMMA LoadGone ==
    ASSUME PageTypes, Requests, NEW l \in loads, loads' = loads \ {l},
           UNCHANGED <<log, shown, generation>>
    PROVE  /\ Requests' /\ loads' \in SUBSET Load
           /\ Current(l) => ~(\E m \in loads' : Current(m)')
           /\ (\E m \in loads' : Current(m)') => (\E m \in loads : Current(m))
<1>1. \A m \in loads' : Requested(m)'
  BY DEF Requests, Requested, Current
<1>2. \A m, k \in loads' : m.generation = k.generation => m = k
  BY DEF Requests
<1> QED BY <1>1, <1>2 DEF Requests, Current, PageTypes

\* An overtaken request changes nothing; the details may go on to their stream.
LEMMA OvertakenKeeps ==
    ASSUME PageInv, NEW l \in loads, Overtaken(l), loads' = loads \ {l}, failures' \in Nat,
           UNCHANGED <<log, view, shown, generation, activation, written, switches, refreshes>>
    PROVE  PageInv'
<1> DEFINE on == ready \/ (view = "detail" /\ l.generation = activation /\ loaded)
<1>1. /\ PageTypes /\ Complete /\ Joined /\ Requests /\ ChatWaits
      /\ UNCHANGED <<loaded, events, cursor, trimmed>>
  BY DEF PageInv, Overtaken
<1>2. Requests' /\ loads' \in SUBSET Load
      /\ ((\E m \in loads' : Current(m)') => (\E m \in loads : Current(m)))
  BY <1>1, LoadGone
<1>3. on \in BOOLEAN /\ (ready => on)
  BY <1>1 DEF PageTypes
<1>4. Readied(on) /\ (view = "chat" => on = ready)
  BY <1>1 DEF Overtaken, PageTypes
<1> HIDE DEF on
<1>5. cursor' \in Nat /\ cursor <= cursor' /\ cursor' <= Len(log[shown])
  BY <1>1 DEF PageTypes, Complete
<1>6. /\ Joined' /\ ready' = on /\ position' \in Nat /\ wire' \in Seq(Nat)
      /\ {source', timer'} \subseteq BOOLEAN
  BY <1>1, <1>3, <1>4, <1>5, ReadiedJoins
<1>7. PageTypes'
  BY <1>1, <1>2, <1>3, <1>6 DEF PageTypes
<1>8. Complete'
  BY <1>1 DEF Complete
<1>9. ChatWaits'
  BY <1>1, <1>2, <1>4, <1>6 DEF ChatWaits
<1> QED BY <1>2, <1>6, <1>7, <1>8, <1>9 DEF PageInv

LEMMA ArriveKeeps ==
    ASSUME TableInv, PageInv, NEW l \in loads, Arrive(l)
    PROVE  PageInv'
<1>1. /\ loads' = loads \ {l}
      /\ UNCHANGED <<log, view, shown, generation, activation, written, switches, refreshes, failures>>
      /\ Overtaken(l) \/ Loaded(l)
  BY DEF Arrive, table
<1>2. PageTypes /\ Joined /\ Requests
  BY DEF PageInv
<1>3. CASE Overtaken(l)
  <2>1. failures' \in Nat
    BY <1>1, <1>2 DEF PageTypes
  <2> QED BY <1>1, <1>3, <2>1, OvertakenKeeps
<1>4. CASE Loaded(l)
  <2> DEFINE on == ready \/ l.first
  <2>1. /\ Current(l)
        /\ events' = IF view = "chat" THEN l.got
                                      ELSE InSequence(shown, Range(l.got) \cup Range(events))
        /\ cursor' = NextCursor(events') /\ trimmed' = trimmed \ Range(events') /\ loaded' = TRUE
        /\ Readied(on)
    BY <1>4 DEF Loaded
  <2>2. /\ Complete' /\ events' \in Seq(Nat) /\ cursor' \in Nat /\ cursor <= cursor'
        /\ cursor' <= Len(log[shown]) /\ trimmed' \in SUBSET Nat
    BY <1>1, <2>1, LoadedCompletes
  <2>3. on \in BOOLEAN /\ (ready => on)
    BY <1>2 DEF PageTypes, Load
  <2> HIDE DEF on
  <2>4. /\ Joined' /\ ready' = on /\ position' \in Nat /\ wire' \in Seq(Nat)
        /\ {source', timer'} \subseteq BOOLEAN
    BY <1>1, <1>2, <2>1, <2>2, <2>3, ReadiedJoins
  <2>5. Requests' /\ loads' \in SUBSET Load /\ ~(\E m \in loads' : Current(m)')
    BY <1>1, <1>2, <2>1, LoadGone
  <2>6. PageTypes'
    BY <1>1, <1>2, <2>1, <2>2, <2>3, <2>4, <2>5 DEF PageTypes
  <2>7. ChatWaits'
    BY <2>5 DEF ChatWaits
  <2> QED BY <2>2, <2>4, <2>5, <2>6, <2>7 DEF PageInv
<1> QED BY <1>1, <1>3, <1>4

LEMMA FailKeeps ==
    ASSUME PageInv, NEW l \in loads, Fail(l)
    PROVE  PageInv'
<1>1. /\ loads' = loads \ {l} /\ failures' = failures + 1
      /\ UNCHANGED <<log, view, shown, generation, activation, written, switches, refreshes>>
  BY DEF Fail, table
<1>2. PageTypes /\ Complete /\ Joined /\ Requests
  BY DEF PageInv
<1>3. failures' \in Nat
  BY <1>1, <1>2 DEF PageTypes
<1>4. CASE Overtaken(l)
  BY <1>1, <1>3, <1>4, OvertakenKeeps
<1>5. CASE Current(l) /\ UNCHANGED <<loaded, events, cursor, trimmed>> /\ Readied(ready \/ view = "chat")
  <2> DEFINE on == ready \/ view = "chat"
  <2>1. on \in BOOLEAN /\ (ready => on) /\ Readied(on)
    BY <1>2, <1>5 DEF PageTypes
  <2> HIDE DEF on
  <2>2. cursor' \in Nat /\ cursor <= cursor' /\ cursor' <= Len(log[shown])
    BY <1>2, <1>5 DEF PageTypes, Complete
  <2>3. /\ Joined' /\ ready' = on /\ position' \in Nat /\ wire' \in Seq(Nat)
        /\ {source', timer'} \subseteq BOOLEAN
    BY <1>1, <1>2, <2>1, <2>2, ReadiedJoins
  <2>4. Requests' /\ loads' \in SUBSET Load /\ ~(\E m \in loads' : Current(m)')
    BY <1>1, <1>2, <1>5, LoadGone
  <2>5. PageTypes'
    BY <1>1, <1>2, <1>3, <1>5, <2>1, <2>3, <2>4 DEF PageTypes
  <2>6. Complete'
    BY <1>1, <1>2, <1>5 DEF Complete
  <2>7. ChatWaits'
    BY <2>4 DEF ChatWaits
  <2> QED BY <2>3, <2>4, <2>5, <2>6, <2>7 DEF PageInv
<1> QED BY <1>4, <1>5 DEF Fail

\* A step of a writer leaves the rows that are there.
LEMMA WritesKeep ==
    ASSUME TableInv, PageInv, NEW w \in Writers,
           \/ Begin(w) \/ Commit(w) \/ Rollback(w)
           \/ \E r \in Runs, k \in Keys \cup {"none"} : AppendEvent(w, r, k)
    PROVE  PageInv'
<1>1. /\ UNCHANGED <<page, connection, switches, refreshes, failures>>
      /\ written' \in {written, written + 1}
      /\ log' = log \/ log' = Visible(w)
  BY DEF Begin, Commit, Rollback, AppendEvent
<1>2. written \in Nat /\ failures \in Nat
  BY DEF PageInv, PageTypes
<1>3. \A r \in Runs : log[r] \in Seq(Row) /\ buffer[w][r] \in Seq(Row)
  BY DEF TableInv, TableTypes
<1>4. \A r \in Runs : Len(log[r]) \in Nat /\ Len(buffer[w][r]) \in Nat
                      /\ Len(log[r] \o buffer[w][r]) = Len(log[r]) + Len(buffer[w][r])
  BY <1>3, ConcatProperties, LenProperties
<1>5. ASSUME NEW r \in Runs
      PROVE  /\ Len(log[r]) <= Len(Visible(w)[r])
             /\ Len(Visible(w)[r]) \in Nat /\ Len(log[r]) <= Len(log[r])
  <2>1. Visible(w)[r] = log[r] \o buffer[w][r]
    BY DEF Visible
  <2>2. Len(Visible(w)[r]) = Len(log[r]) + Len(buffer[w][r])
    BY <1>4, <2>1
  <2>3. \A x, y \in Nat : x <= x /\ x <= x + y /\ x + y \in Nat
    OBVIOUS
  <2>4. Len(log[r]) \in Nat /\ Len(buffer[w][r]) \in Nat
    BY <1>4
  <2> QED BY <2>2, <2>3, <2>4
<1>6. \A r \in Runs : Len(log[r]) <= Len(log'[r]) /\ Len(log'[r]) \in Nat
  BY <1>1, <1>4, <1>5
<1>7. written' \in Nat /\ failures' \in Nat
  BY <1>1, <1>2
<1> QED BY <1>1, <1>4, <1>6, <1>7, PageStays DEF TableInv

\* Every step keeps the invariant of the page: one step per action.
LEMMA PageStep == TableInv /\ PageInv /\ [LogNext]_logVars => PageInv'
<1> SUFFICES ASSUME TableInv, PageInv, [LogNext]_logVars PROVE PageInv'
  OBVIOUS
<1>1. failures \in Nat /\ failures + 1 \in Nat
  BY DEF PageInv, PageTypes
<1>2. CASE WriteStep
  BY <1>2, WritesKeep DEF WriteStep
<1>3. CASE LoadStep
  BY <1>3, FetchKeeps, ArriveKeeps, FailKeeps DEF LoadStep
<1>4. CASE StreamStep
  <2>1. ASSUME Broken PROVE PageInv'
    <3>1. /\ source /\ source' = FALSE /\ wire' = << >> /\ timer' = TRUE /\ failures' = failures + 1
          /\ UNCHANGED <<log, page, position, written, switches, refreshes>>
      BY <2>1 DEF Broken, table
    <3> QED BY <1>1, <3>1, BrokenKeeps
  <2>2. ASSUME Reconnect PROVE PageInv'
    <3>1. /\ timer /\ Opened(cursor)
          /\ UNCHANGED <<log, page, written, switches, refreshes, failures>>
      BY <2>2 DEF Reconnect, table
    <3>2. ready
      BY <3>1 DEF PageInv, Joined
    <3> QED BY <1>1, <3>1, <3>2, OpenedKeeps
  <2>3. ASSUME Online PROVE PageInv'
    <3>1. /\ ready /\ Opened(cursor) /\ failures' = failures + 1
          /\ UNCHANGED <<log, page, written, switches, refreshes>>
      BY <2>3 DEF Online, table
    <3> QED BY <1>1, <3>1, OpenedKeeps
  <2> QED BY <1>4, <2>1, <2>2, <2>3, PollKeeps, OnMessageKeeps DEF StreamStep
<1>5. CASE UserStep
  BY <1>5, SwitchKeeps, RefreshKeeps DEF UserStep, TableInv
<1>6. CASE ServerDies
  <2>1. /\ source' = FALSE /\ wire' = << >> /\ timer' = (timer \/ source) /\ failures' = failures + 1
        /\ UNCHANGED <<log, page, position, written, switches, refreshes>>
    BY <1>6 DEF ServerDies
  <2> QED BY <1>1, <2>1, BrokenKeeps
<1>7. CASE UNCHANGED logVars
  <2>1. UNCHANGED <<log, page, connection, written, switches, refreshes, failures>>
    BY <1>7 DEF logVars, table
  <2>2. \A r \in Runs : Len(log[r]) \in Nat /\ Len(log[r]) <= Len(log[r])
    BY DEF TableInv, TableTypes
  <2>3. written' \in Nat /\ failures' \in Nat
    BY <2>1 DEF PageInv, PageTypes
  <2> QED BY <2>1, <2>2, <2>3, PageStays DEF TableInv
<1> QED BY <1>2, <1>3, <1>4, <1>5, <1>6, <1>7 DEF LogNext

\* At first the page shows nothing and has asked for the history of its run.
LEMMA PageInit == LogInit => PageInv
<1> SUFFICES ASSUME LogInit PROVE PageInv
  OBVIOUS
<1> DEFINE l == Request(1, shown, TRUE)
<1>1. /\ log = Nothing /\ view \in {"chat", "detail"} /\ shown \in Runs
      /\ generation = 1 /\ activation = 1 /\ loads = {l} /\ loaded = FALSE /\ ready = FALSE
      /\ events = << >> /\ cursor = 0 /\ source = FALSE /\ position = 0 /\ wire = << >>
      /\ timer = FALSE /\ trimmed = {}
      /\ written = 0 /\ switches = 0 /\ refreshes = 0 /\ failures = 0
  BY DEF LogInit
<1>2. l \in Load
  BY <1>1, RequestIsTyped
<1>3. /\ l.generation = 1 /\ l.run = shown /\ l.from = 0 /\ l.got = << >> /\ l.done = FALSE
  BY DEF Request
<1>4. /\ << >> \in Seq(Nat) /\ Len(<< >>) = 0 /\ DOMAIN << >> = {} /\ 1 .. 0 = {}
      /\ Range(<< >>) = {}
  BY DEF Range
<1>5. Len(log[shown]) = 0
  BY <1>1, <1>4 DEF Nothing
<1> HIDE DEF l
<1>6. PageTypes
  <2>1. {loaded, ready, source, timer} \subseteq BOOLEAN
    BY <1>1
  <2>2. {generation, activation, cursor, position, written, switches, refreshes, failures} \subseteq Nat
    BY <1>1
  <2> QED BY <1>1, <1>2, <1>4, <2>1, <2>2 DEF PageTypes
<1>7. Complete
  <2>1. Range(events) \subseteq 1 .. cursor /\ 1 .. cursor \subseteq Range(events) \cup trimmed
    BY <1>1, <1>4
  <2>2. cursor <= Len(log[shown])
    BY <1>1, <1>5
  <2> QED BY <1>1, <1>4, <2>1, <2>2 DEF Complete
<1>8. Joined
  BY <1>1 DEF Joined
<1>9. Requests
  <2>1. HistoryCap \in Nat \ {0}
    BY EventLogAssumption
  <2>2. Requested(l)
    BY <1>1, <1>3, <1>4, <1>5, <2>1 DEF Requested, Current
  <2> QED BY <1>1, <2>2 DEF Requests
<1>10. ChatWaits
  BY <1>1 DEF ChatWaits
<1> QED BY <1>6, <1>7, <1>8, <1>9, <1>10 DEF PageInv

\* The invariant of the page, its connection and its requests holds of every
\* reachable state.
THEOREM PageInvariant == LogSpec => [](TableInv /\ PageInv)
<1>1. LogInit => TableInv /\ PageInv
  BY TableInit, PageInit
<1>2. TableInv /\ PageInv /\ [LogNext]_logVars => (TableInv /\ PageInv)'
  BY TableStep, PageStep
<1> QED BY <1>1, <1>2, PTL DEF LogSpec

\* Whatever connections break, requests are late or overtaken and runs are
\* switched, a page shows every committed event of its run up to its cursor, once
\* and in order, but for the old ones that the details drop (listAllEvents,
\* stream_events, useRunStream, applyOne, applyEvent, mergeEvents).
THEOREM PagesAreComplete == LogSpec => []PageSafety
<1> SUFFICES ASSUME TableInv, PageInv PROVE PageSafety
  BY PageInvariant, PTL
<1>1. LogTypes
  BY DEF TableInv, TableTypes, PageInv, PageTypes, LogTypes
<1>2. /\ Complete /\ cursor \in Nat /\ Len(log[shown]) \in Nat
      /\ DOMAIN log[shown] = 1 .. Len(log[shown])
      /\ \A p \in DOMAIN log[shown] : log[shown][p].seq = p
  BY DEF TableInv, TableTypes, LogIsSound, Sound, PageInv, PageTypes
<1>3. Range(events) \subseteq DOMAIN log[shown]
  BY <1>2 DEF Complete
<1>4. ASSUME NEW p \in DOMAIN log[shown], log[shown][p].seq <= cursor
      PROVE  p \in Range(events) \cup trimmed
  <2>1. p \in 1 .. cursor
    BY <1>2, <1>4
  <2> QED BY <1>2, <2>1 DEF Complete
<1>5. \A i \in DOMAIN events : log[shown][events[i]].seq = events[i]
  BY <1>2, <1>3 DEF Range
<1>6. \A i, j \in DOMAIN events :
         i < j => log[shown][events[i]].seq < log[shown][events[j]].seq
  BY <1>2, <1>5 DEF Complete
<1> QED BY <1>1, <1>3, <1>4, <1>6 DEF PageSafety, PageIsComplete

=============================================================================
