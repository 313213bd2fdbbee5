------------------------------ MODULE Messages ------------------------------
(***************************************************************************)
(* How a message reaches a teammate, on both of its ways: the mailbox with *)
(* its table (app/multiagent/mailbox.py and mailbox_messages of            *)
(* app/infrastructure/database/run_store.py), and the command queue of the *)
(* teammate's session, which the safety points of its tools empty          *)
(* (app/multiagent/teammate_session.py).                                   *)
(*                                                                         *)
(* The modules show one teammate; the mailboxes of two are independent.    *)
(* Every message has a sender of its own (a tool thread, an HTTP handler), *)
(* the teammate's assignment and its tools read, and rows are read back by *)
(* a resume and by every listing of the messages over HTTP.  A crash ends  *)
(* all of them and leaves the two tables.                                  *)
(***************************************************************************)
EXTENDS Integers, Sequences, Functions

CONSTANTS
    MaxMessages,    \* bound: messages created, numbered in order of created_at
    Readers,        \* threads that read the mailbox (assignment, read and wait tools)
    Points,         \* tool threads that pass a safety point
    Capacity,       \* messages an inbox holds
    MaxCount,       \* max_count of a read, a wait takes one
    MaxRestores,    \* bound: reads of the rows
    MaxFaults,      \* bound: rows that are not written
    MaxCrashes      \* bound: crashes

ASSUME MessagesAssumption ==
    /\ {MaxMessages, MaxRestores, MaxFaults, MaxCrashes} \subseteq Nat
    /\ Capacity \in Nat \ {0} /\ MaxCount \in Nat \ {0}

VARIABLES
    sender,         \* where the send of each message stands
    stamp,          \* consumed_at of the object that was sent is set
    status,         \* the status its sender is about to write
    inbox,          \* _inboxes of the teammate
    left,           \* what each reader has taken and not written yet
    held,           \* what each reader has taken
    lister,         \* who reads the rows back: nobody, a listing or a resume
    listed,         \* the rows it has read that are not consumed
    resumed,        \* this process has restored the run
    rows,           \* status of each row of mailbox_messages
    commands,       \* status of each row of teammate_queue_items
    point,          \* where each safety point stands
    items,          \* commands it has still to take
    taken,          \* the one it has in hand, 0: none
    dump,           \* the session it is about to write
    conversation,   \* messages in the actor's conversation_state
    stored,         \* messages in the stored conversation_state
    seen,           \* how often each message was given to the model (history)
    overflowed,     \* messages dropped from a full inbox (history)
    unsaved,        \* messages whose row failed to be written (history)
    died,           \* messages a crash took from a reader (history)
    forgotten,      \* commands a crash took out of the conversation (history)
    restores, faults, crashes

sending == <<sender, stamp, status>>
reading == <<left, held>>
restoring == <<lister, listed, resumed>>
session == <<commands, point, items, taken, dump, conversation, stored>>
history == <<seen, overflowed, unsaved, died, forgotten>>
bounds == <<restores, faults, crashes>>
vars == <<sending, inbox, reading, restoring, rows, session, history, bounds>>

-----------------------------------------------------------------------------
(* Types *)

Mail == 1 .. MaxMessages

RowStatus == {"delivered", "consumed"}

TypeOK ==
    /\ sender \in [Mail -> {"new", "queued", "saving", "saved", "sent", "refused", "dead"}]
    /\ stamp \in [Mail -> BOOLEAN]
    /\ status \in [Mail -> RowStatus]
    /\ inbox \in Seq(Mail)
    /\ left \in [Readers -> Seq(Mail)]
    /\ held \in [Readers -> SUBSET Mail]
    /\ lister \in {"nobody", "listing", "resuming"}
    /\ listed \in SUBSET Mail
    /\ resumed \in BOOLEAN
    /\ rows \in [Mail -> RowStatus \cup {"absent"}]
    /\ commands \in [Mail -> {"absent", "pending", "consumed"}]
    /\ point \in [Points -> {"idle", "taking", "storing"}]
    /\ items \in [Points -> SUBSET Mail]
    /\ taken \in [Points -> 0 .. MaxMessages]
    /\ dump \in [Points -> SUBSET Mail]
    /\ conversation \in SUBSET Mail /\ stored \in SUBSET Mail
    /\ seen \in [Mail -> Nat]
    /\ {overflowed, unsaved, died, forgotten} \subseteq SUBSET Mail
    /\ {restores, faults, crashes} \subseteq Nat

Init ==
    /\ sender = [m \in Mail |-> "new"]
    /\ stamp = [m \in Mail |-> FALSE]
    /\ status = [m \in Mail |-> "delivered"]
    /\ inbox = << >>
    /\ left = [r \in Readers |-> << >>]
    /\ held = [r \in Readers |-> {}]
    /\ lister = "nobody" /\ listed = {} /\ resumed = TRUE
    /\ rows = [m \in Mail |-> "absent"]
    /\ commands = [m \in Mail |-> "absent"]
    /\ point = [p \in Points |-> "idle"]
    /\ items = [p \in Points |-> {}]
    /\ taken = [p \in Points |-> 0]
    /\ dump = [p \in Points |-> {}]
    /\ conversation = {} /\ stored = {}
    /\ seen = [m \in Mail |-> 0]
    /\ overflowed = {} /\ unsaved = {} /\ died = {} /\ forgotten = {}
    /\ restores = 0 /\ faults = 0 /\ crashes = 0

-----------------------------------------------------------------------------
(* Sending *)

\* The target is not of the run, or the sender has sent too much in a minute.
Refuse(m) ==
    /\ sender[m] = "new"
    /\ sender' = [sender EXCEPT ![m] = "refused"]
    /\ UNCHANGED <<stamp, status, inbox, reading, restoring, rows, session, history, bounds>>

\* How many messages a full inbox drops, the oldest first, to take one more.
Dropped == IF Len(inbox) < Capacity THEN 0 ELSE Len(inbox) - Capacity + 1

\* The message is put into the inbox under the mailbox's lock.
Deliver(m) ==
    /\ sender[m] = "new"
    /\ inbox' = Append(SubSeq(inbox, Dropped + 1, Len(inbox)), m)
    /\ overflowed' = overflowed \cup {inbox[i] : i \in 1 .. Dropped}
    /\ sender' = [sender EXCEPT ![m] = "queued"]
    /\ UNCHANGED <<stamp, status, reading, restoring, rows, session, seen, unsaved,
                   died, forgotten, bounds>>

\* (Mutant: a status of its own for a message that was read meanwhile.)
EvaluateRead(m) ==
    /\ sender[m] = "queued"
    /\ status' = [status EXCEPT ![m] = IF stamp[m] THEN "read" ELSE "delivered"]
    /\ sender' = [sender EXCEPT ![m] = "saving"]
    /\ UNCHANGED <<stamp, inbox, reading, restoring, rows, session, history, bounds>>

\* The row is made up from the object, outside the lock: a reader may have it.
Evaluate(m) ==
    /\ sender[m] = "queued"
    /\ status' = [status EXCEPT ![m] = IF stamp[m] THEN "consumed" ELSE "delivered"]
    /\ sender' = [sender EXCEPT ![m] = "saving"]
    /\ UNCHANGED <<stamp, inbox, reading, restoring, rows, session, history, bounds>>

\* INSERT OR REPLACE of the row of m; an error is logged and forgotten.
Write(m, s) ==
    \/ /\ rows' = [rows EXCEPT ![m] = s]
       /\ UNCHANGED <<unsaved, faults>>
    \/ /\ faults < MaxFaults
       /\ faults' = faults + 1
       /\ unsaved' = unsaved \cup {m}
       /\ UNCHANGED rows

Save(m) ==
    /\ sender[m] = "saving"
    /\ Write(m, status[m])
    /\ sender' = [sender EXCEPT ![m] = "saved"]
    /\ UNCHANGED <<stamp, status, inbox, reading, restoring, session, seen, overflowed,
                   died, forgotten, restores, crashes>>

\* The same message becomes a command of the teammate's session: send is TRUE.
Put(m) ==
    /\ sender[m] = "saved"
    /\ commands' = [commands EXCEPT ![m] = "pending"]
    /\ sender' = [sender EXCEPT ![m] = "sent"]
    /\ UNCHANGED <<stamp, status, inbox, reading, restoring, rows, point, items, taken,
                   dump, conversation, stored, history, bounds>>

-----------------------------------------------------------------------------
(* Reading the mailbox *)

\* Up to n messages are popped under the lock and stamped.
Receive(r, n) ==
    /\ resumed
    /\ held[r] = {}
    /\ inbox # << >>
    /\ LET k == IF n < Len(inbox) THEN n ELSE Len(inbox)
           batch == SubSeq(inbox, 1, k)
       IN  /\ inbox' = SubSeq(inbox, k + 1, Len(inbox))
           /\ left' = [left EXCEPT ![r] = batch]
           /\ held' = [held EXCEPT ![r] = Range(batch)]
           /\ stamp' = [m \in Mail |-> stamp[m] \/ m \in Range(batch)]
    /\ UNCHANGED <<sender, status, restoring, rows, session, history, bounds>>

\* The rows of what was popped are written one by one.
SaveConsumed(r) ==
    /\ left[r] # << >>
    /\ Write(Head(left[r]), "consumed")
    /\ left' = [left EXCEPT ![r] = Tail(@)]
    /\ UNCHANGED <<sending, inbox, held, restoring, session, seen, overflowed, died,
                   forgotten, restores, crashes>>

\* The messages are in the prompt of the attempt, or in the tool's answer.
Use(r) ==
    /\ held[r] # {}
    /\ left[r] = << >>
    /\ seen' = [m \in Mail |-> IF m \in held[r] THEN seen[m] + 1 ELSE seen[m]]
    /\ held' = [held EXCEPT ![r] = {}]
    /\ UNCHANGED <<sending, inbox, left, restoring, rows, session, overflowed, unsaved,
                   died, forgotten, bounds>>

-----------------------------------------------------------------------------
(* Reading the rows back *)

\* A resume, or a GET of the messages, lists the rows without the lock.
ListRows(who) ==
    /\ lister = "nobody"
    /\ restores < MaxRestores
    /\ restores' = restores + 1
    /\ lister' = who
    /\ listed' = {m \in Mail : rows[m] = "delivered"}
    /\ UNCHANGED <<sending, inbox, reading, resumed, rows, session, history, faults, crashes>>

\* The rows in the order of created_at.
InOrder(s, d) ==
    /\ Range(s) = d
    /\ \A i, j \in DOMAIN s : i < j => s[i] < s[j]

\* (Mutant: the inbox is rebuilt from the rows alone.)
RebuiltAnew(s) == s

\* What the inbox is once the listed rows, s, were put back.
Rebuilt(s) == inbox \o s

\* Under the lock, every listed message goes to the end of the inbox.
Rebuild ==
    /\ lister # "nobody"
    /\ \E n \in 0 .. MaxMessages : \E s \in [1 .. n -> listed] :
          InOrder(s, listed) /\ inbox' = Rebuilt(s)
    /\ resumed' = (resumed \/ lister = "resuming")
    /\ lister' = "nobody" /\ listed' = {}
    /\ UNCHANGED <<sending, reading, rows, session, history, bounds>>

-----------------------------------------------------------------------------
(* The session's commands *)

\* safety_point reads the commands that are pending.
Pending(p) ==
    /\ resumed
    /\ point[p] = "idle"
    /\ point' = [point EXCEPT ![p] = "taking"]
    /\ items' = [items EXCEPT ![p] = {m \in Mail : commands[m] = "pending"}]
    /\ UNCHANGED <<sending, inbox, reading, restoring, rows, commands, taken, dump,
                   conversation, stored, history, bounds>>

\* One after the other is added to the conversation of the actor ...
Take(p, m) ==
    /\ point[p] = "taking" /\ taken[p] = 0
    /\ m \in items[p]
    /\ conversation' = conversation \cup {m}
    /\ taken' = [taken EXCEPT ![p] = m]
    /\ items' = [items EXCEPT ![p] = @ \ {m}]
    /\ UNCHANGED <<sending, inbox, reading, restoring, rows, commands, point, dump, stored,
                   history, bounds>>

\* ... and acknowledged.
Ack(p) ==
    /\ taken[p] # 0
    /\ commands' = [commands EXCEPT ![taken[p]] = "consumed"]
    /\ taken' = [taken EXCEPT ![p] = 0]
    /\ UNCHANGED <<sending, inbox, reading, restoring, rows, point, items, dump,
                   conversation, stored, history, bounds>>

\* Then the session is serialised ...
Dump(p) ==
    /\ point[p] = "taking" /\ taken[p] = 0 /\ items[p] = {}
    /\ dump' = [dump EXCEPT ![p] = conversation]
    /\ point' = [point EXCEPT ![p] = "storing"]
    /\ UNCHANGED <<sending, inbox, reading, restoring, rows, commands, items, taken,
                   conversation, stored, history, bounds>>

\* (Mutant: the actor goes on with the session as it was stored.)
StoreReloads(p) ==
    /\ point[p] = "storing"
    /\ stored' = dump[p]
    /\ conversation' = dump[p]
    /\ dump' = [dump EXCEPT ![p] = {}]
    /\ point' = [point EXCEPT ![p] = "idle"]
    /\ UNCHANGED <<sending, inbox, reading, restoring, rows, commands, items, taken,
                   history, bounds>>

\* ... and written.
Store(p) ==
    /\ point[p] = "storing"
    /\ stored' = dump[p]
    /\ dump' = [dump EXCEPT ![p] = {}]
    /\ point' = [point EXCEPT ![p] = "idle"]
    /\ UNCHANGED <<sending, inbox, reading, restoring, rows, commands, items, taken,
                   conversation, history, bounds>>

-----------------------------------------------------------------------------
(* Crashes *)

\* Commands that were acknowledged.
Acked == {m \in Mail : commands[m] = "consumed"}

\* All threads end; the mailbox is empty, and the session is read from its row.
Crash ==
    /\ crashes < MaxCrashes
    /\ crashes' = crashes + 1
    /\ sender' = [m \in Mail |-> IF sender[m] \in {"queued", "saving", "saved"}
                                   THEN "dead" ELSE sender[m]]
    /\ inbox' = << >>
    /\ left' = [r \in Readers |-> << >>]
    /\ held' = [r \in Readers |-> {}]
    /\ died' = died \cup UNION {held[r] : r \in Readers}
    /\ lister' = "nobody" /\ listed' = {} /\ resumed' = FALSE
    /\ point' = [p \in Points |-> "idle"]
    /\ items' = [p \in Points |-> {}]
    /\ taken' = [p \in Points |-> 0]
    /\ dump' = [p \in Points |-> {}]
    /\ conversation' = stored
    /\ forgotten' = forgotten \cup (Acked \ stored)
    /\ UNCHANGED <<stamp, status, rows, commands, stored, seen, overflowed, unsaved,
                   restores, faults>>

-----------------------------------------------------------------------------
SendStep == \E m \in Mail : Refuse(m) \/ Deliver(m) \/ Evaluate(m) \/ Save(m) \/ Put(m)

ReadStep ==
    \E r \in Readers : \/ \E n \in {1, MaxCount} : Receive(r, n)
                       \/ SaveConsumed(r) \/ Use(r)

RestoreStep == (\E who \in {"listing", "resuming"} : ListRows(who)) \/ Rebuild

SessionStep ==
    \E p \in Points : Pending(p) \/ (\E m \in Mail : Take(p, m)) \/ Ack(p) \/ Dump(p) \/ Store(p)

Next == SendStep \/ ReadStep \/ RestoreStep \/ SessionStep \/ Crash

Spec == Init /\ [][Next]_vars

-----------------------------------------------------------------------------
(* Properties *)

\* Waiting messages, and those a reader has: they will be given to the model.
Alive == Range(inbox) \cup UNION {held[r] : r \in Readers}

\* What takes a message away for good, each of them logged or a crash.
Excused == overflowed \cup unsaved \cup died

\* A message whose send returned TRUE is not lost: it was given to the model,
\* or it waits in the inbox or with a reader, or it waits in its row for the
\* resume of the run, unless the inbox was full, its row was not written, or
\* the process died under its reader.  (Mailbox.send, receive and
\* restore_from_db, which put no lock around the rows.)
NoMessageIsLost ==
    \A m \in Mail :
        sender[m] = "sent" /\ seen[m] = 0 /\ m \notin Alive \cup Excused =>
            ~resumed /\ rows[m] = "delivered"

\* Types, and where a message can be (send, receive and restore_from_db).
Safety == TypeOK /\ NoMessageIsLost

\* What the teammate has acknowledged is in its conversation, and a conversation
\* that was read back has lost no more than what the crash found unwritten.
\* (safety_point adds a message before it acknowledges it.)
ConversationKeepsAcked == Acked \subseteq conversation \cup forgotten

\* A message is given to the model once: restore_from_db says that it does not
\* put consumed messages back, to avoid that they are consumed again.
ReadOnce == \A m \in Mail : seen[m] <= 1

\* While no safety point is under way, the stored session has every message
\* the teammate has acknowledged, so that a restarted actor resumes the same
\* conversation.  (The head of teammate_session.py.)
StoredConversation == (\A p \in Points : point[p] = "idle") => Acked \ forgotten \subseteq stored
=============================================================================
