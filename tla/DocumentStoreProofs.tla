------------------------ MODULE DocumentStoreProofs -------------------------
(***************************************************************************)
(* What DocumentStore promises for any number of clients, documents and    *)
(* chunks.                                                                 *)
(***************************************************************************)
EXTENDS DocumentStore, TLAPS

-----------------------------------------------------------------------------
(* The inductive invariant.                                                *)

Active(c) == client[c].pc # "idle"

\* Who changes a document is in the transaction that does, and about it.
HoldersRun ==
    \A d \in Doc :
        /\ docs[d].by = NoClient => docs[d].state \in {"unborn", "live", "deleted"}
        /\ docs[d].by # NoClient =>
             /\ client[docs[d].by].doc = d
             /\ \/ docs[d].state = "inserting" /\ client[docs[d].by].pc = "insert"
                \/ docs[d].state = "deleting" /\ client[docs[d].by].pc \in {"deleting", "commit"}

\* What a transaction relies on.  Every write has a chunk 0: this is where two
\* writes of a document meet.
TransactionFits(c) ==
    LET d == client[c].doc IN
    /\ client[c].error # "none" => ~Active(c)
    /\ Active(c) => client[c].write \in 1..writes /\ client[c].left \subseteq client[c].of
    /\ client[c].pc \in {"delete", "insertDocument", "insert"} => 0 \in client[c].of
    /\ client[c].pc \in {"delete", "insertDocument"} => client[c].left = client[c].of
    /\ client[c].pc = "insertDocument" => docs[d].state = "unborn"
    /\ client[c].pc \in {"delete", "deleteDocument", "deleting"} => Known(d)
    /\ client[c].pc = "deleting" /\ docs[d].by # c => 0 \in client[c].of /\ client[c].left = client[c].of
    /\ client[c].pc = "insert" /\ docs[d].by # c => Known(d)
    /\ client[c].pc = "commit" => docs[d].by = c

\* No two transactions write under one number or insert one document.
TransactionsDiffer ==
    \A c, o \in Client :
        c # o /\ Active(c) /\ Active(o) =>
            /\ client[c].write # client[o].write
            /\ client[c].pc = "insertDocument" /\ client[o].pc = "insertDocument" =>
                 client[c].doc # client[o].doc

\* A row that its transaction has not committed yet: others cannot see it, so
\* that they do not delete it either; and its document stays.
RowInserted(r) ==
    /\ client[r.ins].pc = "insert" /\ client[r.ins].doc = r.doc
    /\ client[r.ins].write = r.write /\ client[r.ins].of = r.of /\ r.ordinal \notin client[r.ins].left
    /\ r.del = NoClient
    /\ docs[r.doc].by = r.ins \/ docs[r.doc].state = "live"

RowCommitted(r) ==
    /\ Listed(r.doc)
    /\ \A c \in Client : Active(c) => client[c].write # r.write

RowDeleted(r) == client[r.del].pc \in {"insert", "commit"} /\ client[r.del].doc = r.doc

RowFits(r) ==
    /\ r.write <= writes /\ r.ordinal \in r.of /\ 0 \in r.of
    /\ r.ins # NoClient => RowInserted(r)
    /\ r.ins = NoClient => RowCommitted(r)
    /\ r.del # NoClient => RowDeleted(r)

\* The rows of one write; and of a document, which others see the rows of one
\* write of, all deleted by the same transaction if by any.
RowsAgree ==
    \A r, s \in chunks :
        /\ r.write = s.write => r.doc = s.doc /\ r.of = s.of
        /\ r.ins = NoClient /\ s.ins = NoClient /\ r.doc = s.doc =>
             r.write = s.write /\ r.del = s.del

\* UNIQUE(document_id, ordinal), over what is not committed.
RowsAreUnique ==
    \A r, s \in chunks :
        r.ins # NoClient /\ r.doc = s.doc /\ r.ordinal = s.ordinal =>
            s.ins = r.ins \/ s.del = r.ins

\* What was committed or inserted is complete.
CommittedWhole ==
    /\ \A d \in Doc : Listed(d) => \E r \in chunks : r.doc = d /\ r.ins = NoClient
    /\ \A r \in chunks : r.ins = NoClient =>
         \A n \in r.of : \E s \in chunks : s.doc = r.doc /\ s.ins = NoClient /\ s.ordinal = n

InsertedWhole ==
    \A c \in Client : client[c].pc = "insert" =>
        \A n \in client[c].of \ client[c].left : \E r \in chunks : r.ins = c /\ r.ordinal = n

\* A snapshot holds committed rows of one document, and whole writes.
SnapshotFits(c) ==
    /\ \A k \in client[c].seen :
         k[1] <= writes /\ \A o \in Client : Active(o) => client[o].write # k[1]
    /\ \A r \in chunks : Key(r) \in client[c].seen =>
         r.doc = client[c].doc /\ \A n \in r.of : <<r.write, n>> \in client[c].seen

\* A transaction that deletes a document leaves none of its chunks.
DeletionIsWhole(c) ==
    \A r \in chunks : r.doc = client[c].doc =>
        /\ client[c].pc = "deleting" /\ docs[client[c].doc].by = c => Key(r) \in client[c].seen
        /\ client[c].pc = "commit" => r.del = c

IInv ==
    /\ TypeOK
    /\ HoldersRun
    /\ \A c \in Client : TransactionFits(c) /\ SnapshotFits(c) /\ DeletionIsWhole(c)
    /\ TransactionsDiffer
    /\ \A r \in chunks : RowFits(r)
    /\ RowsAgree /\ RowsAreUnique
    /\ CommittedWhole /\ InsertedWhole
    /\ OnlyDeletionIsFatal

-----------------------------------------------------------------------------
(* Rows and transactions, field by field.                                  *)

Undone(c, r) == [r EXCEPT !.del = IF @ = c THEN NoClient ELSE @]
Done(c, r)   == [r EXCEPT !.ins = IF @ = c THEN NoClient ELSE @]
Marked(c, r) == [r EXCEPT !.del = c]

LEMMA RowFields ==
    ASSUME NEW r \in Row, NEW c \in Client
    PROVE  /\ Undone(c, r) \in Row /\ Done(c, r) \in Row /\ Marked(c, r) \in Row
           /\ \A s \in {Undone(c, r), Done(c, r), Marked(c, r)} :
                 s.doc = r.doc /\ s.ordinal = r.ordinal /\ s.write = r.write /\ s.of = r.of
           /\ Undone(c, r).ins = r.ins
           /\ Undone(c, r).del = IF r.del = c THEN NoClient ELSE r.del
           /\ Done(c, r).del = r.del
           /\ Done(c, r).ins = IF r.ins = c THEN NoClient ELSE r.ins
           /\ Marked(c, r).ins = r.ins /\ Marked(c, r).del = c
<1>1. Undone(c, r) \in Row
  BY DEF Row, Undone
<1>2. Done(c, r) \in Row
  BY DEF Row, Done
<1>3. Marked(c, r) \in Row
  BY DEF Row, Marked
<1>. QED
  BY <1>1, <1>2, <1>3 DEF Row, Undone, Done, Marked

LEMMA RowTypes ==
    ASSUME NEW r \in Row
    PROVE  /\ r.doc \in Doc /\ r.ordinal \in Ordinal /\ r.write \in 1..MaxWrites
           /\ r.of \in SUBSET Ordinal
           /\ r.ins \in Client \cup {NoClient} /\ r.del \in Client \cup {NoClient}
BY DEF Row

\* The transactions of others are left alone.
Errors == {"none", "timeout", "unique", "foreignKey", "deadlock", "noChunks"}

LEMMA EndFields ==
    ASSUME TypeOK, NEW c \in Client, NEW error \in Errors, Ends(c, error)
    PROVE  /\ client' \in [Client -> Tx]
           /\ \A o \in Client : o # c => client'[o] = client[o]
           /\ client'[c].pc = "idle" /\ client'[c].doc = client[c].doc /\ client'[c].doc \in Doc
           /\ client'[c].left = {} /\ client'[c].of = {} /\ client'[c].seen = {}
           /\ client'[c].error = error
<1>1. client'[c] = Idle(client[c].doc, error) /\ \A o \in Client : o # c => client'[o] = client[o]
  BY DEF TypeOK, Ends
<1>2. client[c].doc \in Doc
  BY DEF TypeOK, Tx
<1>3. MaxWrites \in Nat
  BY DocumentStoreAssumption
<1>4. Idle(client[c].doc, error) \in Tx
  BY <1>2, <1>3 DEF Idle, Tx, Errors
<1>. QED
  BY <1>1, <1>2, <1>4 DEF TypeOK, Ends, Idle

-----------------------------------------------------------------------------
(* The end of a transaction.                                               *)

\* A transaction is rolled back, and its client may try again.
LEMMA RollbackKeeps ==
    ASSUME IInv, NEW c \in Client, NEW error \in Errors, Rollback(c, error),
           IsRetryable(error) \/ docs[client[c].doc].state = "deleted"
    PROVE  IInv'
<1>1. TypeOK /\ NoClient \notin Client
  BY DocumentStoreAssumption DEF IInv
<1>2. /\ client' \in [Client -> Tx]
      /\ \A o \in Client : o # c => client'[o] = client[o]
      /\ client'[c].pc = "idle" /\ client'[c].doc = client[c].doc /\ client'[c].doc \in Doc
      /\ client'[c].left = {} /\ client'[c].of = {} /\ client'[c].seen = {}
      /\ client'[c].error = error
  BY <1>1, EndFields DEF Rollback
<1>3. writes' = writes
  BY DEF Rollback
<1>4. \A d \in Doc :
        /\ docs[d].by # c => docs'[d] = docs[d]
        /\ docs[d].by = c => /\ docs'[d].by = NoClient
                             /\ docs[d].state = "inserting" => docs'[d].state = "unborn"
                             /\ docs[d].state # "inserting" => docs'[d].state = "live"
  BY DEF Rollback
<1>5. chunks' = {Undone(c, r) : r \in {s \in chunks : s.ins # c}}
  BY DEF Rollback, Undone
<1>6. \A d \in Doc : docs[d].by \in Client \cup {NoClient}
  BY <1>1 DEF TypeOK
<1>7. ASSUME NEW s \in chunks'
      PROVE  \E r \in chunks : /\ r.ins # c /\ s.doc = r.doc /\ s.ordinal = r.ordinal
                               /\ s.write = r.write /\ s.of = r.of /\ s.ins = r.ins
                               /\ s.del = IF r.del = c THEN NoClient ELSE r.del
                               /\ r \in Row
  <2>1. PICK r \in chunks : r.ins # c /\ s = Undone(c, r)
    BY <1>5
  <2>2. r \in Row
    BY <1>1 DEF TypeOK
  <2>. QED
    BY <2>1, <2>2, RowFields
<1>8. ASSUME NEW r \in chunks, r.ins # c
      PROVE  \E s \in chunks' : /\ s.doc = r.doc /\ s.ordinal = r.ordinal
                                /\ s.write = r.write /\ s.of = r.of /\ s.ins = r.ins
  <2>1. Undone(c, r) \in chunks'
    BY <1>5, <1>8
  <2>2. r \in Row
    BY <1>1 DEF TypeOK
  <2>. QED
    BY <2>1, <2>2, RowFields
<1>9. TypeOK'
  <2>1. docs' \in [Doc -> [state : {"unborn", "inserting", "live", "deleting", "deleted"},
                           by : Client \cup {NoClient}]]
    BY <1>1 DEF TypeOK, Rollback
  <2>2. chunks' \subseteq Row
    BY <1>1, <1>5, RowFields DEF TypeOK
  <2>. QED
    BY <1>1, <1>2, <1>3, <2>1, <2>2 DEF TypeOK
<1>10. HoldersRun'
  BY <1>1, <1>2, <1>4, <1>6 DEF IInv, HoldersRun
<1>11. ASSUME NEW o \in Client PROVE TransactionFits(o)'
  <2>1. CASE o = c
    BY <1>1, <1>2, <2>1 DEF TransactionFits, Active
  <2>2. CASE o # c
    <3>1. TransactionFits(o) /\ client'[o] = client[o] /\ client[o].doc \in Doc
      BY <1>1, <1>2, <2>2 DEF IInv, TypeOK, Tx
    <3>2. docs[client[o].doc].by = c => docs[client[o].doc].state \in {"inserting", "deleting"}
      BY <1>1, <3>1 DEF IInv, HoldersRun
    <3>. QED
      BY <1>1, <1>3, <1>4, <2>2, <3>1, <3>2 DEF TransactionFits, Active, Known
  <2>. QED
    BY <2>1, <2>2
<1>12. TransactionsDiffer'
  BY <1>2 DEF IInv, TransactionsDiffer, Active
<1>13. ASSUME NEW s \in chunks' PROVE RowFits(s)'
  <2>1. PICK r \in chunks : /\ r.ins # c /\ s.doc = r.doc /\ s.ordinal = r.ordinal
                            /\ s.write = r.write /\ s.of = r.of /\ s.ins = r.ins
                            /\ s.del = IF r.del = c THEN NoClient ELSE r.del
                            /\ r \in Row
    BY <1>7
  <2>2. /\ RowFits(r) /\ r.doc \in Doc
        /\ r.ins \in Client \cup {NoClient} /\ r.del \in Client \cup {NoClient}
    BY <2>1, RowTypes DEF IInv
  <2>3. docs[r.doc].by = c => docs[r.doc].state \in {"inserting", "deleting"}
    BY <1>1, <2>2 DEF IInv, HoldersRun
  <2>4. s.ins # NoClient => RowInserted(s)'
    BY <1>1, <1>2, <1>4, <2>1, <2>2, <2>3 DEF RowFits, RowInserted
  <2>5. s.ins = NoClient => RowCommitted(s)'
    BY <1>1, <1>2, <1>4, <2>1, <2>2, <2>3 DEF RowFits, RowCommitted, Active, Listed
  <2>6. s.del # NoClient => RowDeleted(s)'
    BY <1>1, <1>2, <2>1, <2>2 DEF RowFits, RowDeleted
  <2>. QED
    BY <1>3, <2>1, <2>2, <2>4, <2>5, <2>6 DEF RowFits
<1>14. RowsAgree'
  <2>. SUFFICES ASSUME NEW r \in chunks', NEW s \in chunks'
                PROVE  /\ r.write = s.write => r.doc = s.doc /\ r.of = s.of
                       /\ r.ins = NoClient /\ s.ins = NoClient /\ r.doc = s.doc =>
                            r.write = s.write /\ r.del = s.del
    BY DEF RowsAgree
  <2>. QED
    BY <1>7 DEF IInv, RowsAgree
<1>15. RowsAreUnique'
  <2>. SUFFICES ASSUME NEW r \in chunks', NEW s \in chunks',
                       r.ins # NoClient, r.doc = s.doc, r.ordinal = s.ordinal
                PROVE  s.ins = r.ins \/ s.del = r.ins
    BY DEF RowsAreUnique
  <2>. QED
    BY <1>7 DEF IInv, RowsAreUnique
<1>16. CommittedWhole'
  <2>1. ASSUME NEW d \in Doc, Listed(d)' PROVE \E s \in chunks' : s.doc = d /\ s.ins = NoClient
    <3>1. Listed(d)
      BY <1>1, <1>4, <2>1 DEF Listed, IInv, HoldersRun
    <3>2. PICK r \in chunks : r.doc = d /\ r.ins = NoClient
      BY <3>1 DEF IInv, CommittedWhole
    <3>. QED
      BY <1>1, <1>8, <3>2
  <2>2. ASSUME NEW s \in chunks', s.ins = NoClient, NEW n \in s.of
        PROVE  \E t \in chunks' : t.doc = s.doc /\ t.ins = NoClient /\ t.ordinal = n
    <3>1. PICK r \in chunks : r.ins = NoClient /\ r.of = s.of /\ r.doc = s.doc
      BY <1>7, <2>2
    <3>2. PICK q \in chunks : q.doc = r.doc /\ q.ins = NoClient /\ q.ordinal = n
      BY <2>2, <3>1 DEF IInv, CommittedWhole
    <3>. QED
      BY <1>1, <1>8, <3>1, <3>2
  <2>. QED
    BY <2>1, <2>2 DEF CommittedWhole
<1>17. InsertedWhole'
  <2>. SUFFICES ASSUME NEW o \in Client, client'[o].pc = "insert",
                       NEW n \in client'[o].of \ client'[o].left
                PROVE  \E s \in chunks' : s.ins = o /\ s.ordinal = n
    BY DEF InsertedWhole
  <2>1. o # c /\ client'[o] = client[o]
    BY <1>2
  <2>2. PICK r \in chunks : r.ins = o /\ r.ordinal = n
    BY <2>1 DEF IInv, InsertedWhole
  <2>. QED
    BY <1>8, <2>1, <2>2
<1>18. ASSUME NEW o \in Client PROVE SnapshotFits(o)' /\ DeletionIsWhole(o)'
  <2>1. CASE o = c
    BY <1>2, <2>1 DEF SnapshotFits, DeletionIsWhole
  <2>2. CASE o # c
    <3>1. SnapshotFits(o) /\ DeletionIsWhole(o) /\ client'[o] = client[o] /\ client[o].doc \in Doc
      BY <1>1, <1>2, <2>2 DEF IInv, TypeOK, Tx
    <3>2. SnapshotFits(o)'
      <4>1. \A k \in client[o].seen :
               k[1] <= writes' /\ \A p \in Client : Active(p)' => client'[p].write # k[1]
        BY <1>2, <1>3, <3>1 DEF SnapshotFits, Active
      <4>2. ASSUME NEW s \in chunks', Key(s) \in client[o].seen
            PROVE  s.doc = client[o].doc /\ \A n \in s.of : <<s.write, n>> \in client[o].seen
        BY <1>7, <3>1, <4>2 DEF SnapshotFits, Key
      <4>. QED
        BY <3>1, <4>1, <4>2 DEF SnapshotFits, Key
    <3>3. docs'[client[o].doc].by = o => docs[client[o].doc].by = o
      BY <1>1, <1>4, <3>1
    <3>4. ASSUME NEW s \in chunks', s.doc = client[o].doc
          PROVE  /\ client[o].pc = "deleting" /\ docs'[client[o].doc].by = o => Key(s) \in client[o].seen
                 /\ client[o].pc = "commit" => s.del = o
      BY <1>7, <2>2, <3>1, <3>3, <3>4 DEF DeletionIsWhole, Key
    <3>. QED
      BY <3>1, <3>2, <3>4 DEF DeletionIsWhole, Key
  <2>. QED
    BY <2>1, <2>2
<1>19. OnlyDeletionIsFatal'
  <2>. SUFFICES ASSUME NEW o \in Client
                PROVE  \/ client'[o].error = "none" \/ IsRetryable(client'[o].error)
                       \/ docs'[client'[o].doc].state = "deleted"
    BY DEF OnlyDeletionIsFatal, IsRetryable
  <2>1. client'[o].doc = client[o].doc /\ client[o].doc \in Doc
    BY <1>1, <1>2 DEF TypeOK, Tx
  <2>2. docs[client[o].doc].state = "deleted" => docs'[client[o].doc].state = "deleted"
    BY <1>1, <1>4, <2>1 DEF IInv, HoldersRun
  <2>. QED
    BY <1>2, <2>1, <2>2 DEF IInv, OnlyDeletionIsFatal
<1>. QED
  BY <1>9, <1>10, <1>11, <1>12, <1>13, <1>14, <1>15, <1>16, <1>17, <1>18, <1>19 DEF IInv

-----------------------------------------------------------------------------
(* Transactions begin.                                                     *)

\* A transaction begins: no row and no document is its own yet.
LEMMA BeginningKeeps ==
    ASSUME IInv, NEW c \in Client, NEW pc \in {"insertDocument", "delete", "deleteDocument"},
           NEW d \in Doc, NEW ordinals \in SUBSET Ordinal, Begins(c, pc, d, ordinals),
           UNCHANGED <<docs, chunks>>,
           pc # "deleteDocument" => 0 \in ordinals,
           pc # "insertDocument" => Known(d),
           pc = "insertDocument" =>
               docs[d].state = "unborn" /\ \A o \in Client : ~(Inserting(o) /\ client[o].doc = d)
    PROVE  IInv'
<1>1. TypeOK /\ NoClient \notin Client /\ MaxWrites \in Nat /\ writes \in Nat
  BY DocumentStoreAssumption DEF IInv, TypeOK
<1>2. /\ client[c].pc = "idle" /\ writes' = writes + 1 /\ writes' \in 1..MaxWrites
      /\ docs' = docs /\ chunks' = chunks
  BY <1>1 DEF Begins, TypeOK
<1>3. client'[c] = [pc |-> pc, doc |-> d, write |-> writes + 1, of |-> ordinals,
                    left |-> ordinals, seen |-> {}, error |-> "none"]
      /\ \A o \in Client : o # c => client'[o] = client[o]
  BY <1>1 DEF Begins, TypeOK
<1>4. client'[c] \in Tx
  BY <1>1, <1>2, <1>3 DEF Tx
<1>5. /\ client'[c].pc = pc /\ client'[c].doc = d /\ client'[c].write = writes + 1
      /\ client'[c].of = ordinals /\ client'[c].left = ordinals
      /\ client'[c].seen = {} /\ client'[c].error = "none"
  BY <1>3
<1>6. TypeOK'
  BY <1>1, <1>2, <1>3, <1>4 DEF TypeOK, Begins
<1>7. \A e \in Doc : docs[e].by # c
  BY <1>1, <1>2 DEF IInv, HoldersRun
<1>8. \A r \in chunks : r.ins # c /\ r.del # c
  BY <1>1, <1>2 DEF IInv, RowFits, RowInserted, RowDeleted
<1>9. \A o \in Client : Active(o) => client[o].write \in 1..writes
  BY DEF IInv, TransactionFits
<1>10. HoldersRun'
  BY <1>1, <1>2, <1>3, <1>7 DEF IInv, HoldersRun, TypeOK
<1>11. ASSUME NEW o \in Client PROVE TransactionFits(o)'
  <2>1. CASE o = c
    BY <1>1, <1>2, <1>5, <2>1 DEF TransactionFits, Active, Known
  <2>2. CASE o # c
    <3>1. TransactionFits(o) /\ client'[o] = client[o]
      BY <1>3, <2>2 DEF IInv
    <3>2. Active(o) => client[o].write \in 1..writes'
      BY <1>1, <1>2, <1>9
    <3>. QED
      BY <1>2, <3>1, <3>2 DEF TransactionFits, Active, Known
  <2>. QED
    BY <2>1, <2>2
<1>12. TransactionsDiffer'
  <2>. SUFFICES ASSUME NEW o \in Client, NEW p \in Client, o # p, Active(o)', Active(p)'
                PROVE  /\ client'[o].write # client'[p].write
                       /\ client'[o].pc = "insertDocument" /\ client'[p].pc = "insertDocument" =>
                            client'[o].doc # client'[p].doc
    BY DEF TransactionsDiffer, Active
  <2>1. CASE o # c /\ p # c
    BY <1>3, <2>1 DEF IInv, TransactionsDiffer, Active
  <2>2. \A q \in Client : q # c /\ Active(q)' =>
            /\ client'[q].write # client'[c].write
            /\ client'[q].pc = "insertDocument" /\ client'[c].pc = "insertDocument" =>
                 client'[q].doc # client'[c].doc
    BY <1>1, <1>3, <1>5, <1>9 DEF Active, Inserting
  <2>. QED
    BY <2>1, <2>2
<1>13. ASSUME NEW r \in chunks PROVE RowFits(r)'
  <2>1. RowFits(r) /\ r \in Row
    BY <1>1 DEF IInv, TypeOK
  <2>2. /\ r.write \in Nat
        /\ r.ins \in Client \cup {NoClient} /\ r.del \in Client \cup {NoClient}
    BY <1>1, <2>1, RowTypes
  <2>3. r.ins # NoClient => RowInserted(r)'
    BY <1>2, <1>3, <1>8, <2>1, <2>2 DEF RowFits, RowInserted
  <2>4. r.ins = NoClient => RowCommitted(r)'
    <3>1. r.ins = NoClient => Listed(r.doc)' /\ client'[c].write # r.write
      BY <1>1, <1>2, <1>5, <2>1, <2>2 DEF RowFits, RowCommitted, Listed
    <3>. QED
      BY <1>3, <2>1, <3>1 DEF RowFits, RowCommitted, Active
  <2>5. r.del # NoClient => RowDeleted(r)'
    BY <1>2, <1>3, <1>8, <2>1, <2>2 DEF RowFits, RowDeleted
  <2>6. r.write <= writes' /\ r.ordinal \in r.of /\ 0 \in r.of
    BY <1>1, <1>2, <2>1, <2>2 DEF RowFits
  <2>. QED
    BY <2>3, <2>4, <2>5, <2>6 DEF RowFits
<1>14. RowsAgree' /\ RowsAreUnique' /\ CommittedWhole'
  BY <1>2 DEF IInv, RowsAgree, RowsAreUnique, CommittedWhole, Listed
<1>15. InsertedWhole'
  BY <1>2, <1>3, <1>5 DEF IInv, InsertedWhole
<1>16. ASSUME NEW o \in Client PROVE SnapshotFits(o)' /\ DeletionIsWhole(o)'
  <2>1. CASE o = c
    BY <1>5, <2>1 DEF SnapshotFits, DeletionIsWhole
  <2>2. CASE o # c
    <3>1. SnapshotFits(o) /\ DeletionIsWhole(o) /\ client'[o] = client[o]
      BY <1>3, <2>2 DEF IInv
    <3>2. ASSUME NEW k \in client[o].seen
          PROVE  k[1] <= writes' /\ \A p \in Client : Active(p)' => client'[p].write # k[1]
      <4>1. k[1] \in Nat
        BY <1>1 DEF TypeOK, Tx
      <4>2. k[1] <= writes /\ \A p \in Client : Active(p) => client[p].write # k[1]
        BY <3>1 DEF SnapshotFits
      <4>. QED
        BY <1>1, <1>2, <1>3, <1>5, <4>1, <4>2 DEF Active
    <3>3. SnapshotFits(o)'
      BY <1>2, <3>1, <3>2 DEF SnapshotFits, Key
    <3>. QED
      BY <1>2, <3>1, <3>3 DEF DeletionIsWhole, Key
  <2>. QED
    BY <2>1, <2>2
<1>17. OnlyDeletionIsFatal'
  BY <1>2, <1>3, <1>5 DEF IInv, OnlyDeletionIsFatal
<1>. QED
  BY <1>2, <1>6, <1>10, <1>11, <1>12, <1>13, <1>14, <1>15, <1>16, <1>17 DEF IInv

\* Of a document that was there, readers see nothing only once it is deleted.
LEMMA SeenIsListed ==
    ASSUME IInv, NEW d \in Doc
    PROVE  /\ Committed(d) = {} /\ Known(d) => docs[d].state = "deleted"
           /\ Committed(d) # {} => Listed(d) /\ 0 \in {r.ordinal : r \in Committed(d)}
           /\ {r.ordinal : r \in Committed(d)} \in SUBSET Ordinal
<1>1. Listed(d) => \E r \in chunks : r.doc = d /\ r.ins = NoClient
  BY DEF IInv, CommittedWhole
<1>2. Committed(d) = {} /\ Known(d) => docs[d].state = "deleted"
  BY <1>1 DEF Committed, Known, Listed
<1>3. ASSUME NEW r \in Committed(d)
      PROVE  Listed(d) /\ 0 \in {s.ordinal : s \in Committed(d)} /\ r.ordinal \in Ordinal
  <2>1. r \in chunks /\ r.doc = d /\ r.ins = NoClient /\ r \in Row
    BY DEF Committed, IInv, TypeOK
  <2>2. Listed(d) /\ 0 \in r.of
    BY <2>1 DEF IInv, RowFits, RowCommitted
  <2>3. PICK s \in chunks : s.doc = d /\ s.ins = NoClient /\ s.ordinal = 0
    BY <2>1, <2>2 DEF IInv, CommittedWhole
  <2>. QED
    BY <2>1, <2>2, <2>3, RowTypes DEF Committed
<1>. QED
  BY <1>2, <1>3

\* A client without rows and documents of its own stays or becomes idle.
LEMMA IdlingKeeps ==
    ASSUME IInv, NEW c \in Client, client[c].pc \in {"idle", "deleteDocument"},
           NEW d \in Doc, NEW error \in Errors, client' = [client EXCEPT ![c] = Idle(d, error)],
           writes' \in {writes, writes + 1}, writes' <= MaxWrites, UNCHANGED <<docs, chunks>>,
           error = "none" \/ docs[d].state = "deleted"
    PROVE  IInv'
<1>1. TypeOK /\ NoClient \notin Client /\ MaxWrites \in Nat /\ writes \in Nat
  BY DocumentStoreAssumption DEF IInv, TypeOK
<1>2. docs' = docs /\ chunks' = chunks /\ writes <= writes' /\ writes' \in 0..MaxWrites
  BY <1>1
<1>3. client'[c] = Idle(d, error) /\ \A o \in Client : o # c => client'[o] = client[o]
  BY <1>1 DEF TypeOK
<1>4. Idle(d, error) \in Tx
  BY <1>1 DEF Idle, Tx, Errors
<1>5. /\ client'[c].pc = "idle" /\ client'[c].doc = d /\ client'[c].left = {}
      /\ client'[c].seen = {} /\ client'[c].error = error
  BY <1>3 DEF Idle
<1>6. TypeOK'
  BY <1>1, <1>2, <1>3, <1>4 DEF TypeOK
<1>7. \A e \in Doc : docs[e].by # c
  BY <1>1 DEF IInv, HoldersRun
<1>8. \A r \in chunks : r.ins # c /\ r.del # c
  BY <1>1 DEF IInv, RowFits, RowInserted, RowDeleted
<1>9. HoldersRun'
  BY <1>1, <1>2, <1>3, <1>7 DEF IInv, HoldersRun, TypeOK
<1>10. ASSUME NEW o \in Client PROVE TransactionFits(o)'
  <2>1. CASE o = c
    BY <1>5, <2>1 DEF TransactionFits, Active
  <2>2. CASE o # c
    <3>1. TransactionFits(o) /\ client'[o] = client[o]
      BY <1>3, <2>2 DEF IInv
    <3>2. Active(o) => client[o].write \in 1..writes'
      BY <1>1, <1>2, <3>1 DEF TransactionFits
    <3>. QED
      BY <1>2, <3>1, <3>2 DEF TransactionFits, Active, Known
  <2>. QED
    BY <2>1, <2>2
<1>11. TransactionsDiffer'
  BY <1>3, <1>5 DEF IInv, TransactionsDiffer, Active
<1>12. ASSUME NEW r \in chunks PROVE RowFits(r)'
  <2>1. RowFits(r) /\ r \in Row
    BY <1>1 DEF IInv, TypeOK
  <2>2. /\ r.write \in Nat
        /\ r.ins \in Client \cup {NoClient} /\ r.del \in Client \cup {NoClient}
    BY <1>1, <2>1, RowTypes
  <2>3. r.ins # NoClient => RowInserted(r)'
    BY <1>2, <1>3, <1>8, <2>1, <2>2 DEF RowFits, RowInserted
  <2>4. r.ins = NoClient => RowCommitted(r)'
    BY <1>2, <1>3, <1>5, <2>1 DEF RowFits, RowCommitted, Active, Listed
  <2>5. r.del # NoClient => RowDeleted(r)'
    BY <1>2, <1>3, <1>8, <2>1, <2>2 DEF RowFits, RowDeleted
  <2>6. r.write <= writes' /\ r.ordinal \in r.of /\ 0 \in r.of
    BY <1>1, <1>2, <2>1, <2>2 DEF RowFits
  <2>. QED
    BY <2>3, <2>4, <2>5, <2>6 DEF RowFits
<1>13. RowsAgree' /\ RowsAreUnique' /\ CommittedWhole'
  BY <1>2 DEF IInv, RowsAgree, RowsAreUnique, CommittedWhole, Listed
<1>14. InsertedWhole'
  BY <1>2, <1>3, <1>5 DEF IInv, InsertedWhole
<1>15. ASSUME NEW o \in Client PROVE SnapshotFits(o)' /\ DeletionIsWhole(o)'
  <2>1. CASE o = c
    BY <1>5, <2>1 DEF SnapshotFits, DeletionIsWhole
  <2>2. CASE o # c
    <3>1. SnapshotFits(o) /\ DeletionIsWhole(o) /\ client'[o] = client[o]
      BY <1>3, <2>2 DEF IInv
    <3>2. ASSUME NEW k \in client[o].seen
          PROVE  k[1] <= writes' /\ \A p \in Client : Active(p)' => client'[p].write # k[1]
      <4>1. k[1] \in Nat
        BY <1>1 DEF TypeOK, Tx
      <4>2. k[1] <= writes /\ \A p \in Client : Active(p) => client[p].write # k[1]
        BY <3>1 DEF SnapshotFits
      <4>. QED
        BY <1>1, <1>2, <1>3, <1>5, <4>1, <4>2 DEF Active
    <3>3. SnapshotFits(o)'
      BY <1>2, <3>1, <3>2 DEF SnapshotFits, Key
    <3>. QED
      BY <1>2, <3>1, <3>3 DEF DeletionIsWhole, Key
  <2>. QED
    BY <2>1, <2>2
<1>16. OnlyDeletionIsFatal'
  BY <1>2, <1>3, <1>5 DEF IInv, OnlyDeletionIsFatal
<1>. QED
  BY <1>2, <1>6, <1>9, <1>10, <1>11, <1>12, <1>13, <1>14, <1>15, <1>16 DEF IInv

\* All ways to begin one.
LEMMA BeginKeeps ==
    ASSUME IInv, NEW c \in Client, Begin(c)
    PROVE  IInv'
<1>1. MaxChunks \in Nat \ {0} /\ MaxWrites \in Nat
  BY DocumentStoreAssumption
<1>2. PICK d \in Doc : \/ \E n \in 1..MaxChunks : IndexDocument(c, d, n) \/ ReindexDocument(c, d, n)
                       \/ ReindexStoredChunks(c, d) \/ NoStoredChunks(c, d) \/ DeleteDocument(c, d)
  BY DEF Begin
<1>3. \A n \in 1..MaxChunks : Ordinals(n) \in SUBSET Ordinal /\ 0 \in Ordinals(n)
  BY <1>1 DEF Ordinals, Ordinal
<1>4. CASE \E n \in 1..MaxChunks : IndexDocument(c, d, n)
  <2>1. PICK n \in 1..MaxChunks : IndexDocument(c, d, n)
    BY <1>4
  <2>2. Begins(c, "insertDocument", d, Ordinals(n)) /\ UNCHANGED <<docs, chunks>>
        /\ docs[d].state = "unborn" /\ \A o \in Client : ~(Inserting(o) /\ client[o].doc = d)
    BY <2>1 DEF IndexDocument
  <2>. QED
    BY <1>3, <2>2, BeginningKeeps
<1>5. CASE \E n \in 1..MaxChunks : ReindexDocument(c, d, n)
  <2>1. PICK n \in 1..MaxChunks : ReindexDocument(c, d, n)
    BY <1>5
  <2>2. Begins(c, "delete", d, Ordinals(n)) /\ UNCHANGED <<docs, chunks>> /\ Known(d)
    BY <2>1 DEF ReindexDocument
  <2>. QED
    BY <1>3, <2>2, BeginningKeeps
<1>6. CASE ReindexStoredChunks(c, d)
  <2>1. /\ Begins(c, "delete", d, {r.ordinal : r \in Committed(d)}) /\ UNCHANGED <<docs, chunks>>
        /\ Known(d) /\ Committed(d) # {}
    BY <1>6 DEF ReindexStoredChunks
  <2>. QED
    BY <2>1, SeenIsListed, BeginningKeeps
<1>7. CASE DeleteDocument(c, d)
  <2>1. Begins(c, "deleteDocument", d, {}) /\ UNCHANGED <<docs, chunks>> /\ Known(d)
    BY <1>7 DEF DeleteDocument
  <2>. QED
    BY <2>1, BeginningKeeps
<1>8. CASE NoStoredChunks(c, d)
  <2>1. TypeOK /\ NoClient \notin Client
    BY DocumentStoreAssumption DEF IInv
  <2>2. /\ client[c].pc = "idle" /\ client' = [client EXCEPT ![c] = Idle(d, "noChunks")]
        /\ writes' = writes + 1 /\ writes < MaxWrites /\ docs' = docs /\ chunks' = chunks
        /\ docs[d].state = "deleted"
    BY <1>8, SeenIsListed DEF NoStoredChunks
  <2>3. writes \in Nat /\ writes + 1 <= MaxWrites
    BY <1>1, <2>1, <2>2 DEF TypeOK
  <2>. QED
    BY <2>2, <2>3, IdlingKeeps DEF Errors
<1>. QED
  BY <1>2, <1>4, <1>5, <1>6, <1>7, <1>8

-----------------------------------------------------------------------------
(* Statements.                                                             *)

\* No other transaction holds what a statement at work needs.
LEMMA Alone ==
    ASSUME IInv, NEW c \in Client, NEW pc, At(c, pc)
    PROVE  /\ client[c].pc = pc
           /\ pc = "insertDocument" => \A e \in Doc : docs[e].by \in {c, NoClient}
           /\ pc = "deleting" => \A r \in chunks : Key(r) \in client[c].seen => r.del \in {c, NoClient}
           /\ pc \in {"insert", "deleteDocument"} => docs[client[c].doc].by \in {c, NoClient}
           /\ pc = "deleteDocument" =>
                \A r \in chunks : r.doc = client[c].doc => r.ins \in {c, NoClient}
<1>1. client[c].pc = pc /\ WaitsFor(c) = {}
  BY DEF At
<1>2. CASE pc = "insertDocument"
  BY <1>1, <1>2 DEF WaitsFor
<1>3. CASE pc = "deleting"
  BY <1>1, <1>3 DEF WaitsFor, Matched
<1>4. CASE pc = "insert"
  BY <1>1, <1>4 DEF WaitsFor
<1>5. CASE pc = "deleteDocument"
  BY <1>1, <1>5 DEF WaitsFor
<1>. QED
  BY <1>1, <1>2, <1>3, <1>4, <1>5

\* INSERT INTO documents: nothing is known of the document yet.
LEMMA InsertDocumentKeeps ==
    ASSUME IInv, NEW c \in Client, InsertDocument(c)
    PROVE  IInv'
<1>1. TypeOK /\ NoClient \notin Client
  BY DocumentStoreAssumption DEF IInv
<1>. DEFINE d == client[c].doc
<1>2. /\ At(c, "insertDocument")
      /\ \/ Rollback(c, "unique")
         \/ /\ docs' = [docs EXCEPT ![d] = [state |-> "inserting", by |-> c]]
            /\ GoTo(c, "insert") /\ UNCHANGED <<chunks, writes>>
  BY DEF InsertDocument
<1>3. client[c].pc = "insertDocument" /\ \A e \in Doc : docs[e].by \in {c, NoClient}
  BY <1>2, Alone
<1>4. CASE Rollback(c, "unique")
  BY <1>4, RollbackKeeps DEF IsRetryable, Errors
<1>5. CASE /\ docs' = [docs EXCEPT ![d] = [state |-> "inserting", by |-> c]]
           /\ GoTo(c, "insert") /\ UNCHANGED <<chunks, writes>>
  <2>1. /\ client' = [client EXCEPT ![c].pc = "insert"] /\ chunks' = chunks /\ writes' = writes
        /\ d \in Doc /\ client[c] \in Tx
    BY <1>1, <1>5 DEF GoTo, TypeOK, Tx
  <2>2. /\ client'[c].pc = "insert" /\ client'[c].doc = d /\ client'[c].write = client[c].write
        /\ client'[c].of = client[c].of /\ client'[c].left = client[c].left
        /\ client'[c].seen = client[c].seen /\ client'[c].error = client[c].error
        /\ client'[c] \in Tx
        /\ \A o \in Client : o # c => client'[o] = client[o]
    BY <1>1, <2>1 DEF TypeOK, Tx
  <2>3. /\ docs'[d].state = "inserting" /\ docs'[d].by = c
        /\ \A e \in Doc : e # d => docs'[e] = docs[e]
    BY <1>1, <1>5, <2>1 DEF TypeOK
  <2>4. \A e \in Doc : docs[e].by = NoClient
    BY <1>1, <1>3 DEF IInv, HoldersRun
  <2>5. /\ docs[d].state = "unborn" /\ 0 \in client[c].of /\ client[c].left = client[c].of
        /\ TransactionFits(c)
    BY <1>3 DEF IInv, TransactionFits
  <2>6. ASSUME NEW r \in chunks PROVE r.doc # d
    <3>1. RowFits(r) /\ r.ins \in Client \cup {NoClient}
      BY <1>1, RowTypes DEF IInv, TypeOK
    <3>2. r.ins = NoClient => docs[r.doc].state \in {"live", "deleting"}
      BY <3>1 DEF RowFits, RowCommitted, Listed
    <3>3. r.ins # NoClient => docs[r.doc].by = r.ins \/ docs[r.doc].state = "live"
      BY <3>1 DEF RowFits, RowInserted
    <3>. QED
      BY <2>1, <2>4, <2>5, <3>2, <3>3
  <2>7. TypeOK'
    BY <1>1, <1>5, <2>1, <2>2 DEF TypeOK
  <2>8. HoldersRun'
    BY <1>1, <2>2, <2>3, <2>4 DEF IInv, HoldersRun
  <2>9. ASSUME NEW o \in Client PROVE TransactionFits(o)'
    <3>1. CASE o = c
      BY <1>1, <1>3, <2>1, <2>2, <2>3, <2>5, <3>1 DEF TransactionFits, Active
    <3>2. CASE o # c
      <4>1. TransactionFits(o) /\ client'[o] = client[o] /\ client[o].doc \in Doc
        BY <1>1, <2>2, <3>2 DEF IInv, TypeOK, Tx
      <4>2. CASE client[o].doc = d
        <5>1. client[o].pc # "insertDocument"
          BY <1>3, <3>2, <4>2 DEF IInv, TransactionsDiffer, Active
        <5>. QED
          BY <1>1, <2>1, <2>3, <2>4, <2>5, <3>2, <4>1, <4>2, <5>1 DEF TransactionFits, Active, Known
      <4>3. CASE client[o].doc # d
        BY <2>1, <2>3, <4>1, <4>3 DEF TransactionFits, Active, Known
      <4>. QED
        BY <4>2, <4>3
    <3>. QED
      BY <3>1, <3>2
  <2>10. TransactionsDiffer'
    BY <1>3, <2>2 DEF IInv, TransactionsDiffer, Active
  <2>11. ASSUME NEW r \in chunks PROVE RowFits(r)'
    <3>1. RowFits(r) /\ r.doc \in Doc /\ docs'[r.doc] = docs[r.doc] /\ r.doc # d
          /\ r.ins \in Client \cup {NoClient} /\ r.del \in Client \cup {NoClient}
      BY <1>1, <2>3, <2>6, RowTypes DEF IInv, TypeOK
    <3>2. r.ins # NoClient => RowInserted(r)'
      BY <1>3, <2>2, <3>1 DEF RowFits, RowInserted
    <3>3. r.ins = NoClient => RowCommitted(r)'
      BY <1>3, <2>2, <3>1 DEF RowFits, RowCommitted, Active, Listed
    <3>4. r.del # NoClient => RowDeleted(r)'
      BY <1>3, <2>2, <3>1 DEF RowFits, RowDeleted
    <3>. QED
      BY <2>1, <3>1, <3>2, <3>3, <3>4 DEF RowFits
  <2>12. RowsAgree' /\ RowsAreUnique' /\ CommittedWhole'
    <3>1. \A e \in Doc : Listed(e)' => Listed(e)
      BY <2>3 DEF Listed
    <3>. QED
      BY <2>1, <3>1 DEF IInv, RowsAgree, RowsAreUnique, CommittedWhole
  <2>13. InsertedWhole'
    BY <2>1, <2>2, <2>5 DEF IInv, InsertedWhole
  <2>14. ASSUME NEW o \in Client PROVE SnapshotFits(o)' /\ DeletionIsWhole(o)'
    <3>1. SnapshotFits(o) /\ DeletionIsWhole(o) /\ TransactionFits(o) /\ client[o].doc \in Doc
          /\ client'[o].seen = client[o].seen /\ client'[o].doc = client[o].doc
          /\ (o # c => client'[o].pc = client[o].pc)
      BY <1>1, <2>2 DEF IInv, TypeOK, Tx
    <3>2. SnapshotFits(o)'
      BY <1>3, <2>1, <2>2, <3>1 DEF SnapshotFits, Key, Active
    <3>3. DeletionIsWhole(o)'
      BY <2>1, <2>2, <2>3, <2>6, <3>1 DEF DeletionIsWhole, Key
    <3>. QED
      BY <3>2, <3>3
  <2>15. OnlyDeletionIsFatal'
    <3>1. \A o \in Client : /\ client'[o].doc = client[o].doc /\ client'[o].error = client[o].error
                            /\ client[o].doc \in Doc
      BY <1>1, <2>2 DEF TypeOK, Tx
    <3>. QED
      BY <2>3, <2>5, <3>1 DEF IInv, OnlyDeletionIsFatal
  <2>. QED
    BY <2>1, <2>7, <2>8, <2>9, <2>10, <2>11, <2>12, <2>13, <2>14, <2>15 DEF IInv
<1>. QED
  BY <1>2, <1>4, <1>5

\* A snapshot taken now holds all that is committed of the document, and nothing else.
LEMMA SnapshotIsWhole ==
    ASSUME IInv, NEW d \in Doc
    PROVE  /\ \A k \in {Key(s) : s \in Committed(d)} :
                k[1] <= writes /\ \A o \in Client : Active(o) => client[o].write # k[1]
           /\ \A r \in chunks : Key(r) \in {Key(s) : s \in Committed(d)} =>
                r.doc = d /\ \A n \in r.of : <<r.write, n>> \in {Key(s) : s \in Committed(d)}
<1>1. ASSUME NEW s \in Committed(d)
      PROVE  /\ s \in chunks /\ s.doc = d /\ s.ins = NoClient /\ s.write <= writes
             /\ \A o \in Client : Active(o) => client[o].write # s.write
  BY DEF IInv, Committed, RowFits, RowCommitted
<1>2. \A k \in {Key(s) : s \in Committed(d)} :
         k[1] <= writes /\ \A o \in Client : Active(o) => client[o].write # k[1]
  BY <1>1 DEF Key
<1>3. ASSUME NEW r \in chunks, Key(r) \in {Key(s) : s \in Committed(d)}
      PROVE  r.doc = d /\ \A n \in r.of : <<r.write, n>> \in {Key(s) : s \in Committed(d)}
  <2>1. PICK s \in Committed(d) : Key(r) = Key(s)
    BY <1>3
  <2>2. s \in chunks /\ s.doc = d /\ s.ins = NoClient /\ s.write = r.write
    BY <1>1, <2>1 DEF Key
  <2>3. r.doc = d /\ r.of = s.of
    BY <2>2 DEF IInv, RowsAgree
  <2>4. ASSUME NEW n \in r.of PROVE <<r.write, n>> \in {Key(t) : t \in Committed(d)}
    <3>1. PICK t \in chunks : t.doc = d /\ t.ins = NoClient /\ t.ordinal = n
      BY <2>2, <2>3 DEF IInv, CommittedWhole
    <3>2. t.write = r.write /\ t \in Committed(d)
      BY <2>2, <3>1 DEF IInv, RowsAgree, Committed
    <3>. QED
      BY <3>1, <3>2 DEF Key
  <2>. QED
    BY <2>3, <2>4
<1>. QED
  BY <1>2, <1>3

\* DELETE FROM chunks takes its snapshot.
LEMMA DeleteBeginsKeeps ==
    ASSUME IInv, NEW c \in Client, DeleteBegins(c)
    PROVE  IInv'
<1>1. TypeOK /\ NoClient \notin Client
  BY DocumentStoreAssumption DEF IInv
<1>. DEFINE d    == client[c].doc
            seen == {Key(r) : r \in Committed(d)}
<1>2. /\ client[c].pc = "delete" /\ docs' = docs /\ chunks' = chunks /\ writes' = writes
      /\ d \in Doc /\ client[c] \in Tx
  BY <1>1, Alone DEF DeleteBegins, TypeOK, Tx
<1>3. client' = [client EXCEPT ![c].pc = "deleting", ![c].seen = seen]
  BY DEF DeleteBegins
<1>4. seen \in SUBSET ((1..MaxWrites) \X Ordinal)
  BY <1>1, RowTypes DEF TypeOK, Committed, Key
<1>5. /\ client'[c].pc = "deleting" /\ client'[c].doc = d /\ client'[c].write = client[c].write
      /\ client'[c].of = client[c].of /\ client'[c].left = client[c].left
      /\ client'[c].error = client[c].error
      /\ client'[c] \in Tx /\ client' \in [Client -> Tx]
      /\ \A o \in Client : o # c => client'[o] = client[o]
  BY <1>1, <1>2, <1>4, <1>3 DEF TypeOK, Tx
<1>6. client'[c].seen = seen
  BY <1>1, <1>2, <1>3 DEF TypeOK, Tx
<1>7. \A e \in Doc : docs[e].by # c
  BY <1>1, <1>2 DEF IInv, HoldersRun
<1>8. \A r \in chunks : r.ins # c /\ r.del # c
  BY <1>1, <1>2 DEF IInv, RowFits, RowInserted, RowDeleted
<1>9. TypeOK'
  BY <1>1, <1>2, <1>5 DEF TypeOK
<1>10. HoldersRun'
  BY <1>1, <1>2, <1>5, <1>7 DEF IInv, HoldersRun, TypeOK
<1>11. ASSUME NEW o \in Client PROVE TransactionFits(o)'
  <2>1. TransactionFits(o) /\ (o # c => client'[o] = client[o])
    BY <1>5 DEF IInv
  <2>2. CASE o = c
    BY <1>2, <1>5, <2>1, <2>2 DEF TransactionFits, Active, Known
  <2>3. CASE o # c
    BY <1>2, <2>1, <2>3 DEF TransactionFits, Active, Known
  <2>. QED
    BY <2>2, <2>3
<1>12. TransactionsDiffer'
  BY <1>2, <1>5 DEF IInv, TransactionsDiffer, Active
<1>13. \A o \in Client : (Active(o)' <=> Active(o)) /\ client'[o].write = client[o].write
  BY <1>2, <1>5 DEF Active
<1>14. ASSUME NEW r \in chunks PROVE RowFits(r)'
  <2>1. RowFits(r) /\ r.ins \in Client \cup {NoClient} /\ r.del \in Client \cup {NoClient}
    BY <1>1, RowTypes DEF IInv, TypeOK
  <2>2. r.ins # NoClient => RowInserted(r)'
    BY <1>2, <1>5, <1>8, <2>1 DEF RowFits, RowInserted
  <2>3. r.ins = NoClient => RowCommitted(r)'
    BY <1>2, <1>13, <2>1 DEF RowFits, RowCommitted, Listed
  <2>4. r.del # NoClient => RowDeleted(r)'
    BY <1>5, <1>8, <2>1 DEF RowFits, RowDeleted
  <2>. QED
    BY <1>2, <2>1, <2>2, <2>3, <2>4 DEF RowFits
<1>15. RowsAgree' /\ RowsAreUnique' /\ CommittedWhole'
  BY <1>2 DEF IInv, RowsAgree, RowsAreUnique, CommittedWhole, Listed
<1>16. InsertedWhole'
  BY <1>2, <1>5 DEF IInv, InsertedWhole
<1>17. ASSUME NEW o \in Client PROVE SnapshotFits(o)'
  <2>1. CASE o = c
    <3>1. \A k \in seen :
             k[1] <= writes' /\ \A p \in Client : Active(p)' => client'[p].write # k[1]
      BY <1>2, <1>13, SnapshotIsWhole
    <3>2. \A r \in chunks' : Key(r) \in seen =>
             r.doc = client'[c].doc /\ \A n \in r.of : <<r.write, n>> \in seen
      BY <1>2, <1>5, SnapshotIsWhole
    <3>. QED
      BY <1>6, <2>1, <3>1, <3>2 DEF SnapshotFits, Key
  <2>2. CASE o # c
    <3>1. SnapshotFits(o) /\ client'[o] = client[o]
      BY <1>5, <2>2 DEF IInv
    <3>. QED
      BY <1>2, <1>13, <3>1 DEF SnapshotFits, Key
  <2>. QED
    BY <2>1, <2>2
<1>18. ASSUME NEW o \in Client PROVE DeletionIsWhole(o)'
  <2>1. DeletionIsWhole(o) /\ (o # c => client'[o] = client[o])
    BY <1>5 DEF IInv
  <2>2. CASE o = c
    BY <1>2, <1>5, <1>7, <2>2 DEF DeletionIsWhole
  <2>3. CASE o # c
    BY <1>2, <2>1, <2>3 DEF DeletionIsWhole, Key
  <2>. QED
    BY <2>2, <2>3
<1>19. OnlyDeletionIsFatal'
  BY <1>2, <1>5 DEF IInv, OnlyDeletionIsFatal
<1>. QED
  BY <1>2, <1>9, <1>10, <1>11, <1>12, <1>14, <1>15, <1>16, <1>17, <1>18, <1>19 DEF IInv

\* DELETE FROM documents: all of its chunks are committed, and in the snapshot.
LEMMA LockDocumentKeeps ==
    ASSUME IInv, NEW c \in Client, LockDocument(c)
    PROVE  IInv'
<1>1. TypeOK /\ NoClient \notin Client /\ MaxWrites \in Nat /\ writes \in 0..MaxWrites
  BY DocumentStoreAssumption DEF IInv, TypeOK
<1>. DEFINE d    == client[c].doc
            seen == {Key(r) : r \in Committed(d)}
<1>2. /\ client[c].pc = "deleteDocument" /\ chunks' = chunks /\ writes' = writes
      /\ docs[d].by \in {c, NoClient} /\ d \in Doc /\ client[c] \in Tx
      /\ \A r \in chunks : r.doc = d => r.ins \in {c, NoClient}
  BY <1>1, Alone DEF LockDocument, TypeOK, Tx
<1>3. CASE docs[d].state = "deleted"
  <2>1. client' = [client EXCEPT ![c] = Idle(d, "none")] /\ docs' = docs
    BY <1>1, <1>3 DEF LockDocument, Ends, TypeOK
  <2>2. /\ "none" \in Errors /\ writes' \in {writes, writes + 1} /\ writes' <= MaxWrites
        /\ UNCHANGED <<docs, chunks>>
    BY <1>1, <1>2, <2>1 DEF Errors
  <2>. QED
    BY <1>2, <2>1, <2>2, IdlingKeeps
<1>4. CASE docs[d].state # "deleted"
  <2>1. /\ docs' = [docs EXCEPT ![d] = [state |-> "deleting", by |-> c]]
        /\ client' = [client EXCEPT ![c].pc = "deleting", ![c].seen = seen]
    BY <1>4 DEF LockDocument
  <2>2. seen \in SUBSET ((1..MaxWrites) \X Ordinal)
    BY <1>1, RowTypes DEF TypeOK, Committed, Key
  <2>3. /\ client'[c].pc = "deleting" /\ client'[c].doc = d /\ client'[c].write = client[c].write
        /\ client'[c].of = client[c].of /\ client'[c].left = client[c].left
        /\ client'[c].error = client[c].error
        /\ client'[c] \in Tx
        /\ \A o \in Client : o # c => client'[o] = client[o]
    BY <1>1, <1>2, <2>1, <2>2 DEF TypeOK, Tx
  <2>4. client'[c].seen = seen
    BY <1>1, <1>2, <2>1 DEF TypeOK, Tx
  <2>5. /\ docs'[d].state = "deleting" /\ docs'[d].by = c
        /\ \A e \in Doc : e # d => docs'[e] = docs[e]
    BY <1>1, <1>2, <2>1 DEF TypeOK
  <2>6. \A e \in Doc : docs[e].by # c
    BY <1>1, <1>2 DEF IInv, HoldersRun
  <2>7. docs[d].by = NoClient /\ docs[d].state = "live" /\ TransactionFits(c)
    BY <1>1, <1>2, <1>4, <2>6 DEF IInv, HoldersRun, TransactionFits, Known
  <2>8. ASSUME NEW r \in chunks
        PROVE  r.ins # c /\ r.del # c /\ (r.doc = d => r.ins = NoClient)
    BY <1>1, <1>2 DEF IInv, RowFits, RowInserted, RowDeleted
  <2>9. TypeOK'
    BY <1>1, <1>2, <2>1, <2>3 DEF TypeOK
  <2>10. HoldersRun'
    BY <1>1, <2>3, <2>5, <2>6, <2>7 DEF IInv, HoldersRun, TypeOK
  <2>11. ASSUME NEW o \in Client PROVE TransactionFits(o)'
    <3>1. CASE o = c
      BY <1>1, <1>2, <2>3, <2>5, <2>7, <3>1 DEF TransactionFits, Active, Known
    <3>2. CASE o # c
      <4>1. TransactionFits(o) /\ client'[o] = client[o] /\ client[o].doc \in Doc
        BY <1>1, <2>3, <3>2 DEF IInv, TypeOK, Tx
      <4>2. CASE client[o].doc = d
        BY <1>1, <1>2, <2>5, <2>7, <3>2, <4>1, <4>2 DEF TransactionFits, Active, Known
      <4>3. CASE client[o].doc # d
        BY <1>2, <2>5, <4>1, <4>3 DEF TransactionFits, Active, Known
      <4>. QED
        BY <4>2, <4>3
    <3>. QED
      BY <3>1, <3>2
  <2>12. TransactionsDiffer'
    BY <1>2, <2>3 DEF IInv, TransactionsDiffer, Active
  <2>13. \A o \in Client : (Active(o)' <=> Active(o)) /\ client'[o].write = client[o].write
    BY <1>2, <2>3 DEF Active
  <2>14. \A e \in Doc : Listed(e)' <=> Listed(e)
    BY <2>5, <2>7 DEF Listed
  <2>15. ASSUME NEW r \in chunks PROVE RowFits(r)'
    <3>1. RowFits(r) /\ r.ins \in Client \cup {NoClient} /\ r.del \in Client \cup {NoClient}
          /\ r.doc \in Doc
      BY <1>1, RowTypes DEF IInv, TypeOK
    <3>2. r.ins # NoClient => RowInserted(r)'
      BY <2>3, <2>5, <2>8, <3>1 DEF RowFits, RowInserted
    <3>3. r.ins = NoClient => RowCommitted(r)'
      BY <2>13, <2>14, <3>1 DEF RowFits, RowCommitted
    <3>4. r.del # NoClient => RowDeleted(r)'
      BY <2>3, <2>8, <3>1 DEF RowFits, RowDeleted
    <3>. QED
      BY <1>2, <3>1, <3>2, <3>3, <3>4 DEF RowFits
  <2>16. RowsAgree' /\ RowsAreUnique' /\ CommittedWhole'
    BY <1>2, <2>14 DEF IInv, RowsAgree, RowsAreUnique, CommittedWhole
  <2>17. InsertedWhole'
    BY <1>2, <2>3 DEF IInv, InsertedWhole
  <2>18. ASSUME NEW o \in Client PROVE SnapshotFits(o)'
    <3>1. CASE o = c
      <4>1. \A k \in seen :
               k[1] <= writes' /\ \A p \in Client : Active(p)' => client'[p].write # k[1]
        BY <1>2, <2>13, SnapshotIsWhole
      <4>2. \A r \in chunks' : Key(r) \in seen =>
               r.doc = client'[c].doc /\ \A n \in r.of : <<r.write, n>> \in seen
        BY <1>2, <2>3, SnapshotIsWhole
      <4>. QED
        BY <2>4, <3>1, <4>1, <4>2 DEF SnapshotFits, Key
    <3>2. CASE o # c
      <4>1. SnapshotFits(o) /\ client'[o] = client[o]
        BY <2>3, <3>2 DEF IInv
      <4>. QED
        BY <1>2, <2>13, <4>1 DEF SnapshotFits, Key
    <3>. QED
      BY <3>1, <3>2
  <2>19. ASSUME NEW o \in Client PROVE DeletionIsWhole(o)'
    <3>1. CASE o = c
      <4>1. \A r \in chunks : r.doc = d => Key(r) \in seen
        BY <2>8 DEF Committed
      <4>. QED
        BY <1>2, <2>3, <2>4, <3>1, <4>1 DEF DeletionIsWhole, Key
    <3>2. CASE o # c
      <4>1. DeletionIsWhole(o) /\ client'[o] = client[o] /\ client[o].doc \in Doc
        BY <1>1, <2>3, <3>2 DEF IInv, TypeOK, Tx
      <4>2. docs'[client[o].doc].by = o => docs[client[o].doc].by = o
        BY <2>5, <3>2, <4>1
      <4>. QED
        BY <1>2, <4>1, <4>2 DEF DeletionIsWhole, Key
    <3>. QED
      BY <3>1, <3>2
  <2>20. OnlyDeletionIsFatal'
    <3>1. \A o \in Client : /\ client'[o].doc = client[o].doc /\ client'[o].error = client[o].error
                            /\ client[o].doc \in Doc
      BY <1>1, <2>3 DEF TypeOK, Tx
    <3>. QED
      BY <2>5, <2>7, <3>1 DEF IInv, OnlyDeletionIsFatal
  <2>. QED
    BY <1>2, <2>9, <2>10, <2>11, <2>12, <2>15, <2>16, <2>17, <2>18, <2>19, <2>20 DEF IInv
<1>. QED
  BY <1>3, <1>4

\* DELETE FROM chunks deletes the rows of its snapshot that are still there: all
\* that others see of the document, or none of it.
LEMMA DeleteRowsKeeps ==
    ASSUME IInv, NEW c \in Client, DeleteRows(c)
    PROVE  IInv'
<1>1. TypeOK /\ NoClient \notin Client
  BY DocumentStoreAssumption DEF IInv
<1>. DEFINE d    == client[c].doc
            seen == client[c].seen
<1>2. /\ client[c].pc = "deleting" /\ docs' = docs /\ writes' = writes
      /\ d \in Doc /\ client[c] \in Tx
      /\ \A r \in chunks : Key(r) \in seen => r.del \in {c, NoClient}
  BY <1>1, Alone DEF DeleteRows, TypeOK, Tx
<1>3. /\ chunks' = (chunks \ Matched(c)) \cup {Marked(c, r) : r \in Matched(c)}
      /\ client' = [client EXCEPT ![c].pc = AfterDelete(c)]
  BY DEF DeleteRows, GoTo, Marked
<1>4. AfterDelete(c) = IF docs[d].by = c THEN "commit" ELSE "insert"
  BY DEF AfterDelete
<1>5. /\ client'[c].pc = AfterDelete(c) /\ client'[c].doc = d /\ client'[c].write = client[c].write
      /\ client'[c].of = client[c].of /\ client'[c].left = client[c].left
      /\ client'[c].seen = seen /\ client'[c].error = client[c].error
      /\ client'[c] \in Tx /\ client' \in [Client -> Tx]
      /\ \A o \in Client : o # c => client'[o] = client[o]
  BY <1>1, <1>2, <1>3, <1>4 DEF TypeOK, Tx
<1>6. TransactionFits(c) /\ SnapshotFits(c) /\ DeletionIsWhole(c)
  BY DEF IInv
<1>7. ASSUME NEW s \in chunks'
      PROVE  \E r \in chunks : /\ s.doc = r.doc /\ s.ordinal = r.ordinal
                               /\ s.write = r.write /\ s.of = r.of /\ s.ins = r.ins
                               /\ s.del = IF Key(r) \in seen THEN c ELSE r.del
  <2>1. CASE s \in chunks \ Matched(c)
    BY <2>1 DEF Matched
  <2>2. CASE s \in {Marked(c, r) : r \in Matched(c)}
    <3>1. PICK r \in chunks : Key(r) \in seen /\ s = Marked(c, r)
      BY <2>2 DEF Matched
    <3>2. r \in Row
      BY <1>1 DEF TypeOK
    <3>. QED
      BY <3>1, <3>2, RowFields
  <2>. QED
    BY <1>3, <2>1, <2>2
<1>8. ASSUME NEW r \in chunks
      PROVE  \E s \in chunks' : /\ s.doc = r.doc /\ s.ordinal = r.ordinal
                                /\ s.write = r.write /\ s.of = r.of /\ s.ins = r.ins
  <2>1. CASE Key(r) \in seen
    <3>1. Marked(c, r) \in chunks' /\ r \in Row
      BY <1>1, <1>3, <2>1 DEF Matched, TypeOK
    <3>. QED
      BY <3>1, RowFields
  <2>2. CASE Key(r) \notin seen
    BY <1>3, <2>2 DEF Matched
  <2>. QED
    BY <2>1, <2>2
\* What the snapshot holds is committed, and about this document.
<1>9. ASSUME NEW r \in chunks, Key(r) \in seen
      PROVE  r.ins = NoClient /\ r.doc = d
  <2>1. r.ins # NoClient => client[r.ins].write = r.write /\ r.ins \in Client /\ Active(r.ins)
    BY <1>1, RowTypes DEF IInv, TypeOK, RowFits, RowInserted, Active
  <2>2. Key(r)[1] = r.write
    BY DEF Key
  <2>. QED
    BY <1>6, <1>9, <2>1, <2>2 DEF SnapshotFits
<1>10. ASSUME NEW r \in chunks PROVE r.ins # c /\ r.del # c
  BY <1>1, <1>2 DEF IInv, RowFits, RowInserted, RowDeleted
<1>11. TypeOK'
  <2>1. chunks' \subseteq Row
    BY <1>1, <1>3, RowFields DEF TypeOK, Matched
  <2>. QED
    BY <1>1, <1>2, <1>5, <2>1 DEF TypeOK
<1>12. \A e \in Doc : docs[e].by = c => e = d /\ docs[e].state = "deleting"
  BY <1>1, <1>2 DEF IInv, HoldersRun
<1>13. HoldersRun'
  <2>. SUFFICES ASSUME NEW e \in Doc
                PROVE  /\ docs[e].by = NoClient => docs[e].state \in {"unborn", "live", "deleted"}
                       /\ docs[e].by # NoClient =>
                            /\ client'[docs[e].by].doc = e
                            /\ \/ docs[e].state = "inserting" /\ client'[docs[e].by].pc = "insert"
                               \/ /\ docs[e].state = "deleting"
                                  /\ client'[docs[e].by].pc \in {"deleting", "commit"}
    BY <1>2 DEF HoldersRun
  <2>1. docs[e].by \in Client \cup {NoClient}
    BY <1>1 DEF TypeOK
  <2>2. CASE docs[e].by = c
    BY <1>1, <1>4, <1>5, <1>12, <2>2
  <2>3. CASE docs[e].by # c
    BY <1>5, <2>1, <2>3 DEF IInv, HoldersRun
  <2>. QED
    BY <2>2, <2>3
<1>14. ASSUME NEW o \in Client PROVE TransactionFits(o)'
  <2>1. CASE o = c
    BY <1>2, <1>4, <1>5, <1>6, <2>1 DEF TransactionFits, Active, Known
  <2>2. CASE o # c
    <3>1. TransactionFits(o) /\ client'[o] = client[o]
      BY <1>5, <2>2 DEF IInv
    <3>. QED
      BY <1>2, <3>1 DEF TransactionFits, Active, Known
  <2>. QED
    BY <2>1, <2>2
<1>15. /\ \A o \in Client : (Active(o)' <=> Active(o)) /\ client'[o].write = client[o].write
       /\ \A o \in Client : client'[o].pc = "insertDocument" => o # c
  BY <1>2, <1>4, <1>5 DEF Active
<1>16. TransactionsDiffer'
  BY <1>5, <1>15 DEF IInv, TransactionsDiffer
<1>17. ASSUME NEW s \in chunks' PROVE RowFits(s)'
  <2>1. PICK r \in chunks : /\ s.doc = r.doc /\ s.ordinal = r.ordinal
                            /\ s.write = r.write /\ s.of = r.of /\ s.ins = r.ins
                            /\ s.del = IF Key(r) \in seen THEN c ELSE r.del
    BY <1>7
  <2>2. RowFits(r) /\ r.ins \in Client \cup {NoClient} /\ r.del \in Client \cup {NoClient}
        /\ r.ins # c /\ r.del # c
    BY <1>1, <1>10, RowTypes DEF IInv, TypeOK
  <2>3. s.ins # NoClient => RowInserted(s)'
    BY <1>2, <1>5, <1>9, <2>1, <2>2 DEF RowFits, RowInserted
  <2>4. s.ins = NoClient => RowCommitted(s)'
    BY <1>2, <1>15, <2>1, <2>2 DEF RowFits, RowCommitted, Listed
  <2>5. s.del # NoClient => RowDeleted(s)'
    BY <1>4, <1>5, <1>9, <2>1, <2>2 DEF RowFits, RowDeleted
  <2>. QED
    BY <1>2, <2>1, <2>2, <2>3, <2>4, <2>5 DEF RowFits
<1>18. RowsAgree'
  <2>. SUFFICES ASSUME NEW s \in chunks', NEW t \in chunks'
                PROVE  /\ s.write = t.write => s.doc = t.doc /\ s.of = t.of
                       /\ s.ins = NoClient /\ t.ins = NoClient /\ s.doc = t.doc =>
                            s.write = t.write /\ s.del = t.del
    BY DEF RowsAgree
  <2>1. PICK r \in chunks : /\ s.doc = r.doc /\ s.ordinal = r.ordinal
                            /\ s.write = r.write /\ s.of = r.of /\ s.ins = r.ins
                            /\ s.del = IF Key(r) \in seen THEN c ELSE r.del
    BY <1>7
  <2>2. PICK q \in chunks : /\ t.doc = q.doc /\ t.ordinal = q.ordinal
                            /\ t.write = q.write /\ t.of = q.of /\ t.ins = q.ins
                            /\ t.del = IF Key(q) \in seen THEN c ELSE q.del
    BY <1>7
  <2>3. /\ r.write = q.write => r.doc = q.doc /\ r.of = q.of
        /\ r.ins = NoClient /\ q.ins = NoClient /\ r.doc = q.doc => r.write = q.write /\ r.del = q.del
    BY DEF IInv, RowsAgree
  <2>4. r.ordinal \in r.of /\ q.ordinal \in q.of
    BY DEF IInv, RowFits
  <2>5. r.write = q.write => (Key(r) \in seen <=> Key(q) \in seen)
    <3>1. /\ Key(r) \in seen => \A n \in r.of : <<r.write, n>> \in seen
          /\ Key(q) \in seen => \A n \in q.of : <<q.write, n>> \in seen
      BY <1>6 DEF SnapshotFits
    <3>. QED
      BY <2>3, <2>4, <3>1 DEF Key
  <2>. QED
    BY <2>1, <2>2, <2>3, <2>5
<1>19. RowsAreUnique'
  <2>. SUFFICES ASSUME NEW s \in chunks', NEW t \in chunks',
                       s.ins # NoClient, s.doc = t.doc, s.ordinal = t.ordinal
                PROVE  t.ins = s.ins \/ t.del = s.ins
    BY DEF RowsAreUnique
  <2>1. PICK r \in chunks : s.doc = r.doc /\ s.ordinal = r.ordinal /\ s.ins = r.ins
    BY <1>7
  <2>2. PICK q \in chunks : /\ t.doc = q.doc /\ t.ordinal = q.ordinal /\ t.ins = q.ins
                            /\ t.del = IF Key(q) \in seen THEN c ELSE q.del
    BY <1>7
  <2>3. q.ins = r.ins \/ q.del = r.ins
    BY <2>1, <2>2 DEF IInv, RowsAreUnique
  <2>4. Key(q) \in seen => q.del \in {c, NoClient}
    BY <1>2
  <2>5. r.ins # c
    BY <1>10
  <2>. QED
    BY <2>1, <2>2, <2>3, <2>4, <2>5
<1>20. CommittedWhole'
  <2>1. ASSUME NEW e \in Doc, Listed(e)' PROVE \E s \in chunks' : s.doc = e /\ s.ins = NoClient
    <3>1. PICK r \in chunks : r.doc = e /\ r.ins = NoClient
      BY <1>2, <2>1 DEF IInv, CommittedWhole, Listed
    <3>. QED
      BY <1>8, <3>1
  <2>2. ASSUME NEW s \in chunks', s.ins = NoClient, NEW n \in s.of
        PROVE  \E t \in chunks' : t.doc = s.doc /\ t.ins = NoClient /\ t.ordinal = n
    <3>1. PICK r \in chunks : r.ins = NoClient /\ r.of = s.of /\ r.doc = s.doc
      BY <1>7, <2>2
    <3>2. PICK q \in chunks : q.doc = r.doc /\ q.ins = NoClient /\ q.ordinal = n
      BY <2>2, <3>1 DEF IInv, CommittedWhole
    <3>. QED
      BY <1>8, <3>1, <3>2
  <2>. QED
    BY <2>1, <2>2 DEF CommittedWhole
<1>21. InsertedWhole'
  <2>. SUFFICES ASSUME NEW o \in Client, client'[o].pc = "insert",
                       NEW n \in client'[o].of \ client'[o].left
                PROVE  \E s \in chunks' : s.ins = o /\ s.ordinal = n
    BY DEF InsertedWhole
  <2>1. o # c
    BY <1>2, <1>4, <1>5, <1>6 DEF TransactionFits
  <2>2. PICK r \in chunks : r.ins = o /\ r.ordinal = n
    BY <1>5, <2>1 DEF IInv, InsertedWhole
  <2>. QED
    BY <1>8, <2>2
<1>22. ASSUME NEW o \in Client PROVE SnapshotFits(o)'
  <2>1. SnapshotFits(o) /\ client'[o].seen = client[o].seen /\ client'[o].doc = client[o].doc
    BY <1>5 DEF IInv
  <2>2. ASSUME NEW s \in chunks', Key(s) \in client[o].seen
        PROVE  s.doc = client[o].doc /\ \A n \in s.of : <<s.write, n>> \in client[o].seen
    BY <1>7, <2>1, <2>2 DEF SnapshotFits, Key
  <2>3. \A k \in client[o].seen :
           k[1] <= writes' /\ \A p \in Client : Active(p)' => client'[p].write # k[1]
    BY <1>2, <1>15, <2>1 DEF SnapshotFits
  <2>. QED
    BY <2>1, <2>2, <2>3 DEF SnapshotFits, Key
<1>23. ASSUME NEW o \in Client PROVE DeletionIsWhole(o)'
  <2>1. DeletionIsWhole(o) /\ client'[o].doc = client[o].doc /\ client'[o].seen = client[o].seen
    BY <1>5 DEF IInv
  <2>2. ASSUME NEW s \in chunks', s.doc = client[o].doc
        PROVE  /\ client'[o].pc = "deleting" /\ docs[client[o].doc].by = o => Key(s) \in client[o].seen
               /\ client'[o].pc = "commit" => s.del = o
    <3>1. PICK r \in chunks : /\ s.doc = r.doc /\ s.ordinal = r.ordinal /\ s.write = r.write
                              /\ s.del = IF Key(r) \in seen THEN c ELSE r.del
      BY <1>7
    <3>2. CASE o = c
      BY <1>2, <1>4, <1>5, <2>1, <2>2, <3>1, <3>2 DEF DeletionIsWhole
    <3>3. CASE o # c
      <4>1. client[o].pc = "commit" => r.del = o
        BY <2>1, <2>2, <3>1 DEF DeletionIsWhole
      <4>2. client[o].pc = "commit" => Key(r) \notin seen
        BY <1>1, <1>2, <3>3, <4>1
      <4>. QED
        BY <1>5, <2>1, <2>2, <3>1, <3>3, <4>1, <4>2 DEF DeletionIsWhole, Key
    <3>. QED
      BY <3>2, <3>3
  <2>. QED
    BY <1>2, <2>1, <2>2 DEF DeletionIsWhole, Key
<1>24. OnlyDeletionIsFatal'
  BY <1>2, <1>5 DEF IInv, OnlyDeletionIsFatal
<1>. QED
  BY <1>11, <1>13, <1>14, <1>16, <1>17, <1>18, <1>19, <1>20, <1>21, <1>22, <1>23, <1>24 DEF IInv

\* INSERT INTO chunks: of the document's rows none that stays has this ordinal.
LEMMA InsertRowKeeps ==
    ASSUME IInv, NEW c \in Client, At(c, "insert"),
           NEW o \in client[c].left, \A p \in client[c].left : o <= p,
           \A r \in chunks : ~Rival(c, r), docs[client[c].doc].state # "deleted",
           chunks' = chunks \cup {NewRow(c, o)},
           client' = [client EXCEPT ![c].left = @ \ {o}], UNCHANGED <<docs, writes>>
    PROVE  IInv'
<1>1. TypeOK /\ NoClient \notin Client
  BY DocumentStoreAssumption DEF IInv
<1>. DEFINE d == client[c].doc
            n == NewRow(c, o)
<1>2. /\ client[c].pc = "insert" /\ docs' = docs /\ writes' = writes
      /\ d \in Doc /\ client[c] \in Tx /\ docs[d].by \in {c, NoClient}
  BY <1>1, Alone DEF TypeOK, Tx
<1>3. /\ client'[c].pc = "insert" /\ client'[c].doc = d /\ client'[c].write = client[c].write
      /\ client'[c].of = client[c].of /\ client'[c].left = client[c].left \ {o}
      /\ client'[c].seen = client[c].seen /\ client'[c].error = client[c].error
      /\ client'[c] \in Tx /\ client' \in [Client -> Tx]
      /\ \A p \in Client : p # c => client'[p] = client[p]
  BY <1>1, <1>2 DEF TypeOK, Tx
<1>4. TransactionFits(c) /\ client[c].write \in 1..writes /\ o \in client[c].of /\ 0 \in client[c].of
  BY <1>2 DEF IInv, TransactionFits, Active
<1>5. /\ n.doc = d /\ n.ordinal = o /\ n.write = client[c].write /\ n.of = client[c].of
      /\ n.ins = c /\ n.del = NoClient
  BY DEF NewRow
<1>6. n \in Row
  BY <1>1, <1>2, <1>4 DEF NewRow, Row, Tx, TypeOK
<1>7. docs[d].by = c \/ docs[d].state = "live"
  BY <1>1, <1>2, <1>4 DEF IInv, HoldersRun, TransactionFits, Known
<1>8. ASSUME NEW r \in chunks
      PROVE  /\ RowFits(r) /\ r.ins \in Client \cup {NoClient} /\ r.del \in Client \cup {NoClient}
             /\ r.doc = d /\ r.ordinal = o => r.del = c /\ r.ins = NoClient
             /\ r.write = client[c].write => r.ins = c
  <2>1. RowFits(r) /\ r.ins \in Client \cup {NoClient} /\ r.del \in Client \cup {NoClient}
    BY <1>1, RowTypes DEF IInv, TypeOK
  <2>2. r.doc = d /\ r.ordinal = o => r.del = c
    BY DEF Rival
  <2>3. r.ins # NoClient => /\ client[r.ins].write = r.write /\ client[r.ins].pc = "insert"
                            /\ r.del = NoClient
    BY <2>1 DEF RowFits, RowInserted
  <2>4. r.ins = NoClient => client[c].write # r.write
    BY <1>2, <2>1 DEF RowFits, RowCommitted, Active
  <2>5. \A p \in Client : p # c /\ client[p].pc = "insert" => client[p].write # client[c].write
    BY <1>2 DEF IInv, TransactionsDiffer, Active
  <2>. QED
    BY <1>1, <2>1, <2>2, <2>3, <2>4, <2>5
<1>9. TypeOK'
  BY <1>1, <1>2, <1>3, <1>6 DEF TypeOK
<1>10. HoldersRun'
  BY <1>1, <1>2, <1>3 DEF IInv, HoldersRun, TypeOK
<1>11. ASSUME NEW p \in Client PROVE TransactionFits(p)'
  <2>1. CASE p = c
    BY <1>2, <1>3, <1>4, <2>1 DEF TransactionFits, Active, Known
  <2>2. CASE p # c
    <3>1. TransactionFits(p) /\ client'[p] = client[p]
      BY <1>3, <2>2 DEF IInv
    <3>. QED
      BY <1>2, <3>1 DEF TransactionFits, Active, Known
  <2>. QED
    BY <2>1, <2>2
<1>12. \A p \in Client : /\ Active(p)' <=> Active(p)
                         /\ client'[p].write = client[p].write /\ client'[p].pc = client[p].pc
                         /\ client'[p].doc = client[p].doc /\ client'[p].of = client[p].of
                         /\ client'[p].seen = client[p].seen /\ client'[p].error = client[p].error
                         /\ client'[p].left \subseteq client[p].left
  BY <1>2, <1>3 DEF Active
<1>13. TransactionsDiffer'
  BY <1>12 DEF IInv, TransactionsDiffer
<1>14. ASSUME NEW r \in chunks' PROVE RowFits(r)'
  <2>1. CASE r = n
    <3>1. /\ r.doc = d /\ r.ordinal = o /\ r.write = client[c].write /\ r.of = client[c].of
          /\ r.ins = c /\ r.del = NoClient
      BY <1>5, <2>1
    <3>2. RowInserted(r)'
      BY <1>2, <1>3, <1>7, <3>1 DEF RowInserted
    <3>3. r.write <= writes' /\ r.ordinal \in r.of /\ 0 \in r.of
      BY <1>1, <1>2, <1>4, <3>1 DEF TypeOK
    <3>. QED
      BY <1>1, <3>1, <3>2, <3>3 DEF RowFits
  <2>2. CASE r \in chunks
    <3>1. RowFits(r) /\ r.ins \in Client \cup {NoClient} /\ r.del \in Client \cup {NoClient}
      BY <1>8, <2>2
    <3>2. r.ins # NoClient => RowInserted(r)'
      BY <1>2, <1>12, <3>1 DEF RowFits, RowInserted
    <3>3. r.ins = NoClient => RowCommitted(r)'
      BY <1>2, <1>12, <3>1 DEF RowFits, RowCommitted, Listed
    <3>4. r.del # NoClient => RowDeleted(r)'
      BY <1>12, <3>1 DEF RowFits, RowDeleted
    <3>. QED
      BY <1>2, <3>1, <3>2, <3>3, <3>4 DEF RowFits
  <2>. QED
    BY <2>1, <2>2
<1>15. RowsAgree'
  <2>1. ASSUME NEW r \in chunks PROVE r.write = n.write => r.doc = n.doc /\ r.of = n.of
    BY <1>1, <1>5, <1>8 DEF RowFits, RowInserted
  <2>2. n.ins # NoClient
    BY <1>1, <1>5
  <2>. QED
    BY <2>1, <2>2 DEF IInv, RowsAgree
<1>16. RowsAreUnique'
  <2>1. ASSUME NEW r \in chunks, r.doc = d, r.ordinal = o PROVE r.ins = NoClient /\ r.del = c
    BY <1>8, <2>1
  <2>. QED
    BY <1>5, <2>1 DEF IInv, RowsAreUnique
<1>17. CommittedWhole'
  <2>1. ASSUME NEW r \in chunks', r.ins = NoClient PROVE r \in chunks
    BY <1>1, <1>5, <2>1
  <2>. QED
    BY <1>2, <2>1 DEF IInv, CommittedWhole, Listed
<1>18. InsertedWhole'
  <2>. SUFFICES ASSUME NEW p \in Client, client'[p].pc = "insert",
                       NEW m \in client'[p].of \ client'[p].left
                PROVE  \E r \in chunks' : r.ins = p /\ r.ordinal = m
    BY DEF InsertedWhole
  <2>1. CASE p = c /\ m = o
    BY <1>5, <2>1
  <2>2. CASE p # c \/ m # o
    <3>1. client[p].pc = "insert" /\ m \in client[p].of \ client[p].left
      BY <1>3, <1>12, <2>2
    <3>. QED
      BY <3>1 DEF IInv, InsertedWhole
  <2>. QED
    BY <2>1, <2>2
<1>19. ASSUME NEW p \in Client PROVE SnapshotFits(p)'
  <2>1. SnapshotFits(p)
    BY DEF IInv
  <2>2. Key(n) \notin client[p].seen
    <3>1. Key(n)[1] = client[c].write
      BY <1>5 DEF Key
    <3>. QED
      BY <1>2, <2>1, <3>1 DEF SnapshotFits, Active
  <2>3. \A k \in client[p].seen :
           k[1] <= writes' /\ \A q \in Client : Active(q)' => client'[q].write # k[1]
    BY <1>2, <1>12, <2>1 DEF SnapshotFits
  <2>4. \A r \in chunks' : Key(r) \in client[p].seen =>
           r.doc = client[p].doc /\ \A m \in r.of : <<r.write, m>> \in client[p].seen
    BY <2>1, <2>2 DEF SnapshotFits
  <2>. QED
    BY <1>12, <2>3, <2>4 DEF SnapshotFits, Key
<1>20. ASSUME NEW p \in Client PROVE DeletionIsWhole(p)'
  <2>1. DeletionIsWhole(p) /\ TransactionFits(p)
    BY DEF IInv
  <2>2. client[p].doc = d /\ docs[d].by = p => client[p].pc = "insert"
    BY <1>1, <1>2
  <2>3. client[p].pc = "commit" => docs[client[p].doc].by = p
    BY <2>1 DEF TransactionFits
  <2>. QED
    BY <1>2, <1>5, <1>12, <2>1, <2>2, <2>3 DEF DeletionIsWhole, Key
<1>21. OnlyDeletionIsFatal'
  BY <1>2, <1>12 DEF IInv, OnlyDeletionIsFatal
<1>. QED
  BY <1>9, <1>10, <1>11, <1>13, <1>14, <1>15, <1>16, <1>17, <1>18, <1>19, <1>20, <1>21 DEF IInv

LEMMA InsertChunkKeeps ==
    ASSUME IInv, NEW c \in Client, InsertChunk(c)
    PROVE  IInv'
<1>1. PICK o \in client[c].left :
         /\ At(c, "insert") /\ \A p \in client[c].left : o <= p
         /\ IF \E r \in chunks : Rival(c, r)              THEN Rollback(c, "unique")
            ELSE IF docs[client[c].doc].state = "deleted" THEN Rollback(c, "foreignKey")
            ELSE /\ chunks' = chunks \cup {NewRow(c, o)}
                 /\ client' = [client EXCEPT ![c].left = @ \ {o}]
                 /\ UNCHANGED <<docs, writes>>
  BY DEF InsertChunk
<1>2. CASE \E r \in chunks : Rival(c, r)
  BY <1>1, <1>2, RollbackKeeps DEF IsRetryable, Errors
<1>3. CASE ~(\E r \in chunks : Rival(c, r)) /\ docs[client[c].doc].state = "deleted"
  BY <1>1, <1>3, RollbackKeeps DEF Errors
<1>4. CASE ~(\E r \in chunks : Rival(c, r)) /\ docs[client[c].doc].state # "deleted"
  BY <1>1, <1>4, InsertRowKeeps
<1>. QED
  BY <1>2, <1>3, <1>4

\* What a transaction wrote and what it deleted change places: for others one
\* complete write of the document takes the place of another, or nothing does.
LEMMA CommitKeeps ==
    ASSUME IInv, NEW c \in Client, Commit(c)
    PROVE  IInv'
<1>1. TypeOK /\ NoClient \notin Client
  BY DocumentStoreAssumption DEF IInv
<1>. DEFINE d == client[c].doc
<1>2. /\ \/ client[c].pc = "commit"
         \/ client[c].pc = "insert" /\ client[c].left = {}
      /\ Committing(c) /\ Ends(c, "none") /\ writes' = writes /\ d \in Doc
  <2>1. \/ client[c].pc = "commit"
        \/ client[c].pc = "insert" /\ client[c].left = {}
    <3>1. At(c, "commit") => client[c].pc = "commit"
      BY DEF At
    <3>2. At(c, "insert") => client[c].pc = "insert"
      BY DEF At
    <3>. QED
      BY <3>1, <3>2 DEF Commit
  <2>2. Committing(c) /\ Ends(c, "none") /\ writes' = writes
    BY DEF Commit
  <2>3. d \in Doc
    BY <1>1 DEF TypeOK, Tx
  <2>. QED
    BY <2>1, <2>2, <2>3
<1>3. /\ client' \in [Client -> Tx]
      /\ \A o \in Client : o # c => client'[o] = client[o]
      /\ client'[c].pc = "idle" /\ client'[c].doc = d
      /\ client'[c].left = {} /\ client'[c].of = {} /\ client'[c].seen = {}
      /\ client'[c].error = "none"
  BY <1>1, <1>2, EndFields DEF Errors
<1>4. TransactionFits(c) /\ DeletionIsWhole(c)
  BY DEF IInv
<1>5. \A e \in Doc : docs[e].by = c =>
        /\ e = d
        /\ client[c].pc = "insert" => docs[e].state = "inserting"
        /\ client[c].pc = "commit" => docs[e].state = "deleting"
  BY <1>1 DEF IInv, HoldersRun
<1>6. \A e \in Doc :
        /\ docs[e].by # c => docs'[e] = docs[e]
        /\ docs[e].by = c => /\ docs'[e].by = NoClient
                             /\ client[c].pc = "insert" => docs'[e].state = "live"
                             /\ client[c].pc = "commit" => docs'[e].state = "deleted"
  BY <1>2, <1>5 DEF Committing
<1>7. \A e \in Doc : docs[e].by \in Client \cup {NoClient}
  BY <1>1 DEF TypeOK
<1>8. chunks' = {Done(c, r) : r \in {s \in chunks : s.del # c}}
  BY <1>2 DEF Committing, Done
<1>9. ASSUME NEW s \in chunks'
      PROVE  \E r \in chunks : /\ r.del # c /\ s.doc = r.doc /\ s.ordinal = r.ordinal
                               /\ s.write = r.write /\ s.of = r.of /\ s.del = r.del
                               /\ s.ins = IF r.ins = c THEN NoClient ELSE r.ins
  <2>1. PICK r \in chunks : r.del # c /\ s = Done(c, r)
    BY <1>8
  <2>2. r \in Row
    BY <1>1 DEF TypeOK
  <2>. QED
    BY <2>1, <2>2, RowFields
<1>10. ASSUME NEW r \in chunks, r.del # c
      PROVE  \E s \in chunks' : /\ s.doc = r.doc /\ s.ordinal = r.ordinal
                                /\ s.ins = IF r.ins = c THEN NoClient ELSE r.ins
  <2>1. Done(c, r) \in chunks' /\ r \in Row
    BY <1>1, <1>8, <1>10 DEF TypeOK
  <2>. QED
    BY <2>1, RowFields
\* What this transaction inserted.
<1>11. ASSUME NEW r \in chunks, r.ins = c
       PROVE  /\ client[c].pc = "insert" /\ r.doc = d /\ r.write = client[c].write
              /\ r.of = client[c].of /\ r.del = NoClient
              /\ docs[d].by = c \/ docs[d].state = "live"
  BY <1>1, <1>11 DEF IInv, RowFits, RowInserted
<1>12. ASSUME client[c].pc = "insert", NEW n \in client[c].of
       PROVE  \E r \in chunks : r.ins = c /\ r.ordinal = n /\ r.doc = d /\ r.del = NoClient
  <2>1. n \in client[c].of \ client[c].left
    BY <1>2, <1>12
  <2>2. PICK r \in chunks : r.ins = c /\ r.ordinal = n
    BY <1>12, <2>1 DEF IInv, InsertedWhole
  <2>. QED
    BY <1>11, <2>2
\* Chunk 0 stands for all: what was committed before of the document is deleted.
<1>13. ASSUME NEW r \in chunks, r.ins = NoClient, r.doc = d PROVE r.del = c
  <2>1. CASE client[c].pc = "commit"
    BY <1>4, <1>13, <2>1 DEF DeletionIsWhole
  <2>2. CASE client[c].pc = "insert"
    <3>1. PICK q \in chunks : q.ins = c /\ q.ordinal = 0 /\ q.doc = d
      BY <1>4, <1>12, <2>2 DEF TransactionFits
    <3>2. 0 \in r.of
      BY DEF IInv, RowFits
    <3>3. PICK t \in chunks : t.doc = d /\ t.ins = NoClient /\ t.ordinal = 0
      BY <1>13, <3>2 DEF IInv, CommittedWhole
    <3>4. t.del = c
      BY <1>1, <3>1, <3>3 DEF IInv, RowsAreUnique
    <3>. QED
      BY <1>13, <3>3, <3>4 DEF IInv, RowsAgree
  <2>. QED
    BY <1>2, <2>1, <2>2
<1>14. \A r \in chunks : r.ins = NoClient /\ r.del # c => r.doc # d
  BY <1>13
<1>15. \A o \in Client : o # c /\ Active(o) => client[o].write # client[c].write
  BY <1>2 DEF IInv, TransactionsDiffer, Active
<1>16. TypeOK'
  <2>1. docs' \in [Doc -> [state : {"unborn", "inserting", "live", "deleting", "deleted"},
                           by : Client \cup {NoClient}]]
    BY <1>1, <1>2 DEF TypeOK, Committing
  <2>2. chunks' \subseteq Row
    BY <1>1, <1>8, RowFields DEF TypeOK
  <2>. QED
    BY <1>1, <1>2, <1>3, <2>1, <2>2 DEF TypeOK
<1>17. HoldersRun'
  <2>. SUFFICES ASSUME NEW e \in Doc
                PROVE  /\ docs'[e].by = NoClient => docs'[e].state \in {"unborn", "live", "deleted"}
                       /\ docs'[e].by # NoClient =>
                            /\ client'[docs'[e].by].doc = e
                            /\ \/ docs'[e].state = "inserting" /\ client'[docs'[e].by].pc = "insert"
                               \/ /\ docs'[e].state = "deleting"
                                  /\ client'[docs'[e].by].pc \in {"deleting", "commit"}
    BY DEF HoldersRun
  <2>1. CASE docs[e].by = c
    BY <1>2, <1>6, <2>1
  <2>2. CASE docs[e].by # c
    BY <1>3, <1>6, <1>7, <2>2 DEF IInv, HoldersRun
  <2>. QED
    BY <2>1, <2>2
<1>18. ASSUME NEW o \in Client PROVE TransactionFits(o)'
  <2>1. CASE o = c
    BY <1>3, <2>1 DEF TransactionFits, Active
  <2>2. CASE o # c
    <3>1. TransactionFits(o) /\ client'[o] = client[o] /\ client[o].doc \in Doc
      BY <1>1, <1>3, <2>2 DEF IInv, TypeOK, Tx
    <3>2. CASE docs[client[o].doc].by = c
      BY <1>1, <1>2, <1>5, <1>6, <2>2, <3>1, <3>2 DEF TransactionFits, Active, Known
    <3>3. CASE docs[client[o].doc].by # c
      BY <1>2, <1>6, <3>1, <3>3 DEF TransactionFits, Active, Known
    <3>. QED
      BY <3>2, <3>3
  <2>. QED
    BY <2>1, <2>2
<1>19. TransactionsDiffer'
  BY <1>3 DEF IInv, TransactionsDiffer, Active
<1>20. ASSUME NEW s \in chunks' PROVE RowFits(s)'
  <2>1. PICK r \in chunks : /\ r.del # c /\ s.doc = r.doc /\ s.ordinal = r.ordinal
                            /\ s.write = r.write /\ s.of = r.of /\ s.del = r.del
                            /\ s.ins = IF r.ins = c THEN NoClient ELSE r.ins
    BY <1>9
  <2>2. RowFits(r) /\ r.ins \in Client \cup {NoClient} /\ r.del \in Client \cup {NoClient}
        /\ r.doc \in Doc
    BY <1>1, RowTypes DEF IInv, TypeOK
  <2>3. s.ins # NoClient => RowInserted(s)'
    <3>1. s.ins # NoClient => s.ins = r.ins /\ r.ins # c /\ RowInserted(r)
      BY <2>1, <2>2 DEF RowFits
    <3>2. docs[r.doc].by = c => docs[r.doc].state \in {"inserting", "deleting"}
      BY <1>2, <1>5, <2>2
    <3>. QED
      BY <1>1, <1>3, <1>6, <2>1, <2>2, <3>1, <3>2 DEF RowInserted
  <2>4. CASE r.ins = c
    <3>1. Listed(s.doc)'
      BY <1>2, <1>6, <1>11, <2>1, <2>4 DEF Listed
    <3>2. \A o \in Client : Active(o)' => client'[o].write # s.write
      BY <1>3, <1>11, <1>15, <2>1, <2>4 DEF Active
    <3>. QED
      BY <1>1, <1>2, <1>11, <2>1, <2>2, <2>4, <3>1, <3>2 DEF RowFits, RowCommitted
  <2>5. CASE r.ins = NoClient
    <3>1. r.doc # d /\ RowCommitted(r)
      BY <1>14, <2>1, <2>2, <2>5 DEF RowFits
    <3>2. docs'[r.doc] = docs[r.doc]
      BY <1>5, <1>6, <2>2, <3>1
    <3>3. RowCommitted(s)'
      BY <1>3, <2>1, <3>1, <3>2 DEF RowCommitted, Listed, Active
    <3>4. s.del # NoClient => RowDeleted(s)'
      BY <1>3, <2>1, <2>2 DEF RowFits, RowDeleted
    <3>. QED
      BY <1>1, <1>2, <2>1, <2>2, <2>5, <3>3, <3>4 DEF RowFits
  <2>6. CASE r.ins \notin {c, NoClient}
    <3>1. s.del # NoClient => RowDeleted(s)'
      BY <1>3, <2>1, <2>2 DEF RowFits, RowDeleted
    <3>. QED
      BY <1>2, <2>1, <2>2, <2>3, <2>6, <3>1 DEF RowFits
  <2>. QED
    BY <2>4, <2>5, <2>6
<1>21. RowsAgree'
  <2>. SUFFICES ASSUME NEW s \in chunks', NEW t \in chunks'
                PROVE  /\ s.write = t.write => s.doc = t.doc /\ s.of = t.of
                       /\ s.ins = NoClient /\ t.ins = NoClient /\ s.doc = t.doc =>
                            s.write = t.write /\ s.del = t.del
    BY DEF RowsAgree
  <2>1. PICK r \in chunks : /\ r.del # c /\ s.doc = r.doc /\ s.write = r.write /\ s.of = r.of
                            /\ s.del = r.del /\ s.ins = IF r.ins = c THEN NoClient ELSE r.ins
    BY <1>9
  <2>2. PICK q \in chunks : /\ q.del # c /\ t.doc = q.doc /\ t.write = q.write /\ t.of = q.of
                            /\ t.del = q.del /\ t.ins = IF q.ins = c THEN NoClient ELSE q.ins
    BY <1>9
  <2>3. /\ r.write = q.write => r.doc = q.doc /\ r.of = q.of
        /\ r.ins = NoClient /\ q.ins = NoClient /\ r.doc = q.doc => r.write = q.write /\ r.del = q.del
    BY DEF IInv, RowsAgree
  <2>4. /\ r.ins = c => r.doc = d /\ r.write = client[c].write /\ r.del = NoClient
        /\ q.ins = c => q.doc = d /\ q.write = client[c].write /\ q.del = NoClient
    BY <1>11
  <2>5. /\ r.ins = NoClient => r.doc # d
        /\ q.ins = NoClient => q.doc # d
    BY <1>14, <2>1, <2>2
  <2>. QED
    BY <2>1, <2>2, <2>3, <2>4, <2>5
<1>22. RowsAreUnique'
  <2>. SUFFICES ASSUME NEW s \in chunks', NEW t \in chunks',
                       s.ins # NoClient, s.doc = t.doc, s.ordinal = t.ordinal
                PROVE  t.ins = s.ins \/ t.del = s.ins
    BY DEF RowsAreUnique
  <2>1. PICK r \in chunks : s.doc = r.doc /\ s.ordinal = r.ordinal /\ s.ins = r.ins /\ r.ins # c
    BY <1>9
  <2>2. PICK q \in chunks : /\ t.doc = q.doc /\ t.ordinal = q.ordinal /\ t.del = q.del
                            /\ t.ins = IF q.ins = c THEN NoClient ELSE q.ins
    BY <1>9
  <2>3. q.ins = r.ins \/ q.del = r.ins
    BY <2>1, <2>2 DEF IInv, RowsAreUnique
  <2>. QED
    BY <2>1, <2>2, <2>3
<1>23. CommittedWhole'
  <2>1. ASSUME NEW e \in Doc, Listed(e)' PROVE \E s \in chunks' : s.doc = e /\ s.ins = NoClient
    <3>1. CASE client[c].pc = "insert" /\ e = d
      <4>1. PICK r \in chunks : r.ins = c /\ r.doc = d /\ r.del = NoClient
        BY <1>4, <1>12, <3>1 DEF TransactionFits
      <4>. QED
        BY <1>1, <1>10, <3>1, <4>1
    <3>2. CASE client[c].pc = "commit" \/ e # d
      <4>1. docs[e].by # c /\ e # d
        BY <1>2, <1>4, <1>5, <1>6, <2>1, <3>2 DEF Listed, TransactionFits
      <4>2. Listed(e)
        BY <1>6, <2>1, <4>1 DEF Listed
      <4>3. PICK r \in chunks : r.doc = e /\ r.ins = NoClient
        BY <4>2 DEF IInv, CommittedWhole
      <4>4. r.del # c
        BY <1>1, <4>1, <4>3 DEF IInv, RowFits, RowDeleted
      <4>. QED
        BY <1>1, <1>10, <4>3, <4>4
    <3>. QED
      BY <1>2, <3>1, <3>2
  <2>2. ASSUME NEW s \in chunks', s.ins = NoClient, NEW n \in s.of
        PROVE  \E t \in chunks' : t.doc = s.doc /\ t.ins = NoClient /\ t.ordinal = n
    <3>1. PICK r \in chunks : /\ r.del # c /\ s.doc = r.doc /\ s.of = r.of
                              /\ s.ins = IF r.ins = c THEN NoClient ELSE r.ins
      BY <1>9
    <3>2. CASE r.ins = c
      <4>1. client[c].pc = "insert" /\ r.doc = d /\ n \in client[c].of
        BY <1>11, <2>2, <3>1, <3>2
      <4>2. PICK q \in chunks : q.ins = c /\ q.ordinal = n /\ q.doc = d /\ q.del = NoClient
        BY <1>12, <4>1
      <4>. QED
        BY <1>1, <1>10, <3>1, <4>1, <4>2
    <3>3. CASE r.ins # c
      <4>1. r.ins = NoClient
        BY <2>2, <3>1, <3>3
      <4>2. PICK q \in chunks : q.doc = r.doc /\ q.ins = NoClient /\ q.ordinal = n
        BY <2>2, <3>1, <4>1 DEF IInv, CommittedWhole
      <4>3. q.del = r.del
        BY <4>1, <4>2 DEF IInv, RowsAgree
      <4>. QED
        BY <1>1, <1>10, <3>1, <4>2, <4>3
    <3>. QED
      BY <3>2, <3>3
  <2>. QED
    BY <2>1, <2>2 DEF CommittedWhole
<1>24. InsertedWhole'
  <2>. SUFFICES ASSUME NEW o \in Client, client'[o].pc = "insert",
                       NEW n \in client'[o].of \ client'[o].left
                PROVE  \E s \in chunks' : s.ins = o /\ s.ordinal = n
    BY DEF InsertedWhole
  <2>1. o # c /\ client'[o] = client[o]
    BY <1>3
  <2>2. PICK r \in chunks : r.ins = o /\ r.ordinal = n
    BY <2>1 DEF IInv, InsertedWhole
  <2>3. r.del = NoClient
    BY <1>1, <2>2 DEF IInv, RowFits, RowInserted
  <2>. QED
    BY <1>1, <1>10, <2>1, <2>2, <2>3
<1>25. ASSUME NEW o \in Client PROVE SnapshotFits(o)' /\ DeletionIsWhole(o)'
  <2>1. CASE o = c
    BY <1>3, <2>1 DEF SnapshotFits, DeletionIsWhole
  <2>2. CASE o # c
    <3>1. SnapshotFits(o) /\ DeletionIsWhole(o) /\ client'[o] = client[o] /\ client[o].doc \in Doc
      BY <1>1, <1>3, <2>2 DEF IInv, TypeOK, Tx
    <3>2. SnapshotFits(o)'
      <4>1. \A k \in client[o].seen :
               k[1] <= writes' /\ \A p \in Client : Active(p)' => client'[p].write # k[1]
        BY <1>2, <1>3, <3>1 DEF SnapshotFits, Active
      <4>2. ASSUME NEW s \in chunks', Key(s) \in client[o].seen
            PROVE  s.doc = client[o].doc /\ \A n \in s.of : <<s.write, n>> \in client[o].seen
        BY <1>9, <3>1, <4>2 DEF SnapshotFits, Key
      <4>. QED
        BY <3>1, <4>1, <4>2 DEF SnapshotFits, Key
    <3>3. docs'[client[o].doc].by = o => docs[client[o].doc].by = o
      BY <1>1, <1>6, <3>1
    <3>4. ASSUME NEW s \in chunks', s.doc = client[o].doc
          PROVE  /\ client[o].pc = "deleting" /\ docs'[client[o].doc].by = o => Key(s) \in client[o].seen
                 /\ client[o].pc = "commit" => s.del = o
      BY <1>9, <3>1, <3>3, <3>4 DEF DeletionIsWhole, Key
    <3>. QED
      BY <3>1, <3>2, <3>4 DEF DeletionIsWhole, Key
  <2>. QED
    BY <2>1, <2>2
<1>26. OnlyDeletionIsFatal'
  <2>. SUFFICES ASSUME NEW o \in Client
                PROVE  \/ client'[o].error = "none" \/ IsRetryable(client'[o].error)
                       \/ docs'[client'[o].doc].state = "deleted"
    BY DEF OnlyDeletionIsFatal, IsRetryable
  <2>1. client'[o].doc = client[o].doc /\ client[o].doc \in Doc
    BY <1>1, <1>3 DEF TypeOK, Tx
  <2>2. docs[client[o].doc].state = "deleted" => docs'[client[o].doc].state = "deleted"
    BY <1>2, <1>5, <1>6, <2>1
  <2>. QED
    BY <1>3, <2>1, <2>2 DEF IInv, OnlyDeletionIsFatal
<1>. QED
  BY <1>16, <1>17, <1>18, <1>19, <1>20, <1>21, <1>22, <1>23, <1>24, <1>25, <1>26 DEF IInv

-----------------------------------------------------------------------------
(* The theorems.                                                           *)

\* The inductive invariant holds however transactions interleave.
THEOREM Invariant == Spec => []IInv
<1>1. NoClient \notin Client /\ Doc # {} /\ MaxWrites \in Nat
  BY DocumentStoreAssumption
<1>2. Init => IInv
  <2>. SUFFICES ASSUME Init PROVE IInv
    OBVIOUS
  <2>1. PICK d \in Doc : client = [c \in Client |-> Idle(d, "none")]
    BY <1>1 DEF Init
  <2>2. Idle(d, "none") \in Tx
    BY <1>1 DEF Idle, Tx
  <2>3. \A c \in Client : /\ client[c].pc = "idle" /\ client[c].seen = {} /\ client[c].error = "none"
    BY <2>1 DEF Idle
  <2>4. TypeOK
    BY <1>1, <2>1, <2>2 DEF Init, TypeOK
  <2>5. /\ chunks = {}
        /\ \A e \in Doc : docs[e].state = "unborn" /\ docs[e].by = NoClient
    BY DEF Init
  <2>6. HoldersRun /\ TransactionsDiffer /\ InsertedWhole /\ OnlyDeletionIsFatal
    BY <2>3, <2>5 DEF HoldersRun, TransactionsDiffer, InsertedWhole, OnlyDeletionIsFatal, Active
  <2>7. RowsAgree /\ RowsAreUnique /\ CommittedWhole
    BY <2>5 DEF RowsAgree, RowsAreUnique, CommittedWhole, Listed
  <2>8. \A c \in Client : TransactionFits(c) /\ SnapshotFits(c) /\ DeletionIsWhole(c)
    BY <2>3, <2>5 DEF TransactionFits, SnapshotFits, DeletionIsWhole, Active
  <2>. QED
    BY <2>4, <2>5, <2>6, <2>7, <2>8 DEF IInv
<1>3. IInv /\ [Next]_vars => IInv'
  <2>. SUFFICES ASSUME IInv, [Next]_vars PROVE IInv'
    OBVIOUS
  <2>1. ASSUME NEW c \in Client, Begin(c) \/ Statement(c) \/ Interrupt(c) PROVE IInv'
    <3>1. CASE Begin(c)
      BY <3>1, BeginKeeps
    <3>2. CASE InsertDocument(c)
      BY <3>2, InsertDocumentKeeps
    <3>3. CASE DeleteBegins(c)
      BY <3>3, DeleteBeginsKeeps
    <3>4. CASE DeleteRows(c)
      BY <3>4, DeleteRowsKeeps
    <3>5. CASE InsertChunk(c)
      BY <3>5, InsertChunkKeeps
    <3>6. CASE LockDocument(c)
      BY <3>6, LockDocumentKeeps
    <3>7. CASE Commit(c)
      BY <3>7, CommitKeeps
    <3>8. CASE Deadlock(c)
      BY <3>8, RollbackKeeps DEF Deadlock, IsRetryable, Errors
    <3>9. CASE Interrupt(c)
      BY <3>9, RollbackKeeps DEF Interrupt, IsRetryable, Errors
    <3>. QED
      BY <2>1, <3>1, <3>2, <3>3, <3>4, <3>5, <3>6, <3>7, <3>8, <3>9 DEF Statement
  <2>2. CASE UNCHANGED vars
    <3>1. docs' = docs /\ chunks' = chunks /\ client' = client /\ writes' = writes
      BY <2>2 DEF vars
    <3>. QED
      BY <3>1 DEF IInv, TypeOK, HoldersRun, TransactionFits, SnapshotFits, DeletionIsWhole,
                  TransactionsDiffer, RowFits, RowInserted, RowCommitted, RowDeleted, RowsAgree,
                  RowsAreUnique, CommittedWhole, InsertedWhole, OnlyDeletionIsFatal, Active,
                  Listed, Known, Key
  <2>. QED
    BY <2>1, <2>2 DEF Next
<1>. QED
  BY <1>2, <1>3, PTL DEF Spec

\* Type correctness of the tables and the transactions.
THEOREM TypeCorrect == Spec => []TypeOK
<1>1. IInv => TypeOK
  BY DEF IInv
<1>. QED
  BY <1>1, Invariant, PTL

\* Readers see every listed document with one complete write of its chunks, and
\* no chunk of another document.
THEOREM ReadersSeeOneWrite == Spec => []ReadersSeeWholeDocuments
<1>1. IInv => ReadersSeeWholeDocuments
  <2>. SUFFICES ASSUME IInv, NEW d \in Doc
                PROVE  IF Listed(d)
                       THEN \E r \in Committed(d) :
                              /\ \A s \in Committed(d) : s.write = r.write
                              /\ {s.ordinal : s \in Committed(d)} = r.of
                       ELSE Committed(d) = {}
    BY DEF ReadersSeeWholeDocuments
  <2>1. CASE Listed(d)
    <3>1. PICK r \in chunks : r.doc = d /\ r.ins = NoClient
      BY <2>1 DEF IInv, CommittedWhole
    <3>2. ASSUME NEW s \in Committed(d) PROVE s.write = r.write /\ s.ordinal \in r.of
      BY <3>1 DEF IInv, RowsAgree, RowFits, Committed
    <3>3. ASSUME NEW n \in r.of PROVE n \in {s.ordinal : s \in Committed(d)}
      BY <3>1 DEF IInv, CommittedWhole, Committed
    <3>4. {s.ordinal : s \in Committed(d)} = r.of
      BY <3>2, <3>3
    <3>. QED
      BY <2>1, <3>1, <3>2, <3>4 DEF Committed
  <2>2. CASE ~Listed(d)
    BY <2>2 DEF IInv, RowFits, RowCommitted, Committed
  <2>. QED
    BY <2>1, <2>2
<1>. QED
  BY <1>1, Invariant, PTL

\* An error that is not retried means that the document was deleted.
THEOREM FatalMeansDeleted == Spec => []OnlyDeletionIsFatal
<1>1. IInv => OnlyDeletionIsFatal
  BY DEF IInv
<1>. QED
  BY <1>1, Invariant, PTL
=============================================================================
