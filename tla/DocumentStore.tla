--------------------------- MODULE DocumentStore ----------------------------
(***************************************************************************)
(* The tables documents and chunks of internal/store/store.go under        *)
(* concurrent transactions: CreateDocument, ReplaceDocumentChunks and      *)
(* DeleteDocument with its cascade, one statement per step, and the two    *)
(* ways of internal/rag/service.go to come by the chunks of a reindex.     *)
(*                                                                         *)
(* PostgreSQL at READ COMMITTED is modelled by what these statements meet: *)
(* a row keeps the transaction that inserted it and the one that deleted   *)
(* it until they end; a statement sees the rows committed when it began,   *)
(* waits for the transactions that hold what it needs, and then looks at   *)
(* the rows again; a cycle of waiting transactions costs one of them.      *)
(*                                                                         *)
(* All documents here are uploads of the same file: they have the same     *)
(* checksum, so that at most one can be in the table.                      *)
(***************************************************************************)
EXTENDS Integers, FiniteSets

CONSTANTS
    Client,     \* workers, and requests that delete
    NoClient,
    Doc,        \* ids of documents
    MaxChunks,  \* bound of a run: chunks of one document
    MaxWrites   \* bound of a run: transactions begun

ASSUME DocumentStoreAssumption ==
    /\ NoClient \notin Client /\ Doc # {}
    /\ MaxChunks \in Nat \ {0} /\ MaxWrites \in Nat

VARIABLES
    docs,       \* docs[d]: whether document d is there, and who is changing that
    chunks,     \* the rows of chunks, those not yet committed or removed included
    client,     \* client[c]: the transaction of c
    writes      \* transactions begun so far

vars == <<docs, chunks, client, writes>>

Ordinal == 0..(MaxChunks - 1)

\* A row of chunks: its write is the set of chunks that it was inserted with,
\* which has the ordinals of; ins and del are transactions that have not ended.
Row == [doc : Doc, ordinal : Ordinal, write : 1..MaxWrites, of : SUBSET Ordinal,
        ins : Client \cup {NoClient}, del : Client \cup {NoClient}]

Key(r) == <<r.write, r.ordinal>>

\* seen is the snapshot of a DELETE, left the ordinals still to insert.
Tx == [pc : {"idle", "insertDocument", "delete", "deleting", "insert", "deleteDocument", "commit"},
       doc : Doc, write : 0..MaxWrites, of : SUBSET Ordinal, left : SUBSET Ordinal,
       seen : SUBSET ((1..MaxWrites) \X Ordinal),
       error : {"none", "timeout", "unique", "foreignKey", "deadlock", "noChunks"}]

\* Between two transactions: what became of the last one, on document d.
Idle(d, error) == [pc |-> "idle", doc |-> d, write |-> 0, of |-> {}, left |-> {},
                   seen |-> {}, error |-> error]

Init ==
    /\ docs = [d \in Doc |-> [state |-> "unborn", by |-> NoClient]]
    /\ chunks = {}
    /\ client = [c \in Client |-> Idle(CHOOSE d \in Doc : TRUE, "none")]
    /\ writes = 0

-----------------------------------------------------------------------------
(* What other transactions see.                                            *)

Listed(d) == docs[d].state \in {"live", "deleting"}

Committed(d) == {r \in chunks : r.doc = d /\ r.ins = NoClient}

\* The rows that the DELETE of c found and that are still there.
Matched(c) == {r \in chunks : Key(r) \in client[c].seen}

-----------------------------------------------------------------------------
(* Locks.                                                                  *)

\* Faulty variant: no UNIQUE(document_id, ordinal).
NoRival(c, r) == FALSE

\* UNIQUE(document_id, ordinal): the rows that the next INSERT of c meets.
Rival(c, r) ==
    /\ client[c].left # {}
    /\ r.doc = client[c].doc /\ r.del # c
    /\ r.ordinal \in client[c].left /\ \A o \in client[c].left : r.ordinal <= o

\* The transactions that the statement of c must wait for.  An INSERT into
\* chunks locks its document's row FOR KEY SHARE, DELETE FROM documents waits
\* for that lock; an INSERT into documents waits for one of the same checksum.
WaitsFor(c) ==
    LET d == client[c].doc IN
    (CASE client[c].pc = "insertDocument" -> {docs[e].by : e \in Doc}
       [] client[c].pc = "deleting"       -> {r.del : r \in Matched(c)}
       [] client[c].pc = "insert"         ->
            {docs[d].by} \cup UNION {{r.ins, r.del} : r \in {s \in chunks : Rival(c, s)}}
       [] client[c].pc = "deleteDocument" ->
            {docs[d].by} \cup {r.ins : r \in {s \in chunks : s.doc = d}}
       [] OTHER -> {})
    \ {c, NoClient}

At(c, pc) == client[c].pc = pc /\ WaitsFor(c) = {}

GoTo(c, pc) == client' = [client EXCEPT ![c].pc = pc]

-----------------------------------------------------------------------------
(* The end of a transaction.                                               *)

Ends(c, error) == client' = [client EXCEPT ![c] = Idle(@.doc, error)]

\* Faulty variant: no defer tx.Rollback.
Abandon(c, error) ==
    /\ Ends(c, error)
    /\ UNCHANGED <<docs, chunks, writes>>

\* defer tx.Rollback
Rollback(c, error) ==
    /\ Ends(c, error)
    /\ chunks' = {[r EXCEPT !.del = IF @ = c THEN NoClient ELSE @] : r \in {s \in chunks : s.ins # c}}
    /\ docs' = [d \in Doc |->
                  IF docs[d].by = c
                  THEN [state |-> IF docs[d].state = "inserting" THEN "unborn" ELSE "live",
                        by |-> NoClient]
                  ELSE docs[d]]
    /\ UNCHANGED writes

Committing(c) ==
    /\ chunks' = {[r EXCEPT !.ins = IF @ = c THEN NoClient ELSE @] : r \in {s \in chunks : s.del # c}}
    /\ docs' = [d \in Doc |->
                  IF docs[d].by = c
                  THEN [state |-> IF docs[d].state = "inserting" THEN "live" ELSE "deleted",
                        by |-> NoClient]
                  ELSE docs[d]]

Commit(c) ==
    /\ \/ At(c, "commit")
       \/ At(c, "insert") /\ client[c].left = {}
    /\ Committing(c)
    /\ Ends(c, "none")
    /\ UNCHANGED writes

\* The context of the job or of the request ends, or the connection breaks.
Interrupt(c) ==
    /\ client[c].pc # "idle"
    /\ Rollback(c, "timeout")

\* PostgreSQL finds that c and another transaction wait for each other.
Deadlock(c) ==
    /\ \E o \in WaitsFor(c) : c \in WaitsFor(o)
    /\ Rollback(c, "deadlock")

\* Faulty variant: a deadlock is not retried.
OnlyCollisions(error) == error \in {"timeout", "unique"}

\* isRetryableIngestionError: DeadlineExceeded, 23505 and 40P01, not 23503.
IsRetryable(error) == error \in {"timeout", "unique", "deadlock"}

-----------------------------------------------------------------------------
(* Transactions begin.                                                     *)

Begins(c, pc, d, ordinals) ==
    /\ client[c].pc = "idle" /\ writes < MaxWrites
    /\ client' = [client EXCEPT ![c] = [pc |-> pc, doc |-> d, write |-> writes + 1,
                    of |-> ordinals, left |-> ordinals, seen |-> {}, error |-> "none"]]
    /\ writes' = writes + 1

\* Faulty variant: the parts are counted from 1.
CountedFromOne(n) == 1..n

\* buildChunks numbers its parts.
Ordinals(n) == 0..(n - 1)

Inserting(c) == client[c].pc \in {"insertDocument", "insert"}

\* FindDocumentByChecksum found nothing and the file was cut into n chunks;
\* newID gives the document an id that no other has.
IndexDocument(c, d, n) ==
    /\ \A e \in Doc : ~Listed(e)
    /\ docs[d].state = "unborn" /\ \A o \in Client : ~(Inserting(o) /\ client[o].doc = d)
    /\ Begins(c, "insertDocument", d, Ordinals(n))
    /\ UNCHANGED <<docs, chunks>>

\* The job names a document that was there when it was created.
Known(d) == docs[d].state \in {"live", "deleting", "deleted"}

ReindexDocument(c, d, n) ==
    /\ Known(d)
    /\ Begins(c, "delete", d, Ordinals(n))
    /\ UNCHANGED <<docs, chunks>>

\* ListDocumentChunks, long before the transaction that replaces them.
ReindexStoredChunks(c, d) ==
    /\ Known(d)
    /\ Begins(c, "delete", d, {r.ordinal : r \in Committed(d)})
    /\ Committed(d) # {}
    /\ UNCHANGED <<docs, chunks>>

\* "document contains no stored chunks"
NoStoredChunks(c, d) ==
    /\ Known(d) /\ Committed(d) = {}
    /\ client[c].pc = "idle" /\ writes < MaxWrites
    /\ writes' = writes + 1
    /\ client' = [client EXCEPT ![c] = Idle(d, "noChunks")]
    /\ UNCHANGED <<docs, chunks>>

DeleteDocument(c, d) ==
    /\ Known(d)
    /\ Begins(c, "deleteDocument", d, {})
    /\ UNCHANGED <<docs, chunks>>

-----------------------------------------------------------------------------
(* Statements.                                                             *)

\* INSERT INTO documents under UNIQUE(checksum).
InsertDocument(c) ==
    LET d == client[c].doc IN
    /\ At(c, "insertDocument")
    /\ IF \E e \in Doc : Listed(e)
       THEN Rollback(c, "unique")
       ELSE /\ docs' = [docs EXCEPT ![d] = [state |-> "inserting", by |-> c]]
            /\ GoTo(c, "insert")
            /\ UNCHANGED <<chunks, writes>>

\* DELETE FROM chunks begins: it takes its snapshot ...
DeleteBegins(c) ==
    /\ At(c, "delete")
    /\ client' = [client EXCEPT ![c].pc = "deleting",
                                ![c].seen = {Key(r) : r \in Committed(client[c].doc)}]
    /\ UNCHANGED <<docs, chunks, writes>>

AfterDelete(c) == IF docs[client[c].doc].by = c THEN "commit" ELSE "insert"

\* Faulty variant: the DELETE is a statement on its own, not one of the
\* transaction.
DeleteAtOnce(c) ==
    /\ At(c, "deleting")
    /\ chunks' = chunks \ Matched(c)
    /\ GoTo(c, AfterDelete(c))
    /\ UNCHANGED <<docs, writes>>

\* ... and deletes what is left of it once no other transaction holds a row.
DeleteRows(c) ==
    /\ At(c, "deleting")
    /\ chunks' = (chunks \ Matched(c)) \cup {[r EXCEPT !.del = c] : r \in Matched(c)}
    /\ GoTo(c, AfterDelete(c))
    /\ UNCHANGED <<docs, writes>>

NewRow(c, o) ==
    [doc |-> client[c].doc, ordinal |-> o, write |-> client[c].write,
     of |-> client[c].of, ins |-> c, del |-> NoClient]

\* One INSERT of insertChunks: the unique index, then the foreign key.
InsertChunk(c) ==
    /\ At(c, "insert")
    /\ \E o \in client[c].left :
         /\ \A p \in client[c].left : o <= p
         /\ IF \E r \in chunks : Rival(c, r)              THEN Rollback(c, "unique")
            ELSE IF docs[client[c].doc].state = "deleted" THEN Rollback(c, "foreignKey")
            ELSE /\ chunks' = chunks \cup {NewRow(c, o)}
                 /\ client' = [client EXCEPT ![c].left = @ \ {o}]
                 /\ UNCHANGED <<docs, writes>>

\* DELETE FROM documents locks the row; ON DELETE CASCADE is a DELETE FROM
\* chunks with a snapshot of its own.  A document that is gone is no error.
LockDocument(c) ==
    LET d == client[c].doc IN
    /\ At(c, "deleteDocument")
    /\ IF docs[d].state = "deleted"
       THEN Ends(c, "none") /\ UNCHANGED docs
       ELSE /\ docs' = [docs EXCEPT ![d] = [state |-> "deleting", by |-> c]]
            /\ client' = [client EXCEPT ![c].pc = "deleting",
                                        ![c].seen = {Key(r) : r \in Committed(d)}]
    /\ UNCHANGED <<chunks, writes>>

-----------------------------------------------------------------------------
Begin(c) ==
    \E d \in Doc :
        \/ \E n \in 1..MaxChunks : IndexDocument(c, d, n) \/ ReindexDocument(c, d, n)
        \/ ReindexStoredChunks(c, d) \/ NoStoredChunks(c, d) \/ DeleteDocument(c, d)

Statement(c) ==
    \/ InsertDocument(c) \/ DeleteBegins(c) \/ DeleteRows(c) \/ InsertChunk(c)
    \/ LockDocument(c) \/ Commit(c) \/ Deadlock(c)

Next == \E c \in Client : Begin(c) \/ Statement(c) \/ Interrupt(c)

Spec     == Init /\ [][Next]_vars
FairSpec == Spec /\ \A c \in Client : WF_vars(Statement(c))

-----------------------------------------------------------------------------
(* Properties.                                                             *)

TypeOK ==
    /\ docs \in [Doc -> [state : {"unborn", "inserting", "live", "deleting", "deleted"},
                         by : Client \cup {NoClient}]]
    /\ chunks \subseteq Row
    /\ client \in [Client -> Tx]
    /\ writes \in 0..MaxWrites

\* What a search or a listing reads at any moment: every document that is
\* listed has chunks, all of one write and all the chunks of that write, and
\* there are no chunks without their document, however uploads, reindexing and
\* deletions of it interleave, wait, fail or are rolled back.
ReadersSeeWholeDocuments ==
    \A d \in Doc :
        IF Listed(d)
        THEN \E r \in Committed(d) :
               /\ \A s \in Committed(d) : s.write = r.write
               /\ {s.ordinal : s \in Committed(d)} = r.of
        ELSE Committed(d) = {}

\* A job does not fail for good because of what others do at the same time:
\* where its error is not retried, its document has been deleted.
OnlyDeletionIsFatal ==
    \A c \in Client :
        client[c].error = "none" \/ IsRetryable(client[c].error)
        \/ docs[client[c].doc].state = "deleted"

\* Every transaction ends: no set of uploads, reindex jobs and deletions
\* waits for each other forever.
EveryTransactionEnds == \A c \in Client : client[c].pc # "idle" ~> client[c].pc = "idle"
=============================================================================
